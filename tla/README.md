# Verification of postiz-uploader

postiz-uploader is a worker that fetches a media file, normalises it (video,
image), cuts clips from it (clip) or ingests a long source (ingest), and stores
what it made under presigned URLs. This directory holds TLA+ models of its core,
the TLC configurations that check them on small instances, and proofs of the
most important theorems for every value of the constants.

Source paths are relative to `src/`; "README n" is the section of `src/README.md`.

## 1. Inventory

| part | state it keeps | operations | speaks with |
|---|---|---|---|
| `handler.py` | none | one thread per job, `WORKER_CONCURRENCY` at a time | calls `process` |
| `pipeline.py` | per call: deadline, work directory, `source`, timing; shared: the scratch disk | `process`, `_process_staged`, `_ensure_disk` | every stage; the bucket through `upload` |
| `download.py`, `sniff.py` | the input file | `download` chunk by chunk, `host_allowed`, `sniff` | origin |
| `probe.py` | none | `probe`, `isobmff_faststart` | ffprobe |
| `planner.py` | none | `clamp_dimensions`, `plan_video` | probe, rules |
| `video.py`, `ffmpeg.py` | output file, rung of the encode ladder | `_run_encode`, `_post_check`, thumbnail, `run` | ffmpeg, ffprobe |
| `image.py` | output file | `process_image` | Pillow |
| `upload.py` | attempts | `upload`: three PUTs with backoff | bucket |
| `clip.py` | results so far, the ladder left for the job, clip files | `process_clips`, `_render` | download, ffmpeg, upload |
| `captions.py` | none | words to lines to ASS text | clip |
| `devapi.py` | table of jobs, pool queue, one dict per job | `/run`, `/runsync`, `/status` | `process` on pool threads |
| `ingest.py`, `ytdlp.py` | route, files, `partial` | routes, metadata, download, remux, audio | yt-dlp, upload, pot |
| `oxylabs.py` | none (a remote job, a bucket object) | metadata, transcript, submit, wait, deliver, discard | Oxylabs, its bucket |
| `pot.py` | the token server process, a lock | `ensure`, `_spawn`, `stop` | ingest, handler |
| `schema.py`, `config.py`, `log.py` | caches | `parse_job`, `get_settings` | all |

What is hard here, and what has to be true of each part:

* **One result, whatever happens.** `process` promises never to raise, always to
  clean up, and to report every failure with a code and whether to retry. Every
  stage can fail, time out, or raise something nobody expected. Correct is: each
  call returns, once, and what it says agrees with what is in the bucket; the
  caller resubmits by `retryable` and keeps its original by `unchanged`.
* **A deadline that is looked at in some places only.** ffmpeg is killed at it,
  the download looks once per chunk, the image stage, the thumbnail and the
  uploads never look. Correct is: a job late before its first upload stores
  nothing.
* **A shared scratch disk without reservation.** The free-space check is made
  before any byte is written, by jobs that run at the same time. Correct is: on
  the documented disk no job is ever starved.
* **Fallback ladders.** A GPU worker tries CUDA decode, then software decode with
  NVENC, then libx264; a clip job drops rungs as they fail. Correct is: a job
  fails only after its last rung did, and a clip is kept from a rung only by a
  failure of that rung. (A failure by accident does cost later clips the rung.)
* **Several clips, one result.** Correct is: the status is the sum of what
  happened to each clip, and clip by clip it agrees with the bucket.
* **Unlocked dicts in the dev API.** A job is read field by field while its pool
  thread writes it. Correct is: a final answer is complete, a poll never goes
  back, 404 means expired, every submission is answered.
* **Bounds that pull in opposite directions.** Correct is: the output satisfies
  the rules, so a second pass changes nothing.
* **Routes of an ingest job.** yt-dlp is tried over one route after the other, and
  each attempt leaves facts and files for the next one. Correct is: a route is
  used when all before it were blocked, and the result speaks of the route that
  won.
* **Downloads that cost money.** Oxylabs runs its own job and puts an object into
  a bucket of the worker's. Correct is: nothing is paid for that no output needs,
  what was found is deleted, and a job returns though Oxylabs never ends its part.
* **A token server several jobs need.** It starts slowly, may die or hang, and
  every job that asks for it waits with one lock in its hand. Correct is: no
  process is started twice or forgotten, what a job waits for it is bounded, and a
  job goes without tokens only for a reason.
* **Captions from somebody else's clock.** The words arrive in any order, blank,
  overlapping and across both ends of the window. Correct is: every word of the
  window is in one line, and while it is spoken that line, with that word
  highlighted, is on the screen.
* **The text of an error decides.** `classify` searches what yt-dlp said for three
  tables of markers, one after the other. Correct is: only what another route could
  help with is tried over another route.

`PROJECT.json` lists each of these at its line, with the property that covers it
or the reason why none does.

## 2. Modules

| module | models | lines of |
|---|---|---|
| `JobResults` | error codes, results, objects, and when the two agree | `errors.py`, `_result` |
| `JobContract` | the abstract specification: what one call of `process` promises | README 4.2, 4.3, 5.8 |
| `Pipeline` | `process` for video and image jobs with every stage, many jobs at once | `pipeline.py`, `download.py`, `video.py`, `image.py`, `upload.py`, `ffmpeg.run` |
| `MCPipeline` | instances of `Pipeline` for TLC | |
| `PipelineProofs` | the proofs about `Pipeline` | |
| `ClipJob` | a clip job, clip after clip | `clip.py`, `_process_staged`, `has_filter` |
| `ClipJobProofs` | the proofs about `ClipJob` | |
| `DevApi` | the RunPod stand-in, by access to the shared dicts | `devapi.py` |
| `DevApiProofs` | the proofs about `DevApi` | |
| `IngestContract` | the abstract specification: what one ingest job promises | README 4.4 |
| `Ingest` | an ingest job from any of the three sources, with Oxylabs' job beside it | `ingest.py`, `ytdlp.py`, `oxylabs.py`, `_process_staged`, `_parse_ingest` |
| `IngestProofs` | the proofs about `Ingest` | |
| `PotServer` | the token server: the calls that need it, their lock, its process and port | `pot.py` |
| `PotServerProofs` | the proofs about `PotServer` | |
| `Captions` | the words of a clip, their lines and what is on the screen | `captions.py` |
| `MCCaptions` | the instance of `Captions` for TLC | |
| `CaptionsProofs` | the proofs about `Captions` | |
| `Planner` | `clamp_dimensions`, `plan_video`, the effect of the built commands, the post-check, the image stage's decision | `planner.py`, `ffmpeg.py`, `video.py`, `image.py` |
| `PlannerProofs` | the proofs about `Planner` | |

`Pipeline` and `ClipJob` implement `JobContract` (`ImplementsContract`,
`ClipsKeepContract`); in `ClipJob` each clip is a job of the contract, one at a
time. `Ingest` implements `IngestContract` (`IngestKeepsContract`): what it stores
is at every moment the beginning, in the order video, audio, transcript, of a set
that fulfils the request, and it returns one result that names what it stored, or
a failure that is retryable as soon as anything is stored. `DevApi` treats
`process` as one step that ends, which is `EveryJobReturns` of `Pipeline`.
`Pipeline` takes the plan of a video as nondeterministic among the five shapes its
later stages tell apart; `Planner` has how it is reached.

### Pipeline

The thread of job `j` is at `pc[j]`; a step is one call that can block or fail.
`request`, `probed`, `source`, `plan`, `attempt`, `tries`, `shot` and `result` are
local variables of `process` and of the stage it is in; `dir`, `input`, `output`
and `size` are its work directory; `store` is the bucket. `late[j]` is whether
`time.monotonic()` has passed the deadline. `DeadlinePasses` may happen between
any two steps; an ffmpeg that is running at the deadline is killed
(`EncodeTimesOut`). What the origin, ffmpeg, ffprobe, Pillow and the bucket
answer is nondeterministic; a PUT without an answer may have stored the file.
`Crash` is any exception that is not a `JobError`. `works`, chosen with the plan,
is which rungs of the ladder this host and source allow, and `starved` records
that a write met a full disk; both exist for the properties and the environment,
no guard of the code reads them but through ffmpeg's exit status.

Bytes are counted in download chunks of 1 MiB: `Chunks` are those of all inputs and
outputs, and `Free` is what they leave of the disk. Files smaller than a chunk
(thumbnails, sniffed heads) are not counted. `Leaks` is what directories of a
killed worker may hold: `process` has no recovery, so a crash of the worker shows
up only as a smaller disk for the next one.

### ClipJob

`entries` is the list of results, `ladder` is `_Encoders.attempts`, `rungs` what
is left of the copy `_render` walks; both are sets, since a ladder only ever loses
rungs, and their order is `Rank`; `filter` the cached answer of `has_filter`.
Everything before the probe of the source is one step (`Fetch`), since `Pipeline`
has those calls one by one. A rung that works may still fail by accident (a full
disk, an ffmpeg that is killed), which `accidents` records per clip and rung; the
code drops it for the later clips all the same.

### Ingest

The thread is at `pc`; a job starts at the source it names (`direct`, `ytdlp`, or
`prepare` for Oxylabs), and all meet at `probe` or, with captions only, at `gate`.
`source` is `partial["source"]`, cut down to whether it is there, over which route
its page came and whether it has a duration; 0 is the route of the sources that
have none. `made` and `sent` are the outputs that have a file and those whose
`upload` returned; `store` is what is behind the presigned URLs.

`clock` is `near` when less than `POLL_SECONDS` are left: the poll loop gives up
then, everything else goes on until `late`. `remote` is Oxylabs' job and the object
it delivers, which moves on its own (`RemoteStep`), also after the worker gave up;
`Deliver` contains the `discard` of the `finally` block, whose DELETE may fail
(`kept`).

`files` is what `glob("media.*")` can see. Which rendition a route is offered is
not the worker's choice, so a stream may have either of two names; a run that
fails leaves at most one complete stream, and a run that succeeds merges its own
streams and removes them. What a failed yt-dlp run says is the set of marker
tables it matches (`Tails`), and `Classify` takes the first of them in the order
of the code; what YouTube says of a video for adults is in two tables, so
`media.age` fixes both. The reasons for which captions are not found are one
outcome of `CaptionsSettled`. The page being live, unusual ids and the like are
nondeterministic; `media` is what stays true of a source over all its routes.

### PotServer

`pc[c]` is the step of a call: `ensure` at start (`Boot`, which does not wait),
`ensure` in each job, `stop`. `holder` has `_lock`, `proc` is `_proc`, and a
process is named by the call that started it. `server`, `port` and the server
`Other`, which the host may run on the same port, are the world outside: a process
may listen at any time or never, and exit at any time, which is also what it does
when its port is taken. Time is counted in sleeps of the holder; everything
between two sleeps is instantaneous next to them; SIGKILL ends a process, and
frees its port, at once. `setup` is what `POT_SERVER_DIR` points at. `up`, `lost`
and `waited` are history: whether the port has answered ever since the lock was
taken, whether a process has died since, and what each call has slept, for its own
sake or behind the lock. `stop` has no caller in the worker itself, only in its
tests; the model lets it come at any time, as its lock is there for.

### Captions

The words of a transcript are heard one by one, in any order (`Hear`:
`slice_words` with its stable sort), put into lines (`Group`, `AllGrouped`) and
timed (`TimeLine`). Times are whole units; what the caller sends may overlap, be
blank or end before it starts. Of a text its length and whether it ends a sentence
are kept: the length of a line is its `Letters`, counted, and its spaces. How long the
words of a transcript last is `Lengths`. `Events` is what `build_ass` writes, with and without a highlight
colour, less colours, escapes, fonts and layout, and `Shown` what a player makes
of it.

### DevApi

One step is one access to a shared object: the table under the lock, the pool
queue, one assignment of `_execute`, one field read by `public`. The status and
the other fields of an answer are therefore read at different times.
`before[i]` is the jobs whose caller had its answer when `i` was submitted.

`Tick` may not pass while a pool thread is between its assignments of `finished`
and of the final status for as long as the retention: the thread is not paused
for 30 minutes between two statements. Without it a running job could expire.

### Planner

Sides are exact integers and the scale a fraction; `Round` is Python's rounding,
ties to even. The code computes with floats. Over all sides up to 15 and bounds up
to 11 (163,350 frames and rules for video, as many for images) the exact result
and the code's own were compared and are equal. Of a file's properties the model
keeps whether they fit the rules. `Rendered` is the effect of the commands
`build_remux` and `build_encode` put together, for an ffmpeg that obeys them.

The schema admits caps of one pixel. Under one, `clamp_dimensions` steps an even side
of two back to nothing, so a target (`Targets`) may have a side of 0 where a file
(`Frames`) has none. ffmpeg's `scale` reads 0 as the side of the input (`Scaled`); the
post-check then asks for a frame no file has, and fails the job.

A GIF and an image of several frames (`animated`) is returned as it is before it is
oriented or clamped (README 5.7), so it is the one file that may break the rules.
The pixel cap, unknown formats and files that cannot be decoded are
`Pipeline.ImageRejected`.

## 3. Runs

| run | instance | states | shows |
|---|---|---|---|
| `PipelineJob` | 1 job of any kind, 2-chunk input, 3-chunk output, disk 4, GPU | 19 k | types, `FallbackExhausted`, `LateJobStoresNothing`, `EveryJobReturns`, `ImplementsContract` |
| `PipelineDisk` | 3 image jobs, 2 at a time, documented disk, up to 3 chunks leaked, symmetric | 3.0 M | `NoJobStarves` |
| `PipelineSource` | as `PipelineJob` | | violated: `ProbedSourceReported` |
| `ClipJob` | 2 clips, GPU, libass | 283 k | types, `SummaryTellsAll`, `NoRungLostUntried`, `LateClipStoresNothing`, `ClipJobReturns`, `ClipsKeepContract` |
| `ClipCrash` | as `ClipJob` | | violated: `FinishedClipsKept` |
| `Ingest` | every request the schema allows, 3 routes | 197 k | types, `BlockedOnEveryRoute`, `SourceBlockTrue`, `PaidDeliverySettled`, `LateIngestStoresNothing`, `IngestKeepsContract`, `IngestReturns` |
| `IngestAge` | as `Ingest` | | violated: `AgeMeansUnavailable` |
| `PotServer` | 2 jobs, the call at start and the stop, 2 sleeps to be ready, 1 to obey | 213 k | types, `NoServerForgotten`, `TokenCostBounded`, `NoForAReason`, `EveryCallReturns` |
| `Captions` | up to 3 words of 4 texts, a window of 5 units, lines of 2 words and 4 characters | 261 k | types, `EveryWordOnce`, `LinesWellBroken`, `HighlightFollowsSpeech`, `NeverOverSilence` |
| `DevApi` | 2 jobs (one sync), 2 workers, 1 poller, retention 1, clock to 2 | 530 k | types, `FinalAnswerComplete`, `NotFoundMeansOld`, `FirstComeFirstServed`, `AnswersNeverGoBack`, `EverySubmitAnswered` |
| `Planner` | 7 side lengths, 28 rule triples, all files, 3 passes | 3.9 M | types, `ResultComplies`, `SecondPassIsIdle`, `PostCheckFair`, `AspectKept` |
| `PlannerCap` | as `Planner` | | violated: `NeverAboveCap` |

`NoForAReason` counts three reasons for which a job may be told no: the start was
refused, the process died while the call had the lock, or the full wait is over. The
last is met by a wait behind other calls too, so the run says nothing of a job that
was told no early *because* it had waited long for the lock; `Poll` starts its clock
only with the lock in hand.

Why the bounds are enough. Jobs of `Pipeline` meet only at the disk and at the
slot count, so one job explores every path of the code, with a disk that is
sometimes too small for the check, sometimes full in the middle of a write
(`DiskSize` 4, `Leaks` up to 1, an output of up to 3 chunks), and a GPU ladder of
three rungs. The disk question has its own run with one job more than slots. On
its full disk, where no output is larger than the largest input, nobody may starve; with what three chunks leave of it two jobs pass
the check together and then fill it, in the download as well as in the save. Two
chunks are the least input that has a first, a later and a refused chunk. Two
clips are the least in which one clip's failure reaches another through the
ladder, the filter cache and the summary. Two jobs beside the
call at start and the stop are the least in which a job waits behind one that waits
itself; two sleeps have a first, a last and a timeout, and one of grace a process
that obeys and one that is killed. Three words are the least with a line that is
full after two words and a first, a middle and a last line; of the texts one is
blank, one fits, one ends a sentence and one is longer than a line; the words start
before, in and after the window, and pauses are shorter than, equal to and longer
than the gap. Two jobs, two workers and a tick more
than the retention are the least in which a job expires while another one is
submitted. Three routes are the direct one and `INGEST_PROXY_ATTEMPTS` by default,
and the least with a first, a middle and a last. The rule bounds of `Planner`
contain equal and unequal, even and odd caps on both sides of each other, caps of one
pixel, and frames from a pixel to far beyond them.

`CHECK_DEADLOCK FALSE` is used in `DevApi`, whose clock is bounded and whose
callers may all be done, and in `Planner`, which ends when a file is settled.

### Fairness

`Pipeline`: weak fairness of each job's own `Step`. The operating system
schedules threads, and every call they wait on has a timeout of its own: the
requests timeouts of download and upload, the ffprobe and ffmpeg timeouts.
`Crash` and `DeadlinePasses` are not in `Step`: nothing relies on an exception or
on the deadline to get a job out. `Accept` is not fair either: `EveryJobReturns`
is about jobs that have begun. `ClipJob`: the same for its one thread.
`Ingest`: the same for its thread, and weak fairness of the clock, because the poll
loop ends by the deadline alone: Oxylabs is not fair.
`PotServer`: weak fairness of each call's `Step`. The lock need not be fair: every
call takes it once, so those before it run out. A process need never listen and
never exit.
`DevApi`: weak fairness of the steps of each job's threads; no caller has to
submit or to poll, and time does not have to pass.

## 4. What the code does otherwise than its documents say

Each has a violation run, and `PROJECT.json` quotes the lines.

1. A failed video job has no `source` block although its probe succeeded
   (`pipeline.py:224`; README 4.2).
2. An exception that is not a `JobError` loses finished clips from the result
   (`clip.py:237`; docstring of `clip.py`).
3. A nearly square video under equal odd caps lands one pixel above the long cap
   (`planner.py:48`; README 4.1).
4. An age-restricted video is reported as `SOURCE_BLOCKED`, which is retryable, after
   every route was tried: YouTube's words for it begin with a marker of the table
   that `classify` searches first (`ytdlp.py:62`; README 4.3).

Seen while modelling, and without a run of their own:

* Failed PUTs are retried after the deadline (`upload.py:22`; README 4.1, 11).
  `Pipeline` has it: `PutUnanswered` does not look at `late`.
* An ingest job reports `TIMEOUT` long before its deadline when one metadata run
  takes its two minutes (`ytdlp.py:141`; README 4.3). `Ingest` has it:
  `MetadataTimesOut`.
* An ingest job reports `INPUT_TOO_LARGE` for a small source when a blocked route
  left a stream behind whose name the next route does not use (`ytdlp.py:194`;
  README 4.3). `Ingest` has it: `MediaFetched`.
* Words that overlap, or a word that ends after the next line starts, keep a line on
  the screen beyond the start of the next one (`captions.py:68`: the hold yields to
  the next line, the last word does not), against the name of the test
  `test_a_line_never_outlives_the_next_one_or_the_clip`
  (`tests/test_captions.py:35`). `HighlightFollowsSpeech` is therefore stated for
  words that are spoken one after the other; `NeverOverSilence` for all.
* A token server that hangs costs every job the 15 s of `READY_TIMEOUT`, which is
  more than the least timeout a job may ask for, and behind another job twice that.
* Under a cap of one pixel, which `job.schema.json:95-106` admits, every video job that
  gets as far as its post-check ends as `ENCODE_FAILED` (`planner.py:47-57`).
  `PostCheckFair` names the case.
* The aspect error is under a pixel by README 4.1; at a tie between two even sides it
  is exactly one. `AspectKept` is stated with one.
* `retryable` differs from the table of error codes for `DOWNLOAD_FAILED` and
  `PROBE_FAILED` (`download.py:50`, `probe.py:151`; README 4.3).

## 5. Proofs

`PipelineProofs` proves, for all values of the constants that satisfy
`RequestsAssumption` and `SizesAssumption` (the caller's requests are of the known
kinds, sizes are natural numbers, at least one slot) and for any number of jobs:

* `TypeCorrect == Spec => []TypeOK`. `TypeOK` is not inductive: that the rung is
  on the ladder follows from the plan, and that a stored or reported file is good
  from the step the job is at. The invariant is `TypeInv`, which adds `OnLadder`
  (the rung exists on the ladder of the plan while the job encodes) and
  `OutputChecked` (past the post-check the output is good whenever there is one
  to upload).
* `BucketTruth == Spec => []ResultAgreesWithBucket`. The invariant `BucketInv`
  says for each phase what can be in the bucket: nothing before the uploads, at
  most the good output while the output is put, the output and at most the
  thumbnail after it; and at `cleanup` that the result already agrees. The step
  that needs it most is the failure of the second upload, where an object is
  stored and the failure must be retryable.
* `LadderExhausted == Spec => []FallbackExhausted`. `FallInv` follows one ladder: the
  rungs below the current one cannot render the source unless a write met a full
  disk, and the other failures that carry the same code (the post-check, an image
  that cannot be saved) never leave an unfinished video. Its step is proved action
  by action from `TypeInv`; most actions fail with another code (`FailFalls`).
* `LateStoresNothing == Spec => LateJobStoresNothing`. By `BucketInv` the bucket is
  empty before the uploads; `Missed` (late, empty, not uploading) is then kept by
  every step, because `Gate` is the only way to an upload and looks at the clock.
* `PipelineKeepsContract == Spec => ImplementsContract`. From `BucketInv`: every
  step of `Pipeline` is one of `JobContract` under the refinement mapping, or a
  stutter (`RunsOn`, `Begins`, `Stores`, `Returns`).
* `NoneStarves == Spec => []NoJobStarves`: on a disk with room for the largest input
  and the largest output of every slot no job finds the disk full, for any number of
  jobs and slots. (README 5.9 and 11 document twice the size limit per slot, which is
  that room as long as no output is larger than the limit; nothing in the code keeps
  it so.) `DiskInv` is `SlotsKept` (the jobs between accept and return can be counted,
  and are at most `Concurrency`), `FilesInOrder` (a job has no input before its download
  and no output before its stage writes one; by `TypeOK` neither passes its limit) and
  the property. Numbering the jobs that run maps all chunks into `Concurrency` blocks of
  `MaxBytes + MaxOutput` (`ChunksCounted`), so a job that is about to write has room
  (`RoomLeft`), and a job that waits in `_ensure_disk` does so for itself alone.
* `StepsRunOut`: `StepsLeft(j)` is how many steps a call has ahead of it at most, by
  where it is (`Rank`), the chunks it may still write, the rungs and the tries it has
  left. It is at most `MaxBytes + 21`; every step of the call lowers it, a failure and
  an exception too, and no step of another job or of the clock raises it (`Nearer`,
  one step per action).

The invariants of this and the following modules were checked with TLC before they
were proved.

`ClipJobProofs` proves every safety property of `ClipJob` for any number of clips,
GPU or not, libass or not. The invariant `IInv` is `TypeOK` and, part by part:
`ClipInv` (which clips have an entry), `MadeInv` (the file of the current clip has
passed the post-check once it is uploaded), `StoreInv` (what of the current clip can
be in the bucket at each step, and that finished entries agree with it),
`ResultInv` (the summary is the sum of the entries), `LadderInv` (every rung that
works is still on the ladder or has failed by accident in this clip or an earlier one,
and the last rung always is on it) and `NoRungLostUntried` itself. The property speaks
of clips that have failed; without `LadderInv` nothing would say what the ladder may
have lost before the clip began.

* `SummaryTruth`, `NoRungPassedOver` and `LateStoresNothing` follow from it. The second
  does not say that an accident costs one clip only: `drop()` asks for no reason, so a
  rung that works is lost to the clips after its accident, and the theorem names that
  as the one way. The third covers the current clip as well, up to its first upload.
* `ClipsKeep == Spec => ClipsKeepContract`: each step maps to one of `JobContract`
  for one clip, or to a stutter.
* `StepsRunOut`: a job has at most `19 * N + 4` steps, whichever clips fail. The count
  of a clip falls with each rung (the ladder has at most three and a rung once dropped
  stays dropped), check and try; a clip that failed takes all of its own count with it.

`IngestProofs` proves every safety property of `Ingest` for any number of routes.
The invariant: `TypeOK`; `ViaInv` (which steps each kind of source can be at);
`RouteInv` (routes before the current one were blocked); `SourceInv` (whose page
the source block is from); `MadeInv` (which outputs have a file at each step, and
that at the uploads they fulfil the request); `PaidInv` (what Oxylabs' job and
object can be at each step); `StoreInv` (the bucket has what was sent, in order,
and at most the output being put); `ResultInv` (what each failure code
presupposes).

* `RoutesExhausted`, `SourceBlock`, `PaidSettled` and `LateStoresNothing`: the four
  safety properties of the run.
* `KeepsContract == Spec => IngestKeepsContract`: the put of an output is `Store`,
  because what is made fulfils the request and is sent in the order of `Rank`.
* `StepsRunOut`: every step counts down from `2 * Routes + 28`, with one exception the
  theorem names: a poll of Oxylabs that finds the job unfinished goes back to the wait,
  and only while the deadline is far. No route is tried twice, and no query, fetch or
  upload starts over.

`PotServerProofs` proves, for any finite set of jobs, any patience and any grace
(`CallsAssumption`, `TimesAssumption`), `TypeCorrect`, `NoneForgotten`,
`GivesUpForAReason` and `CostBounded`. `LockInv`: whoever is past `Acquire` holds the
lock. `ProcInv`: a living process is `_proc`, and nobody is about to start another
while there is one; `PortInv` and `WaitInv` tie the history to the loop: what is left
of the holder's patience and what it has slept add up to at least `Ready`. `CostInv`
charges the sleeps to those who cause them: what a call has waited and what is left of
the clock that runs are together at most `Ready` for each job that has started its
clock, and `Grace` for the stop. Every step keeps that, because a new clock is a new
job among the `Charged` (`ClockStarts`, `MoreClocks`). `StepsRunOut`: what a call of
`ensure()` or `stop()` has ahead of it is bounded by the two timeouts, its own steps
lower the count and nothing else changes it, whatever the server does. `LockComesFree`:
a call that waits for the lock finds it free, or held by a call inside one of the two
`with` blocks that has fewer steps left than it has itself, so the lock is never lost.

`PlannerProofs` proves every property of `Planner`, for sides and bounds of any size
(`SidesAssumption`, `BoundsAssumption`: sides and bounds are at least a pixel, as the
request schema has it).

* `EveryResultComplies`, `SecondPassIdle`, `PostCheckAccepts`, `AspectStays`, and
  `TypeCorrect`, which says that every file has two sides of a pixel or more, although a
  target may not (`ClampTyped`: only a video's, under a cap of one pixel).
* The scale is a fraction, and its bounds pull it in opposite directions. `ScaleFits`
  shows that before any rounding the one scale meets them all, the minimum unless the
  long side is at its cap. `RoundSideBounds` shows that rounding a side to the nearest
  integer, or to the nearest even one, crosses no bound it can reach: a scaled side at
  most a cap rounds to at most the cap, one at least a minimum to at least the minimum.
  For videos the bounds have to be even (`Attainable`); that an odd cap is passed by a
  pixel is what `PlannerCap` shows. `PostCheckAccepts` holds for odd ones too and
  excepts only a target with a side of nothing.
  Products are compared by `ProductMono` and `ProductLess`, so that no step needs more
  than linear arithmetic.
* A frame inside its bounds has scale one and is not rounded (`ClampIdle`), which is
  why a second pass is idle. The invariant `IInv` adds to the type where the file came
  from (`OriginInv`), that an animation is looked at once and stays (`AnimationInv`),
  and what is known after the first pass (`IdleInv`).

`CaptionsProofs` proves every property of `Captions`, for transcripts, windows, styles
and pauses of any size (`TimesAssumption`, `StyleAssumption`, `TranscriptAssumption`).
`IInv` is `TypeOK`, the order of the words (`ByStart`) and:

* `PhaseInv`, what each phase has done and not begun; `TimeInv`, the lines with times
  are the closed ones;
* `OrderInv`: the closed lines hold the first words of the clip and the open line the
  next. That a line keeps its place is counted, not folded: the place of a word is how
  many words are in the lines before it (`Place`), a line added moves it by its length
  (`PlaceStep`), and the words of a line added are the next ones (`LineAdded`);
* `GroupInv`: each line, closed or open, is good, and each was closed because the next
  word breaks it. Of two adjacent lines the second begins with that word, whatever is
  appended to it.

`NoWordLost` and `BreaksFair` follow from these. For the insertion into a sorted
sequence, and for the word that is spoken at a given time, the same lemma serves:
a set of places that contains all places before its own is an interval
(`DownwardClosed`). `NoCaptionOverSilence`: at any time between the start and the end of
a line some word of it is the last to have started (`WordAt`), so there is an event of
it, and its next word or the end of the line is less than a pause away.
`CaptionIsSpeech`: words that do not overlap are ordered over all lines as they are in
the clip (`Positions`, `SpokenInOrder`), a line before is over and a line after has not
begun (`OthersAreOver`), so exactly one event is shown (`OneShown`).

`DevApiProofs` proves every safety property of `DevApi`, for any sets of jobs and
callers, any number of workers, retention and bound of the clock
(`JobsAssumption`: `/runsync` jobs are jobs, and "none" is the id of none;
`NumbersAssumption`). One more assumption is in the model: the guard of `Tick`.

* `FinalAnswersComplete`. `DictInv` says what a job's dict holds at each step of
  its threads, so that a final status implies all fields of its answer
  (`TerminalMeansEnded`), which nothing writes any more (`TerminalStays`).
  `PollInv` says of an open call: once it has read a final status, it has missed
  none of the fields it read since. The order of the writes carries the first,
  that the status is read first the second.
* `OnlyOldJobsExpire`. `TableInv`: a submitted job is in the table or has expired,
  and callers know only submitted ones. With `DictInv` an expired job is not
  between `finished` and its final status.
* `QueueIsFair`. `QueueInv`: the queue has each waiting job once, and behind all
  waiting ones that were answered before it was submitted.
* `PollsGoForward`. `SeenInv` orders what a caller heard, what its open call has
  read and what the job has reached; a job that is gone is never read again.
* `SomebodyGoesOn`: while a job has not ended or its caller has no answer yet, some
  thread can take a step (`Able`): a queued job is in the queue, and the head of the
  queue waits only for workers that are busy with jobs that can go on. `Able(i)` is the
  guard of `JobStep(i)` written out; with `\A i \in Ids : Able(i) <=> ENABLED JobStep(i)`
  as an invariant, TLC finds no state of the `DevApi` model where they differ.

So every invariant, every action property and both refinements that a passing run
checks are proved. Liveness stays with TLC: `EveryJobReturns`, `ClipJobReturns`,
`IngestReturns`, `EveryCallReturns`, `EverySubmitAnswered`. To infer it from fairness
needs ENABLED, which the prover does not support, and so does the absence of deadlock.
Proved is the half of it that is about steps only: that the steps of a call run out
(`StepsRunOut`), that the lock is held only by a call that is nearer to its end, and
that the stand-in's threads do not wait for each other. The four violations of section 4
are TLC's counterexamples.

## 6. Not modelled

Of `oxylabs.py`: the parsing of transcripts, the choice among caption tracks, the
cutting to a window and the signing of requests. Of `captions.py`: the ASS text.
Schema validation, settings, logging, the development file server and the scripts
(data or pure I/O); the contents of files, command lines and messages; time other
than "before or after the deadline", the sleeps of `PotServer` and the ticks of
`DevApi`. A chunk of a download is one step, so a trickling origin that keeps one
chunk from filling is outside the model. The bytes of clip jobs: the scratch disk is
counted for normalization jobs only. The cached "no" of `has_filter` beyond one job.
Reading a job's fields is atomic per field, which the interpreter guarantees.

## 7. Plan

Done in this order: `JobResults`, `JobContract`, `Pipeline` with its proofs;
`ClipJob`; `DevApi` with its proofs; `Planner`; `Ingest`; `IngestContract` with
`IngestProofs`; `PotServer` with its proofs; `Captions`; `ClipJobProofs`;
`PlannerProofs`; `CaptionsProofs`, with the disk of `Pipeline` and the waits of
`PotServer`. What would come next:

1. The scratch disk of clip jobs: bytes of failed clips in `ClipJob`.
2. The order in which `oxylabs.transcript` asks for caption tracks.
3. Proofs: that some step of a call stays possible until it returned, action by
   action, as guards without ENABLED. So far that is proved of `DevApi`, and of the
   lock of `PotServer`.
