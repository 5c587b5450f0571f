---------------------------- MODULE IngestProofs ----------------------------
(***************************************************************************)
(* Proofs about Ingest, for any number of routes.                          *)
(***************************************************************************)
EXTENDS Ingest, FiniteSetTheorems, TLAPS

LEMMA JobErrorType ==
    ASSUME NEW code \in ErrorCodes, NEW retryable \in BOOLEAN
    PROVE  /\ JobError(code, retryable) \in JobErrors
           /\ JobError(code, retryable).code = code
           /\ JobError(code, retryable).retryable = retryable
BY DEF JobError, JobErrors

\* None of the errors of ffprobe, of a download and of a request says that a
\* platform has blocked the worker, or that a source is too long.
Plain == {err \in JobErrors : err.code \notin {"SOURCE_BLOCKED", "DURATION_TOO_LONG"}}

LEMMA PlainErrors ==
    /\ ProbeErrors \subseteq Plain
    /\ DownloadErrors \subseteq Plain
    /\ RequestErrors \subseteq Plain
    /\ Unavailable \in Plain
    /\ \A code \in ErrorCodes \ {"SOURCE_BLOCKED", "DURATION_TOO_LONG"}, retryable \in BOOLEAN :
          JobError(code, retryable) \in Plain
<1>1. \A code \in ErrorCodes \ {"SOURCE_BLOCKED", "DURATION_TOO_LONG"}, retryable \in BOOLEAN :
         JobError(code, retryable) \in Plain
  BY JobErrorType DEF Plain
<1>2. QED
  BY <1>1 DEF ProbeErrors, DownloadErrors, RequestErrors, Unavailable, ErrorCodes

LEMMA ClassifyType ==
    ASSUME NEW said \in SUBSET Markers
    PROVE  /\ Classify(said) \in JobErrors
           /\ Classify(said).code # "DURATION_TOO_LONG"
BY JobErrorType DEF Classify, ErrorCodes

LEMMA SourceType ==
    ASSUME NEW known \in BOOLEAN, NEW over \in 0..Routes, NEW length \in BOOLEAN
    PROVE  Source(known, over, length) \in Sources
BY DEF Source, Sources

LEMMA SourceLength ==
    ASSUME NEW known, NEW over, NEW length
    PROVE  Source(known, over, length).length = length
BY DEF Source

LEMMA TypeInitially == Init => TypeOK
<1> SUFFICES ASSUME Init PROVE TypeOK
  OBVIOUS
<1>1. NoSource \in Sources
  BY RoutesAssumption DEF NoSource, Source, Sources
<1>2. pc \in TryBlock
  BY DEF Init, Requests, TryBlock
<1>3. result \in IngestResults
  BY <1>1 DEF Init, NoIngestResult, IngestResults
<1>4. route \in 1..Routes
  <2>1. route = 1 /\ Routes \in Nat /\ Routes # 0
    BY RoutesAssumption DEF Init
  <2>2. QED
    BY <2>1
<1>5. tries \in 0..2 /\ clock \in {"early", "near", "late"}
  BY DEF Init
<1>8. key \in BOOLEAN /\ kept \in BOOLEAN
  BY DEF Init
<1>6. /\ request \in Requests /\ media \in Media
      /\ made \subseteq Outputs /\ sent \subseteq made /\ store \subseteq Outputs
      /\ files \subseteq Streams \cup {"media.mp4"} /\ blocked \subseteq 1..Routes
      /\ remote \in {"none", "running", "done", "readable", "faulted", "deleted"}
      /\ source \in Sources
  BY <1>1 DEF Init
<1>7. QED
  BY <1>2, <1>3, <1>4, <1>5, <1>6, <1>8 DEF TypeOK

\* What a step does that ends the job with an error: what it may say, and when.
Fails(err) ==
    /\ err \in JobErrors
    /\ pc \in TryBlock \cup {"deliver"}
    /\ pc' = "cleanup"
    /\ result' = [status |-> "failed", code |-> err.code, retryable |-> err.retryable,
                  source |-> source', outputs |-> {}]
    /\ err.code = "SOURCE_BLOCKED" => pc \in {"metadata", "media"} /\ route = Routes
                                       /\ blocked' = blocked \cup {route}
    /\ err.code = "DURATION_TOO_LONG" => source'.length \/ request.window
    /\ ~ err.retryable => pc # "put"

LEMMA RaiseFails ==
    ASSUME NEW err \in Plain, Raise(err), UNCHANGED source,
           pc \in TryBlock \cup {"deliver"}, err.retryable \/ pc # "put"
    PROVE  Fails(err)
BY DEF Raise, IngestResult, Fails, Plain

LEMMA RaiseWithFails ==
    ASSUME NEW err \in JobErrors, NEW block \in Sources, RaiseWith(err, block),
           err.code # "SOURCE_BLOCKED", pc \in TryBlock \ {"put"},
           err.code = "DURATION_TOO_LONG" => block.length \/ request.window
    PROVE  Fails(err)
BY DEF RaiseWith, IngestResult, Fails

LEMMA RouteFailsEnds ==
    ASSUME NEW said \in Tails, RouteFails(Classify(said)), UNCHANGED source,
           pc \in {"metadata", "media"}
    PROVE  (\E err \in JobErrors : Fails(err)) \/ (pc' = "metadata" /\ result' = result)
<1> DEFINE err == Classify(said)
<1>1. err \in JobErrors /\ err.code # "DURATION_TOO_LONG"
  BY ClassifyType DEF Tails
<1>2. CASE err.code # "SOURCE_BLOCKED" \/ LastRoute
  <2>1. Raise(err)
    BY <1>2 DEF RouteFails
  <2>2. err.code = "SOURCE_BLOCKED" => route = Routes /\ blocked' = blocked \cup {route}
    BY <1>2 DEF RouteFails, LastRoute
  <2>3. Fails(err)
    BY <1>1, <2>1, <2>2 DEF Raise, IngestResult, Fails, TryBlock
  <2>4. QED
    BY <1>1, <2>3
<1>3. CASE ~ (err.code # "SOURCE_BLOCKED" \/ LastRoute)
  BY <1>3 DEF RouteFails, Onward
<1>4. QED
  BY <1>2, <1>3

\* A step leaves the result alone, reports a completed job, or fails.
LEMMA OutcomeStep ==
    ASSUME TypeOK, Next
    PROVE  \/ result' = result /\ (pc' = pc \/ pc' # "cleanup") /\ (pc = "cleanup" => pc' \in {"cleanup", "returned"})
           \/ Report
           \/ \E err \in JobErrors : Fails(err)
<1> DEFINE Goal == \/ result' = result /\ (pc' = pc \/ pc' # "cleanup") /\ (pc = "cleanup" => pc' \in {"cleanup", "returned"})
                   \/ Report
                   \/ \E err \in JobErrors : Fails(err)
<1> SUFFICES Goal
  OBVIOUS
<1>0. Plain \subseteq JobErrors
  BY DEF Plain
<1>1. CASE FetchDirect
  BY <1>0, <1>1, RaiseFails, PlainErrors DEF FetchDirect, Onward, TryBlock, ErrorCodes, TypeOK, locals, world
<1>2. CASE CheckHost
  BY <1>0, <1>2, RaiseFails, PlainErrors DEF CheckHost, Onward, TryBlock, ErrorCodes, TypeOK, locals, world
<1>3. CASE MetadataTimesOut
  BY <1>0, <1>3, RaiseFails, PlainErrors DEF MetadataTimesOut, Onward, TryBlock, ErrorCodes, TypeOK, locals, world
<1>4. CASE MediaTimesOut
  BY <1>0, <1>4, RaiseFails, PlainErrors DEF MediaTimesOut, Onward, TryBlock, ErrorCodes, TypeOK, locals, world
<1>5. CASE MediaFetched
  BY <1>0, <1>5, RaiseFails, PlainErrors DEF MediaFetched, Onward, TryBlock, ErrorCodes, TypeOK, locals, world
<1>6. CASE Prepare
  BY <1>0, <1>6, RaiseFails, PlainErrors DEF Prepare, Onward, TryBlock, ErrorCodes, TypeOK, locals, world
<1>7. CASE FactsRefused
  BY <1>0, <1>7, RaiseFails, PlainErrors DEF FactsRefused, Onward, TryBlock, ErrorCodes, TypeOK, locals, world
<1>8. CASE FactsUnusable
  BY <1>0, <1>8, RaiseFails, PlainErrors DEF FactsUnusable, Onward, TryBlock, ErrorCodes, TypeOK, locals, world
<1>9. CASE CaptionsRefused
  BY <1>0, <1>9, RaiseFails, PlainErrors DEF CaptionsRefused, Onward, TryBlock, ErrorCodes, TypeOK, locals, world
<1>10. CASE SubmitFails
  BY <1>0, <1>10, RaiseFails, PlainErrors DEF SubmitFails, Onward, TryBlock, ErrorCodes, TypeOK, locals, world
<1>11. CASE WaitTimesOut
  BY <1>0, <1>11, RaiseFails, PlainErrors DEF WaitTimesOut, Onward, TryBlock, ErrorCodes, TypeOK, locals, world
<1>12. CASE PollRefused
  BY <1>0, <1>12, RaiseFails, PlainErrors DEF PollRefused, Onward, TryBlock, ErrorCodes, TypeOK, locals, world
<1>13. CASE LocateFails
  BY <1>0, <1>13, RaiseFails, PlainErrors DEF LocateFails, Onward, TryBlock, ErrorCodes, TypeOK, locals, world
<1>14. CASE Deliver
  BY <1>0, <1>14, RaiseFails, PlainErrors DEF Deliver, Onward, TryBlock, ErrorCodes, TypeOK, locals, world
<1>15. CASE ProbeFails
  BY <1>0, <1>15, RaiseFails, PlainErrors DEF ProbeFails, Onward, TryBlock, ErrorCodes, TypeOK, locals, world
<1>16. CASE VideoFails
  BY <1>0, <1>16, RaiseFails, PlainErrors DEF VideoFails, Onward, TryBlock, ErrorCodes, TypeOK, locals, world
<1>17. CASE AudioFails
  BY <1>0, <1>17, RaiseFails, PlainErrors DEF AudioFails, Onward, TryBlock, ErrorCodes, TypeOK, locals, world
<1>18. CASE FfmpegTimesOut
  BY <1>0, <1>18, RaiseFails, PlainErrors DEF FfmpegTimesOut, Onward, TryBlock, ErrorCodes, TypeOK, locals, world
<1>19. CASE Gate
  BY <1>0, <1>19, RaiseFails, PlainErrors, JobErrorType DEF Gate, GateOpen, Onward, TryBlock, ErrorCodes, TypeOK, locals, world
<1>20. CASE PutUnanswered
  BY <1>0, <1>20, RaiseFails, PlainErrors, JobErrorType DEF PutUnanswered, GateOpen, Onward, TryBlock, ErrorCodes, TypeOK, locals, world
<1>21. CASE PutRefused
  BY <1>0, <1>21, RaiseFails, PlainErrors, JobErrorType DEF PutRefused, GateOpen, Onward, TryBlock, ErrorCodes, TypeOK, locals, world
<1>22. CASE Crash
  BY <1>0, <1>22, RaiseFails, PlainErrors, JobErrorType DEF Crash, GateOpen, Onward, TryBlock, ErrorCodes, TypeOK, locals, world
<1>23. CASE MetadataFails
  BY <1>23, RouteFailsEnds DEF MetadataFails
<1>24. CASE MediaFails
  BY <1>24, RouteFailsEnds DEF MediaFails
<1>25. CASE MetadataRead
  <2>1. PICK length \in BOOLEAN :
          LET page == Page(length) IN
          \/ RaiseWith(JobError("UNSUPPORTED_INPUT", FALSE), page)
          \/ length /\ media.long /\ RaiseWith(JobError("DURATION_TOO_LONG", FALSE), page)
          \/ media.huge /\ RaiseWith(JobError("INPUT_TOO_LARGE", FALSE), page)
          \/ Onward("media")
    BY <1>25 DEF MetadataRead
  <2>2. Page(length) \in Sources /\ Page(length).length = length
    <3>1. route \in 0..Routes
      BY RoutesAssumption DEF TypeOK
    <3>2. QED
      BY <3>1, SourceType, SourceLength DEF Page
  <2>3. QED
    <3>1. /\ JobError("UNSUPPORTED_INPUT", FALSE) \in Plain
          /\ JobError("INPUT_TOO_LARGE", FALSE) \in Plain
          /\ JobError("DURATION_TOO_LONG", FALSE) \in JobErrors
          /\ JobError("DURATION_TOO_LONG", FALSE).code = "DURATION_TOO_LONG"
      BY PlainErrors, JobErrorType DEF ErrorCodes
    <3>2. pc \in TryBlock \ {"put"} /\ pc # "cleanup"
      BY <1>25 DEF MetadataRead, TryBlock
    <3>3. CASE Onward("media")
      BY <3>2, <3>3 DEF Onward
    <3>4. QED
      BY <1>0, <2>1, <2>2, <3>1, <3>2, <3>3, RaiseWithFails DEF Plain
<1>26. CASE FactsRead
  <2>1. PICK length \in BOOLEAN :
          LET block == Source(TRUE, 0, length) IN
          \/ RaiseWith(JobError("UNSUPPORTED_INPUT", FALSE), block)
          \/ media.long /\ (request.window \/ length)
                /\ RaiseWith(JobError("DURATION_TOO_LONG", FALSE), block)
          \/ Onward(IF request.transcript THEN "captions" ELSE FirstFetch(made))
    BY <1>26 DEF FactsRead
  <2>2. Source(TRUE, 0, length) \in Sources /\ Source(TRUE, 0, length).length = length
    <3>1. 0 \in 0..Routes
      BY RoutesAssumption
    <3>2. QED
      BY <3>1, SourceType, SourceLength
  <2>3. (IF request.transcript THEN "captions" ELSE FirstFetch(made)) # "cleanup"
    BY DEF FirstFetch, TypeOK, Requests
  <2>4. QED
    <3>1. /\ JobError("UNSUPPORTED_INPUT", FALSE) \in Plain
          /\ JobError("DURATION_TOO_LONG", FALSE) \in JobErrors
          /\ JobError("DURATION_TOO_LONG", FALSE).code = "DURATION_TOO_LONG"
      BY PlainErrors, JobErrorType DEF ErrorCodes
    <3>2. pc \in TryBlock \ {"put"} /\ pc # "cleanup"
      BY <1>26 DEF FactsRead, TryBlock
    <3>3. CASE Onward(IF request.transcript THEN "captions" ELSE FirstFetch(made))
      BY <2>3, <3>2, <3>3 DEF Onward
    <3>4. QED
      BY <1>0, <2>1, <2>2, <3>1, <3>2, <3>3, RaiseWithFails DEF Plain
<1>27. CASE Probe
  <2>1. PICK length \in BOOLEAN :
          LET block == [source EXCEPT !.length = @ \/ length] IN
          \/ length /\ RaiseWith(JobError("DURATION_TOO_LONG", FALSE), block)
          \/ RaiseWith(JobError("UNSUPPORTED_INPUT", FALSE), block)
          \/ Onward(IF request.video THEN "video" ELSE IF WantAudio(made) THEN "audio" ELSE "gate")
    BY <1>27 DEF Probe
  <2>2. /\ [source EXCEPT !.length = @ \/ length] \in Sources
        /\ length => [source EXCEPT !.length = @ \/ length].length
    BY DEF TypeOK, Sources
  <2>3. QED
    BY <1>27, <2>1, <2>2, RaiseWithFails, JobErrorType DEF Probe, Onward, TryBlock, ErrorCodes
<1>28. CASE CaptionsSettled
  BY <1>28 DEF CaptionsSettled, Onward, FirstFetch, TypeOK, Requests
<1>29. CASE Submit \/ StartPoll \/ PollAnswered \/ Locate \/ VideoReady \/ AudioReady
            \/ PutAccepted \/ Cleanup
  BY <1>29 DEF Submit, StartPoll, PollAnswered, Locate, VideoReady, AudioReady, PutAccepted,
     Cleanup, Onward
<1>30. CASE ClockAdvances \/ RemoteStep \/ Done
  BY <1>30 DEF ClockAdvances, RemoteStep, Done, vars
<1>31. QED
  BY <1>1, <1>2, <1>3, <1>4, <1>5, <1>6, <1>7, <1>8, <1>9, <1>10, <1>11, <1>12, <1>13, <1>14, <1>15, <1>16, <1>17, <1>18, <1>19, <1>20, <1>21, <1>22, <1>23, <1>24, <1>25, <1>26, <1>27, <1>28, <1>29, <1>30 DEF Next, Step

LEMMA TypeStep == TypeOK /\ [Next]_vars => TypeOK'
<1> SUFFICES ASSUME TypeOK, [Next]_vars PROVE TypeOK'
  OBVIOUS
<1> USE DEF facts, locals, world, vars, Next, Step, Done
<1>1. (pc \in TryBlock \cup {"deliver", "cleanup", "returned"})'
  BY ZenonT(60) DEF TypeOK, Onward, Raise, RaiseWith, RouteFails, FirstFetch, TryBlock, Requests,
     FetchDirect, CheckHost, MetadataFails, MetadataTimesOut, MetadataRead,
     MediaFails, MediaTimesOut, MediaFetched, Prepare, FactsRefused, FactsUnusable,
     FactsRead, CaptionsRefused, CaptionsSettled, SubmitFails, Submit, WaitTimesOut,
     StartPoll, PollRefused, PollAnswered, Locate, LocateFails, Deliver, Probe,
     ProbeFails, VideoReady, VideoFails, AudioReady, AudioFails, FfmpegTimesOut, Gate,
     PutAccepted, PutUnanswered, PutRefused, Report, Cleanup, Crash, ClockAdvances,
     RemoteStep
<1>2. (clock \in {"early", "near", "late"})'
  BY DEF TypeOK,
     FetchDirect, CheckHost, MetadataFails, MetadataTimesOut, MetadataRead,
     MediaFails, MediaTimesOut, MediaFetched, Prepare, FactsRefused, FactsUnusable,
     FactsRead, CaptionsRefused, CaptionsSettled, SubmitFails, Submit, WaitTimesOut,
     StartPoll, PollRefused, PollAnswered, Locate, LocateFails, Deliver, Probe,
     ProbeFails, VideoReady, VideoFails, AudioReady, AudioFails, FfmpegTimesOut, Gate,
     PutAccepted, PutUnanswered, PutRefused, Report, Cleanup, Crash, ClockAdvances,
     RemoteStep
<1>3. (request \in Requests /\ media \in Media)'
  BY DEF TypeOK,
     FetchDirect, CheckHost, MetadataFails, MetadataTimesOut, MetadataRead,
     MediaFails, MediaTimesOut, MediaFetched, Prepare, FactsRefused, FactsUnusable,
     FactsRead, CaptionsRefused, CaptionsSettled, SubmitFails, Submit, WaitTimesOut,
     StartPoll, PollRefused, PollAnswered, Locate, LocateFails, Deliver, Probe,
     ProbeFails, VideoReady, VideoFails, AudioReady, AudioFails, FfmpegTimesOut, Gate,
     PutAccepted, PutUnanswered, PutRefused, Report, Cleanup, Crash, ClockAdvances,
     RemoteStep
<1>0. 0 \in 0..Routes /\ route \in 0..Routes
  BY RoutesAssumption DEF TypeOK
<1>4. (source \in Sources)'
  <2>1. CASE MetadataRead
    <3>1. \A length \in BOOLEAN : Page(length) \in Sources
      BY <1>0, SourceType DEF Page
    <3>2. QED
      BY <2>1, <3>1 DEF MetadataRead, RaiseWith
  <2>2. CASE FactsRead
    <3>1. \A length \in BOOLEAN : Source(TRUE, 0, length) \in Sources
      BY <1>0, SourceType
    <3>2. QED
      BY <2>2, <3>1 DEF FactsRead, RaiseWith
  <2>3. CASE FetchDirect
    <3>1. Source(TRUE, 0, FALSE) \in Sources
      BY <1>0, SourceType
    <3>2. QED
      BY <2>3, <3>1 DEF FetchDirect, TypeOK
  <2>4. CASE Probe
    <3>1. \A length \in BOOLEAN : [source EXCEPT !.length = @ \/ length] \in Sources
      BY DEF TypeOK, Sources
    <3>2. QED
      BY <2>4, <3>1 DEF Probe, RaiseWith
  <2>5. QED
    BY <2>1, <2>2, <2>3, <2>4 DEF TypeOK,
     CheckHost, MetadataFails, MetadataTimesOut, MediaFails, MediaTimesOut,
     MediaFetched, Prepare, FactsRefused, FactsUnusable, CaptionsRefused,
     CaptionsSettled, SubmitFails, Submit, WaitTimesOut, StartPoll, PollRefused,
     PollAnswered, Locate, LocateFails, Deliver, ProbeFails, VideoReady, VideoFails,
     AudioReady, AudioFails, FfmpegTimesOut, Gate, PutAccepted, PutUnanswered,
     PutRefused, Report, Cleanup, Crash, ClockAdvances, RemoteStep
<1>5. (route \in 1..Routes)'
  <2>1. ASSUME NEW err, RouteFails(err) PROVE route' \in 1..Routes
    BY <2>1, RoutesAssumption DEF RouteFails, LastRoute, TypeOK
  <2>2. QED
    BY <2>1 DEF TypeOK,
     FetchDirect, CheckHost, MetadataFails, MetadataTimesOut, MetadataRead,
     MediaFails, MediaTimesOut, MediaFetched, Prepare, FactsRefused, FactsUnusable,
     FactsRead, CaptionsRefused, CaptionsSettled, SubmitFails, Submit, WaitTimesOut,
     StartPoll, PollRefused, PollAnswered, Locate, LocateFails, Deliver, Probe,
     ProbeFails, VideoReady, VideoFails, AudioReady, AudioFails, FfmpegTimesOut, Gate,
     PutAccepted, PutUnanswered, PutRefused, Report, Cleanup, Crash, ClockAdvances,
     RemoteStep
<1>6. (tries \in 0..2)'
  <2>0. tries \in 0..2
    BY DEF TypeOK
  <2>1. CASE tries' = tries + 1 /\ tries + 1 < 3
    BY <2>0, <2>1
  <2>2. CASE tries' = tries + 1 /\ tries # 2
    BY <2>0, <2>2
  <2>3. CASE tries' = 0
    BY <2>3
  <2>4. CASE tries' = tries
    BY <2>0, <2>4
  <2>5. FactsUnusable => <2>1!1 \/ <2>4!1
    BY DEF FactsUnusable, MetadataAttempts
  <2>6. PutUnanswered => <2>2!1 \/ <2>4!1
    <3>1. Attempts - 1 = 2
      BY DEF Attempts
    <3>2. QED
      BY <3>1 DEF PutUnanswered
  <2>7. FactsRead \/ PutAccepted => <2>3!1
    BY DEF FactsRead, PutAccepted
  <2>8. QED
    BY <2>1, <2>2, <2>3, <2>4, <2>5, <2>6, <2>7 DEF
     FetchDirect, CheckHost, MetadataFails, MetadataTimesOut, MetadataRead,
     MediaFails, MediaTimesOut, MediaFetched, Prepare, FactsRefused, CaptionsRefused,
     CaptionsSettled, SubmitFails, Submit, WaitTimesOut, StartPoll, PollRefused,
     PollAnswered, Locate, LocateFails, Deliver, Probe, ProbeFails, VideoReady,
     VideoFails, AudioReady, AudioFails, FfmpegTimesOut, Gate, PutRefused, Report,
     Cleanup, Crash, ClockAdvances, RemoteStep
<1>7. (key \in BOOLEAN)'
  BY DEF TypeOK,
     FetchDirect, CheckHost, MetadataFails, MetadataTimesOut, MetadataRead,
     MediaFails, MediaTimesOut, MediaFetched, Prepare, FactsRefused, FactsUnusable,
     FactsRead, CaptionsRefused, CaptionsSettled, SubmitFails, Submit, WaitTimesOut,
     StartPoll, PollRefused, PollAnswered, Locate, LocateFails, Deliver, Probe,
     ProbeFails, VideoReady, VideoFails, AudioReady, AudioFails, FfmpegTimesOut, Gate,
     PutAccepted, PutUnanswered, PutRefused, Report, Cleanup, Crash, ClockAdvances,
     RemoteStep
<1>8. (kept \in BOOLEAN)'
  BY DEF AfterFetch, Discard, TypeOK,
     FetchDirect, CheckHost, MetadataFails, MetadataTimesOut, MetadataRead,
     MediaFails, MediaTimesOut, MediaFetched, Prepare, FactsRefused, FactsUnusable,
     FactsRead, CaptionsRefused, CaptionsSettled, SubmitFails, Submit, WaitTimesOut,
     StartPoll, PollRefused, PollAnswered, Locate, LocateFails, Deliver, Probe,
     ProbeFails, VideoReady, VideoFails, AudioReady, AudioFails, FfmpegTimesOut, Gate,
     PutAccepted, PutUnanswered, PutRefused, Report, Cleanup, Crash, ClockAdvances,
     RemoteStep
<1>9. (made \subseteq Outputs)'
  BY DEF Outputs, TypeOK,
     FetchDirect, CheckHost, MetadataFails, MetadataTimesOut, MetadataRead,
     MediaFails, MediaTimesOut, MediaFetched, Prepare, FactsRefused, FactsUnusable,
     FactsRead, CaptionsRefused, CaptionsSettled, SubmitFails, Submit, WaitTimesOut,
     StartPoll, PollRefused, PollAnswered, Locate, LocateFails, Deliver, Probe,
     ProbeFails, VideoReady, VideoFails, AudioReady, AudioFails, FfmpegTimesOut, Gate,
     PutAccepted, PutUnanswered, PutRefused, Report, Cleanup, Crash, ClockAdvances,
     RemoteStep
<1>10. (sent \subseteq made)'
  BY ZenonT(60) DEF First, ToSend, TypeOK,
     FetchDirect, CheckHost, MetadataFails, MetadataTimesOut, MetadataRead,
     MediaFails, MediaTimesOut, MediaFetched, Prepare, FactsRefused, FactsUnusable,
     FactsRead, CaptionsRefused, CaptionsSettled, SubmitFails, Submit, WaitTimesOut,
     StartPoll, PollRefused, PollAnswered, Locate, LocateFails, Deliver, Probe,
     ProbeFails, VideoReady, VideoFails, AudioReady, AudioFails, FfmpegTimesOut, Gate,
     PutAccepted, PutUnanswered, PutRefused, Report, Cleanup, Crash, ClockAdvances,
     RemoteStep
<1>11. (result \in IngestResults)'
  <2>1. CASE result' = result
    BY <2>1 DEF TypeOK
  <2>2. CASE Report
    BY <2>2 DEF Report, IngestResult, IngestResults, TypeOK
  <2>3. ASSUME NEW err \in JobErrors, Fails(err) PROVE result' \in IngestResults
    BY <1>4, <2>3 DEF Fails, IngestResults, JobErrors
  <2>4. QED
    BY <2>1, <2>2, <2>3, OutcomeStep
<1>12. (files \subseteq Streams \cup {"media.mp4"})'
  BY DEF TypeOK,
     FetchDirect, CheckHost, MetadataFails, MetadataTimesOut, MetadataRead,
     MediaFails, MediaTimesOut, MediaFetched, Prepare, FactsRefused, FactsUnusable,
     FactsRead, CaptionsRefused, CaptionsSettled, SubmitFails, Submit, WaitTimesOut,
     StartPoll, PollRefused, PollAnswered, Locate, LocateFails, Deliver, Probe,
     ProbeFails, VideoReady, VideoFails, AudioReady, AudioFails, FfmpegTimesOut, Gate,
     PutAccepted, PutUnanswered, PutRefused, Report, Cleanup, Crash, ClockAdvances,
     RemoteStep
<1>13. (blocked \subseteq 1..Routes)'
  BY DEF RouteFails, TypeOK,
     FetchDirect, CheckHost, MetadataFails, MetadataTimesOut, MetadataRead,
     MediaFails, MediaTimesOut, MediaFetched, Prepare, FactsRefused, FactsUnusable,
     FactsRead, CaptionsRefused, CaptionsSettled, SubmitFails, Submit, WaitTimesOut,
     StartPoll, PollRefused, PollAnswered, Locate, LocateFails, Deliver, Probe,
     ProbeFails, VideoReady, VideoFails, AudioReady, AudioFails, FfmpegTimesOut, Gate,
     PutAccepted, PutUnanswered, PutRefused, Report, Cleanup, Crash, ClockAdvances,
     RemoteStep
<1>14. (remote \in {"none", "running", "done", "readable", "faulted", "deleted"})'
  BY DEF AfterFetch, Discard, TypeOK,
     FetchDirect, CheckHost, MetadataFails, MetadataTimesOut, MetadataRead,
     MediaFails, MediaTimesOut, MediaFetched, Prepare, FactsRefused, FactsUnusable,
     FactsRead, CaptionsRefused, CaptionsSettled, SubmitFails, Submit, WaitTimesOut,
     StartPoll, PollRefused, PollAnswered, Locate, LocateFails, Deliver, Probe,
     ProbeFails, VideoReady, VideoFails, AudioReady, AudioFails, FfmpegTimesOut, Gate,
     PutAccepted, PutUnanswered, PutRefused, Report, Cleanup, Crash, ClockAdvances,
     RemoteStep
<1>15. (store \subseteq Outputs)'
  <2>1. store \subseteq Outputs /\ First(ToSend) \subseteq Outputs
    BY DEF First, ToSend, TypeOK
  <2>2. CASE PutAccepted \/ PutUnanswered
    BY <2>1, <2>2 DEF PutAccepted, PutUnanswered
  <2>3. QED
    BY <2>1, <2>2 DEF
     FetchDirect, CheckHost, MetadataFails, MetadataTimesOut, MetadataRead,
     MediaFails, MediaTimesOut, MediaFetched, Prepare, FactsRefused, FactsUnusable,
     FactsRead, CaptionsRefused, CaptionsSettled, SubmitFails, Submit, WaitTimesOut,
     StartPoll, PollRefused, PollAnswered, Locate, LocateFails, Deliver, Probe,
     ProbeFails, VideoReady, VideoFails, AudioReady, AudioFails, FfmpegTimesOut, Gate,
     PutRefused, Report, Cleanup, Crash, ClockAdvances, RemoteStep
<1>16. QED
  BY <1>1, <1>2, <1>3, <1>4, <1>5, <1>6, <1>7, <1>8, <1>9, <1>10, <1>11, <1>12, <1>13, <1>14,
     <1>15 DEF TypeOK

\* Every variable keeps its type.
THEOREM TypeCorrect == Spec => []TypeOK
BY TypeInitially, TypeStep, PTL DEF Spec

(***************************************************************************)
(* What is known at each step of the thread.                               *)
(***************************************************************************)
OxylabsSteps == {"prepare", "facts", "captions", "submit", "wait", "poll", "locate", "deliver"}

YtdlpSteps == {"ytdlp", "metadata", "media"}

\* The steps before captions can have been written.
BeforeCaptions == YtdlpSteps \cup {"direct", "prepare", "facts", "captions"}

Ended == pc \in {"cleanup", "returned"}

\* Each route's steps are taken by the jobs that ask for it.
ViaInv ==
    /\ pc \in OxylabsSteps => request.via = "oxylabs"
    /\ pc \in YtdlpSteps => request.via = "ytdlp"
    /\ pc = "direct" => request.via = "direct"
    /\ pc = "captions" => request.transcript

\* The result is written once, at the end.
ResultInv ==
    /\ ~ Ended => result = NoIngestResult
    /\ Ended => result.status \in {"completed", "failed"}
    /\ result.status # "failed" => result.code = "none"

RouteInv ==
    /\ 1..(route - 1) \subseteq blocked
    /\ result.code = "SOURCE_BLOCKED" => blocked = 1..Routes

\* From the page on, the source block is that of the current route.
SourceInv ==
    /\ request.via = "ytdlp" /\ pc \in {"media", "probe", "video", "audio", "gate", "put"} =>
          source.known /\ source.route = route
    /\ request.via = "ytdlp" /\ result.status = "completed" =>
          result.source.known /\ result.source.route = route
    /\ result.code = "DURATION_TOO_LONG" => result.source.length \/ request.window

\* Which outputs have a file at each step.
MadeInv ==
    /\ "transcript" \in made => request.transcript
    /\ pc \in BeforeCaptions => made = {}
    /\ pc \in {"submit", "wait", "poll", "locate", "deliver", "probe"} =>
          made \subseteq {"transcript"} /\ (request.video \/ WantAudio(made))
    /\ pc = "video" => made \subseteq {"transcript"} /\ request.video
    /\ pc = "audio" =>
          "audio" \notin made /\ WantAudio(made) /\ ("video" \in made <=> request.video)
    /\ pc \in {"gate", "put"} => Contract!Fulfils(made, request)

\* A remote job is started only where its object will be needed, and an object
\* that was found is about to be fetched, deleted, or kept by a failed DELETE.
PaidInv ==
    /\ pc \in BeforeCaptions \cup {"submit"} => remote = "none"
    /\ pc \in {"gate", "put"} /\ remote # "none" => made \cap {"video", "audio"} # {}
    /\ result.status = "completed" /\ remote # "none" =>
          result.outputs \cap {"video", "audio"} # {}
    /\ pc \in BeforeCaptions \cup {"submit", "wait", "poll", "locate"} => ~ key
    /\ key => pc = "deliver" \/ remote = "deleted" \/ kept

\* What is stored: nothing before the uploads, then what was sent and perhaps the
\* output being sent, in the order of the uploads.
StoreInv ==
    /\ ~ Ended /\ pc # "put" => sent = {} /\ store = {}
    /\ pc = "put" =>
          /\ sent \subseteq store
          /\ store \subseteq sent \cup First(ToSend)
          /\ \A out \in sent : \A other \in made : Rank[other] <= Rank[out] => other \in sent
    /\ result.status = "completed" =>
          /\ store = result.outputs
          /\ Contract!Fulfils(store, request)
          /\ ~ result.retryable
    /\ result.status = "failed" =>
          /\ result.outputs = {}
          /\ ~ result.retryable => store = {}

IInv ==
    /\ TypeOK
    /\ ViaInv
    /\ ResultInv
    /\ RouteInv
    /\ SourceInv
    /\ MadeInv
    /\ PaidInv
    /\ StoreInv

LEMMA ViaStep == TypeOK /\ ViaInv /\ [Next]_vars => ViaInv'
<1> SUFFICES ASSUME TypeOK, ViaInv, [Next]_vars PROVE ViaInv'
  OBVIOUS
<1> USE DEF facts, locals, world, TypeOK, ViaInv, OxylabsSteps, YtdlpSteps, TryBlock,
            Onward, Raise, RaiseWith
<1>1. CASE FetchDirect
  BY <1>1 DEF FetchDirect
<1>2. CASE CheckHost
  BY <1>2 DEF CheckHost
<1>3. CASE MetadataFails
  BY <1>3 DEF MetadataFails, RouteFails
<1>4. CASE MetadataTimesOut
  BY <1>4 DEF MetadataTimesOut
<1>5. CASE MetadataRead
  BY <1>5 DEF MetadataRead
<1>6. CASE MediaFails
  BY <1>6 DEF MediaFails, RouteFails
<1>7. CASE MediaTimesOut
  BY <1>7 DEF MediaTimesOut
<1>8. CASE MediaFetched
  BY <1>8 DEF MediaFetched
<1>9. CASE Prepare
  BY <1>9 DEF Prepare
<1>10. CASE FactsRefused
  BY <1>10 DEF FactsRefused
<1>11. CASE FactsUnusable
  BY <1>11 DEF FactsUnusable
<1>12. CASE FactsRead
  BY <1>12 DEF FactsRead, FirstFetch, Requests
<1>13. CASE CaptionsRefused
  BY <1>13 DEF CaptionsRefused
<1>14. CASE CaptionsSettled
  BY <1>14 DEF CaptionsSettled, FirstFetch, Requests
<1>15. CASE SubmitFails
  BY <1>15 DEF SubmitFails
<1>16. CASE Submit
  BY <1>16 DEF Submit
<1>17. CASE WaitTimesOut
  BY <1>17 DEF WaitTimesOut
<1>18. CASE StartPoll
  BY <1>18 DEF StartPoll
<1>19. CASE PollRefused
  BY <1>19 DEF PollRefused
<1>20. CASE PollAnswered
  BY <1>20 DEF PollAnswered
<1>21. CASE Locate
  BY <1>21 DEF Locate
<1>22. CASE LocateFails
  BY <1>22 DEF LocateFails
<1>23. CASE Deliver
  BY <1>23 DEF Deliver
<1>24. CASE Probe
  BY <1>24 DEF Probe
<1>25. CASE ProbeFails
  BY <1>25 DEF ProbeFails
<1>26. CASE VideoReady
  BY <1>26 DEF VideoReady
<1>27. CASE VideoFails
  BY <1>27 DEF VideoFails
<1>28. CASE AudioReady
  BY <1>28 DEF AudioReady
<1>29. CASE AudioFails
  BY <1>29 DEF AudioFails
<1>30. CASE FfmpegTimesOut
  BY <1>30 DEF FfmpegTimesOut
<1>31. CASE Gate
  BY <1>31 DEF Gate
<1>32. CASE PutAccepted
  BY <1>32 DEF PutAccepted
<1>33. CASE PutUnanswered
  BY <1>33 DEF PutUnanswered
<1>34. CASE PutRefused
  BY <1>34 DEF PutRefused
<1>35. CASE Report
  BY <1>35 DEF Report
<1>36. CASE Cleanup
  BY <1>36 DEF Cleanup
<1>37. CASE Crash
  BY <1>37 DEF Crash
<1>38. CASE ClockAdvances
  BY <1>38 DEF ClockAdvances
<1>39. CASE RemoteStep
  BY <1>39 DEF RemoteStep
<1>40. CASE UNCHANGED vars
  BY <1>40 DEF vars
<1>41. QED
  BY <1>1, <1>2, <1>3, <1>4, <1>5, <1>6, <1>7, <1>8, <1>9, <1>10, <1>11, <1>12,
     <1>13, <1>14, <1>15, <1>16, <1>17, <1>18, <1>19, <1>20, <1>21, <1>22, <1>23,
     <1>24, <1>25, <1>26, <1>27, <1>28, <1>29, <1>30, <1>31, <1>32, <1>33, <1>34,
     <1>35, <1>36, <1>37, <1>38, <1>39, <1>40 DEF Next, Step, Done

\* The lemmas below split a step into what it does with the result.
LEMMA ResultStep == TypeOK /\ ResultInv /\ [Next]_vars => ResultInv'
<1> SUFFICES ASSUME TypeOK, ResultInv, [Next]_vars PROVE ResultInv'
  OBVIOUS
<1>1. CASE Report
  BY <1>1 DEF Report, IngestResult, ResultInv, Ended
<1>2. ASSUME NEW err \in JobErrors, Fails(err) PROVE ResultInv'
  BY <1>2 DEF Fails, ResultInv, Ended
<1>3. CASE /\ result' = result /\ (pc' = pc \/ pc' # "cleanup")
           /\ pc = "cleanup" => pc' \in {"cleanup", "returned"}
  <2>1. Ended' <=> Ended
    <3>1. pc' = "returned" => pc \in {"cleanup", "returned"}
      BY DEF Onward, Raise, RaiseWith, RouteFails, FirstFetch, Requests, TypeOK, TryBlock,
         vars, Next, Step, Done, FetchDirect, CheckHost, MetadataFails, MetadataTimesOut,
         MetadataRead, MediaFails, MediaTimesOut, MediaFetched, Prepare, FactsRefused,
         FactsUnusable, FactsRead, CaptionsRefused, CaptionsSettled, SubmitFails, Submit,
         WaitTimesOut, StartPoll, PollRefused, PollAnswered, Locate, LocateFails, Deliver,
         Probe, ProbeFails, VideoReady, VideoFails, AudioReady, AudioFails,
         FfmpegTimesOut, Gate, PutAccepted, PutUnanswered, PutRefused, Report, Cleanup,
         Crash, ClockAdvances, RemoteStep
    <3>2. pc = "returned" => pc' = "returned"
      BY DEF TryBlock, vars, Next, Step, Done, FetchDirect, CheckHost, MetadataFails,
         MetadataTimesOut, MetadataRead, MediaFails, MediaTimesOut, MediaFetched, Prepare,
         FactsRefused, FactsUnusable, FactsRead, CaptionsRefused, CaptionsSettled,
         SubmitFails, Submit, WaitTimesOut, StartPoll, PollRefused, PollAnswered, Locate,
         LocateFails, Deliver, Probe, ProbeFails, VideoReady, VideoFails, AudioReady,
         AudioFails, FfmpegTimesOut, Gate, PutAccepted, PutUnanswered, PutRefused, Report,
         Cleanup, Crash, ClockAdvances, RemoteStep
    <3>3. QED
      BY <1>3, <3>1, <3>2 DEF Ended
  <2>2. QED
    BY <1>3, <2>1 DEF ResultInv
<1>4. CASE UNCHANGED vars
  BY <1>4 DEF vars, ResultInv, Ended
<1>5. QED
  BY <1>1, <1>2, <1>3, <1>4, OutcomeStep

LEMMA RouteStep == TypeOK /\ RouteInv /\ [Next]_vars => RouteInv'
<1> SUFFICES ASSUME TypeOK, RouteInv, [Next]_vars PROVE RouteInv'
  OBVIOUS
<1> USE DEF facts, locals, world, vars, Next, Step, Done
<1>1. route \in Nat /\ Routes \in Nat /\ route <= Routes /\ route >= 1
  BY RoutesAssumption DEF TypeOK
<1>2. (1..(route - 1) \subseteq blocked)'
  <2>1. ASSUME NEW err, RouteFails(err) PROVE 1..(route' - 1) \subseteq blocked'
    <3>1. CASE err.code = "SOURCE_BLOCKED" /\ ~ LastRoute
      BY <1>1, <2>1, <3>1 DEF RouteFails, RouteInv
    <3>2. CASE ~ (err.code = "SOURCE_BLOCKED" /\ ~ LastRoute)
      BY <2>1, <3>2 DEF RouteFails, RouteInv
    <3>3. QED
      BY <3>1, <3>2
  <2>2. QED
    BY <2>1 DEF RouteInv, FetchDirect, CheckHost, MetadataFails, MetadataTimesOut,
       MetadataRead, MediaFails, MediaTimesOut, MediaFetched, Prepare, FactsRefused,
       FactsUnusable, FactsRead, CaptionsRefused, CaptionsSettled, SubmitFails, Submit,
       WaitTimesOut, StartPoll, PollRefused, PollAnswered, Locate, LocateFails, Deliver,
       Probe, ProbeFails, VideoReady, VideoFails, AudioReady, AudioFails,
       FfmpegTimesOut, Gate, PutAccepted, PutUnanswered, PutRefused, Report, Cleanup,
       Crash, ClockAdvances, RemoteStep
<1>3. blocked \subseteq blocked' /\ blocked' \subseteq 1..Routes
  <2>1. blocked' \subseteq 1..Routes
    BY TypeStep DEF TypeOK
  <2>2. QED
    BY <2>1 DEF RouteFails, FetchDirect, CheckHost, MetadataFails, MetadataTimesOut,
       MetadataRead, MediaFails, MediaTimesOut, MediaFetched, Prepare, FactsRefused,
       FactsUnusable, FactsRead, CaptionsRefused, CaptionsSettled, SubmitFails, Submit,
       WaitTimesOut, StartPoll, PollRefused, PollAnswered, Locate, LocateFails, Deliver,
       Probe, ProbeFails, VideoReady, VideoFails, AudioReady, AudioFails,
       FfmpegTimesOut, Gate, PutAccepted, PutUnanswered, PutRefused, Report, Cleanup,
       Crash, ClockAdvances, RemoteStep
<1>4. (result.code = "SOURCE_BLOCKED" => blocked = 1..Routes)'
  <2>1. CASE Report
    BY <2>1 DEF Report, IngestResult
  <2>2. ASSUME NEW err \in JobErrors, Fails(err)
        PROVE  (result.code = "SOURCE_BLOCKED" => blocked = 1..Routes)'
    <3> SUFFICES ASSUME err.code = "SOURCE_BLOCKED" PROVE blocked' = 1..Routes
      BY <2>2 DEF Fails
    <3>1. route = Routes /\ blocked' = blocked \cup {route}
      BY <2>2 DEF Fails
    <3>2. 1..Routes \subseteq blocked'
      BY <1>1, <3>1 DEF RouteInv
    <3>3. QED
      BY <1>3, <3>2
  <2>3. CASE result' = result
    BY <1>3, <2>3 DEF RouteInv
  <2>4. QED
    BY <2>1, <2>2, <2>3, OutcomeStep
<1>5. QED
  BY <1>2, <1>4 DEF RouteInv

LEMMA SourceStep == TypeOK /\ ViaInv /\ ResultInv /\ SourceInv /\ [Next]_vars => SourceInv'
<1> SUFFICES ASSUME TypeOK, ViaInv, ResultInv, SourceInv, [Next]_vars PROVE SourceInv'
  OBVIOUS
<1> USE DEF facts, locals, world, vars, Next, Step, Done
<1>1. request' = request
  BY DEF FetchDirect, CheckHost, MetadataFails, MetadataTimesOut, MetadataRead,
     MediaFails, MediaTimesOut, MediaFetched, Prepare, FactsRefused, FactsUnusable,
     FactsRead, CaptionsRefused, CaptionsSettled, SubmitFails, Submit, WaitTimesOut,
     StartPoll, PollRefused, PollAnswered, Locate, LocateFails, Deliver, Probe,
     ProbeFails, VideoReady, VideoFails, AudioReady, AudioFails, FfmpegTimesOut, Gate,
     PutAccepted, PutUnanswered, PutRefused, Report, Cleanup, Crash, ClockAdvances,
     RemoteStep
<1>2. (request.via = "ytdlp" /\ pc \in {"media", "probe", "video", "audio", "gate", "put"} =>
          source.known /\ source.route = route)'
  <2> DEFINE onPage == {"media", "probe", "video", "audio", "gate", "put"}
  <2>1. CASE MetadataRead
    <3>1. \E length \in BOOLEAN : source' = Source(TRUE, route, length)
      BY <2>1 DEF MetadataRead, Page, RaiseWith
    <3>2. route' = route
      BY <2>1 DEF MetadataRead
    <3>3. QED
      BY <3>1, <3>2 DEF Source
  <2>2. CASE FactsRead \/ FetchDirect
    BY <1>1, <2>2 DEF FactsRead, FetchDirect, ViaInv, OxylabsSteps
  <2>3. CASE Probe
    <3>1. \A length \in BOOLEAN :
             LET block == [source EXCEPT !.length = @ \/ length] IN
             block.known = source.known /\ block.route = source.route
      BY DEF TypeOK, Sources
    <3>2. source.known' = source.known /\ source.route' = source.route
          /\ route' = route /\ pc = "probe"
      BY <2>3, <3>1 DEF Probe, RaiseWith
    <3>3. QED
      BY <1>1, <3>2 DEF SourceInv
  <2>4. CASE ~ (MetadataRead \/ FactsRead \/ FetchDirect \/ Probe)
    <3>1. source' = source
      BY <2>4 DEF CheckHost, MetadataFails, MetadataTimesOut, MediaFails, MediaTimesOut,
         MediaFetched, Prepare, FactsRefused, FactsUnusable, CaptionsRefused,
         CaptionsSettled, SubmitFails, Submit, WaitTimesOut, StartPoll, PollRefused,
         PollAnswered, Locate, LocateFails, Deliver, ProbeFails, VideoReady, VideoFails,
         AudioReady, AudioFails, FfmpegTimesOut, Gate, PutAccepted, PutUnanswered,
         PutRefused, Report, Cleanup, Crash, ClockAdvances, RemoteStep
    <3>2. \/ pc' = pc /\ route' = route
          \/ pc' \notin onPage
          \/ pc \in onPage /\ route' = route
          \/ request.via = "oxylabs"
      BY <2>4, ZenonT(60) DEF OxylabsSteps, TypeOK, TryBlock, Onward, Raise, RaiseWith, RouteFails,
         FirstFetch, Requests, ViaInv, CheckHost, MetadataFails, MetadataTimesOut,
         MediaFails, MediaTimesOut, MediaFetched, Prepare, FactsRefused, FactsUnusable,
         CaptionsRefused, CaptionsSettled, SubmitFails, Submit, WaitTimesOut, StartPoll,
         PollRefused, PollAnswered, Locate, LocateFails, Deliver, ProbeFails,
         VideoReady, VideoFails, AudioReady, AudioFails, FfmpegTimesOut, Gate,
         PutAccepted, PutUnanswered, PutRefused, Report, Cleanup, Crash, ClockAdvances,
         RemoteStep
    <3>3. QED
      BY <1>1, <3>1, <3>2 DEF SourceInv
  <2>5. QED
    BY <2>1, <2>2, <2>3, <2>4
<1>3. ASSUME NEW err \in JobErrors, Fails(err)
      PROVE  /\ result'.status = "failed"
             /\ result'.code = "DURATION_TOO_LONG" => result'.source.length \/ request.window
  BY <1>3 DEF Fails
<1>4. (request.via = "ytdlp" /\ result.status = "completed" =>
          result.source.known /\ result.source.route = route)'
  <2>1. CASE Report
    BY <1>1, <2>1 DEF Report, IngestResult, SourceInv
  <2>2. CASE result' = result /\ route' = route
    BY <1>1, <2>2 DEF SourceInv
  <2>3. result.status = "completed" => route' = route
    <3>1. result.status = "completed" => Ended
      BY DEF ResultInv, NoIngestResult
    <3>2. Ended => route' = route
      BY DEF Ended, FetchDirect, CheckHost, MetadataFails, MetadataTimesOut,
         MetadataRead, MediaFails, MediaTimesOut, MediaFetched, Prepare, FactsRefused,
         FactsUnusable, FactsRead, CaptionsRefused, CaptionsSettled, SubmitFails,
         Submit, WaitTimesOut, StartPoll, PollRefused, PollAnswered, Locate,
         LocateFails, Deliver, Probe, ProbeFails, VideoReady, VideoFails, AudioReady,
         AudioFails, FfmpegTimesOut, Gate, PutAccepted, PutUnanswered, PutRefused,
         Report, Cleanup, Crash, ClockAdvances, RemoteStep
    <3>3. QED
      BY <3>1, <3>2
  <2>4. QED
    BY <1>3, <2>1, <2>2, <2>3, OutcomeStep
<1>5. (result.code = "DURATION_TOO_LONG" => result.source.length \/ request.window)'
  <2>1. CASE Report
    BY <2>1 DEF Report, IngestResult
  <2>2. CASE result' = result
    BY <1>1, <2>2 DEF SourceInv
  <2>3. QED
    BY <1>1, <1>3, <2>1, <2>2, OutcomeStep
<1>6. QED
  BY <1>2, <1>4, <1>5 DEF SourceInv

LEMMA MadeStep == TypeOK /\ ViaInv /\ MadeInv /\ [Next]_vars => MadeInv'
<1> SUFFICES ASSUME TypeOK, ViaInv, MadeInv, [Next]_vars PROVE MadeInv'
  OBVIOUS
<1> USE DEF facts, locals, world, vars, Next, Step, Done
<1>1. request' = request
  BY DEF FetchDirect, CheckHost, MetadataFails, MetadataTimesOut, MetadataRead,
     MediaFails, MediaTimesOut, MediaFetched, Prepare, FactsRefused, FactsUnusable,
     FactsRead, CaptionsRefused, CaptionsSettled, SubmitFails, Submit, WaitTimesOut,
     StartPoll, PollRefused, PollAnswered, Locate, LocateFails, Deliver, Probe,
     ProbeFails, VideoReady, VideoFails, AudioReady, AudioFails, FfmpegTimesOut, Gate,
     PutAccepted, PutUnanswered, PutRefused, Report, Cleanup, Crash, ClockAdvances,
     RemoteStep
<1>2. CASE CaptionsSettled
  BY <1>1, <1>2 DEF CaptionsSettled, Onward, FirstFetch, WantAudio, MadeInv, ViaInv,
     OxylabsSteps, YtdlpSteps, BeforeCaptions, TypeOK, Requests, Contract!Fulfils
<1>3. CASE VideoReady
  BY <1>1, <1>3 DEF VideoReady, Onward, WantAudio, MadeInv, YtdlpSteps, BeforeCaptions,
     TypeOK, Requests, Contract!Fulfils
<1>4. CASE AudioReady
  BY <1>1, <1>4 DEF AudioReady, Onward, WantAudio, MadeInv, YtdlpSteps, BeforeCaptions,
     TypeOK, Requests, Contract!Fulfils
<1>5. CASE FactsRead
  BY <1>1, <1>5 DEF FactsRead, RaiseWith, Onward, FirstFetch, WantAudio, MadeInv, ViaInv,
     OxylabsSteps, YtdlpSteps, BeforeCaptions, TypeOK, Requests, Contract!Fulfils
<1>6. CASE Probe
  BY <1>1, <1>6 DEF Probe, RaiseWith, Onward, WantAudio, MadeInv, YtdlpSteps,
     BeforeCaptions, TypeOK, Requests, Contract!Fulfils
<1>7. CASE ~ (CaptionsSettled \/ VideoReady \/ AudioReady \/ FactsRead \/ Probe)
  <2> DEFINE fetching == {"submit", "wait", "poll", "locate", "deliver", "probe"}
  <2>1. made' = made
    BY <1>7 DEF FetchDirect, CheckHost, MetadataFails, MetadataTimesOut, MetadataRead,
       MediaFails, MediaTimesOut, MediaFetched, Prepare, FactsRefused, FactsUnusable,
       CaptionsRefused, SubmitFails, Submit, WaitTimesOut, StartPoll, PollRefused,
       PollAnswered, Locate, LocateFails, Deliver, ProbeFails, VideoFails, AudioFails,
       FfmpegTimesOut, Gate, PutAccepted, PutUnanswered, PutRefused, Report, Cleanup,
       Crash, ClockAdvances, RemoteStep
  <2>2. \/ pc' = pc \/ pc' \in {"cleanup", "returned"}
        \/ pc \in YtdlpSteps \cup {"prepare"} /\ pc' \in {"facts", "metadata", "media"}
        \/ pc \in {"direct", "media"} /\ pc' = "probe"
        \/ pc \in fetching /\ pc' \in fetching
        \/ pc = "gate" /\ pc' = "put"
    <3>1. CASE MetadataFails \/ MediaFails
      BY <3>1 DEF MetadataFails, MediaFails, RouteFails, Raise, Onward, YtdlpSteps
    <3>2. CASE ~ (MetadataFails \/ MediaFails)
      BY <1>7, <3>2 DEF YtdlpSteps, Raise, RaiseWith, Onward, FetchDirect, CheckHost,
         MetadataTimesOut, MetadataRead, MediaTimesOut, MediaFetched, Prepare,
         FactsRefused, FactsUnusable, CaptionsRefused, SubmitFails, Submit,
         WaitTimesOut, StartPoll, PollRefused, PollAnswered, Locate, LocateFails,
         Deliver, ProbeFails, VideoFails, AudioFails, FfmpegTimesOut, Gate, PutAccepted,
         PutUnanswered, PutRefused, Report, Cleanup, Crash, ClockAdvances, RemoteStep
    <3>3. QED
      BY <3>1, <3>2
  <2>3. pc \in {"direct", "media"} => request.video \/ WantAudio(made)
    BY DEF WantAudio, MadeInv, ViaInv, BeforeCaptions, YtdlpSteps, TypeOK, Requests
  <2>4. WantAudio(made)' <=> WantAudio(made)
    BY <1>1, <2>1 DEF WantAudio
  <2>5. Contract!Fulfils(made, request)' <=> Contract!Fulfils(made, request)
    BY <1>1, <2>1
  <2>6. QED
    BY <1>1, <2>1, <2>2, <2>3, <2>4, <2>5 DEF MadeInv, YtdlpSteps, BeforeCaptions
<1>8. QED
  BY <1>2, <1>3, <1>4, <1>5, <1>6, <1>7

LEMMA PaidStep == TypeOK /\ ViaInv /\ ResultInv /\ MadeInv /\ PaidInv /\ [Next]_vars => PaidInv'
<1> SUFFICES ASSUME TypeOK, ViaInv, ResultInv, MadeInv, PaidInv, [Next]_vars PROVE PaidInv'
  OBVIOUS
<1> USE DEF facts, locals, world, vars, Next, Step, Done
<1>1. \/ remote' = remote
      \/ pc = "submit" /\ pc' \in {"wait", "cleanup"}
      \/ remote # "none" /\ pc' = pc
      \/ pc = "deliver" /\ pc' \in {"probe", "cleanup"}
  BY DEF Raise, Onward, FetchDirect, CheckHost, MetadataFails, MetadataTimesOut,
     MetadataRead, MediaFails, MediaTimesOut, MediaFetched, Prepare, FactsRefused,
     FactsUnusable, FactsRead, CaptionsRefused, CaptionsSettled, SubmitFails, Submit,
     WaitTimesOut, StartPoll, PollRefused, PollAnswered, Locate, LocateFails, Deliver,
     Probe, ProbeFails, VideoReady, VideoFails, AudioReady, AudioFails, FfmpegTimesOut,
     Gate, PutAccepted, PutUnanswered, PutRefused, Report, Cleanup, Crash,
     ClockAdvances, RemoteStep
<1>2. pc' \in BeforeCaptions \cup {"submit"} => pc \in BeforeCaptions \cup {"submit"}
  BY ZenonT(60) DEF TypeOK, TryBlock, Requests, Raise, RaiseWith, RouteFails, FirstFetch, Onward,
     BeforeCaptions, YtdlpSteps, FetchDirect, CheckHost, MetadataFails,
     MetadataTimesOut, MetadataRead, MediaFails, MediaTimesOut, MediaFetched, Prepare,
     FactsRefused, FactsUnusable, FactsRead, CaptionsRefused, CaptionsSettled,
     SubmitFails, Submit, WaitTimesOut, StartPoll, PollRefused, PollAnswered, Locate,
     LocateFails, Deliver, Probe, ProbeFails, VideoReady, VideoFails, AudioReady,
     AudioFails, FfmpegTimesOut, Gate, PutAccepted, PutUnanswered, PutRefused, Report,
     Cleanup, Crash, ClockAdvances, RemoteStep
<1>3. (pc \in BeforeCaptions \cup {"submit"} => remote = "none")'
  BY <1>1, <1>2 DEF PaidInv, BeforeCaptions, YtdlpSteps
<1>4. (pc \in {"gate", "put"} /\ remote # "none" => made \cap {"video", "audio"} # {})'
  <2> SUFFICES ASSUME pc' \in {"gate", "put"}, remote' # "none"
               PROVE  made' \cap {"video", "audio"} # {}
    OBVIOUS
  <2>1. remote # "none"
    BY <1>1
  <2>2. made \subseteq made'
    BY DEF FetchDirect, CheckHost, MetadataFails, MetadataTimesOut, MetadataRead,
       MediaFails, MediaTimesOut, MediaFetched, Prepare, FactsRefused, FactsUnusable,
       FactsRead, CaptionsRefused, CaptionsSettled, SubmitFails, Submit, WaitTimesOut,
       StartPoll, PollRefused, PollAnswered, Locate, LocateFails, Deliver, Probe,
       ProbeFails, VideoReady, VideoFails, AudioReady, AudioFails, FfmpegTimesOut, Gate,
       PutAccepted, PutUnanswered, PutRefused, Report, Cleanup, Crash, ClockAdvances,
       RemoteStep
  <2>3. CASE pc = "video" \/ pc = "audio"
    BY <2>1, <2>3 DEF VideoReady, VideoFails, AudioReady, AudioFails, FfmpegTimesOut, Raise, Onward,
       FetchDirect, CheckHost, MetadataFails, MetadataTimesOut, MetadataRead,
       MediaFails, MediaTimesOut, MediaFetched, Prepare, FactsRefused, FactsUnusable,
       FactsRead, CaptionsRefused, CaptionsSettled, SubmitFails, Submit, WaitTimesOut,
       StartPoll, PollRefused, PollAnswered, Locate, LocateFails, Deliver, Probe,
       ProbeFails, Gate, PutAccepted, PutUnanswered, PutRefused, Report, Cleanup,
       Crash, ClockAdvances, RemoteStep
  <2>4. CASE pc \in {"gate", "put"}
    BY <2>1, <2>2, <2>4 DEF PaidInv
  <2>5. CASE pc = "probe"
    <3>1. request.video \/ WantAudio(made)
      BY <2>5 DEF MadeInv
    <3>2. QED
      BY <2>5, <3>1 DEF Raise, RaiseWith, Onward, FetchDirect, CheckHost, MetadataFails,
         MetadataTimesOut, MetadataRead, MediaFails, MediaTimesOut, MediaFetched,
         Prepare, FactsRefused, FactsUnusable, FactsRead, CaptionsRefused,
         CaptionsSettled, SubmitFails, Submit, WaitTimesOut, StartPoll, PollRefused,
         PollAnswered, Locate, LocateFails, Deliver, Probe, ProbeFails, VideoReady,
         VideoFails, AudioReady, AudioFails, FfmpegTimesOut, Gate, PutAccepted,
         PutUnanswered, PutRefused, Report, Cleanup, Crash, ClockAdvances, RemoteStep
  <2>6. pc \in {"video", "audio", "gate", "put", "probe"}
    <3>1. pc \notin BeforeCaptions
      BY <2>1 DEF PaidInv
    <3>2. QED
      BY <3>1 DEF Raise, RaiseWith, RouteFails, Onward, BeforeCaptions, YtdlpSteps,
         FetchDirect, CheckHost, MetadataFails, MetadataTimesOut, MetadataRead,
         MediaFails, MediaTimesOut, MediaFetched, Prepare, FactsRefused, FactsUnusable,
         FactsRead, CaptionsRefused, CaptionsSettled, SubmitFails, Submit, WaitTimesOut,
         StartPoll, PollRefused, PollAnswered, Locate, LocateFails, Deliver, Probe,
         ProbeFails, VideoReady, VideoFails, AudioReady, AudioFails, FfmpegTimesOut,
         Gate, PutAccepted, PutUnanswered, PutRefused, Report, Cleanup, Crash,
         ClockAdvances, RemoteStep
  <2>7. QED
    BY <2>3, <2>4, <2>5, <2>6
<1>5. (result.status = "completed" /\ remote # "none" =>
          result.outputs \cap {"video", "audio"} # {})'
  <2>1. CASE Report
    BY <2>1 DEF Report, IngestResult, PaidInv
  <2>2. ASSUME NEW err \in JobErrors, Fails(err) PROVE result'.status = "failed"
    BY <2>2 DEF Fails
  <2>3. CASE result' = result
    <3>1. result.status = "completed" => Ended
      BY DEF ResultInv, NoIngestResult
    <3>2. QED
      BY <1>1, <2>3, <3>1 DEF PaidInv, Ended
  <2>4. QED
    BY <2>1, <2>2, <2>3, OutcomeStep
<1>6. pc' \in BeforeCaptions \cup {"submit", "wait", "poll", "locate"} =>
          pc \in BeforeCaptions \cup {"submit", "wait", "poll", "locate"} /\ UNCHANGED key
  <2> SUFFICES ASSUME pc' \in BeforeCaptions \cup {"submit", "wait", "poll", "locate"}
               PROVE  /\ pc \in BeforeCaptions \cup {"submit", "wait", "poll", "locate"}
                      /\ UNCHANGED key
    OBVIOUS
  <2>1. pc # "locate" \/ pc' # "deliver" => UNCHANGED key
    BY DEF Onward, FetchDirect, CheckHost, MetadataFails, MetadataTimesOut,
       MetadataRead, MediaFails, MediaTimesOut, MediaFetched, Prepare, FactsRefused,
       FactsUnusable, FactsRead, CaptionsRefused, CaptionsSettled, SubmitFails, Submit,
       WaitTimesOut, StartPoll, PollRefused, PollAnswered, Locate, LocateFails, Deliver,
       Probe, ProbeFails, VideoReady, VideoFails, AudioReady, AudioFails,
       FfmpegTimesOut, Gate, PutAccepted, PutUnanswered, PutRefused, Report, Cleanup,
       Crash, ClockAdvances, RemoteStep
  <2>2. pc' # "deliver"
    BY DEF BeforeCaptions, YtdlpSteps
  <2>3. CASE MetadataFails \/ MediaFails
    BY <2>1, <2>2, <2>3 DEF MetadataFails, MediaFails, BeforeCaptions, YtdlpSteps
  <2>4. CASE ~ (MetadataFails \/ MediaFails)
    <3>1. pc \in BeforeCaptions \cup {"submit", "wait", "poll", "locate"}
      BY <2>4 DEF Raise, RaiseWith, Onward, BeforeCaptions, YtdlpSteps, FetchDirect,
         CheckHost, MetadataTimesOut, MetadataRead, MediaTimesOut, MediaFetched,
         Prepare, FactsRefused, FactsUnusable, FactsRead, CaptionsRefused,
         CaptionsSettled, SubmitFails, Submit, WaitTimesOut, StartPoll, PollRefused,
         PollAnswered, Locate, LocateFails, Deliver, Probe, ProbeFails, VideoReady,
         VideoFails, AudioReady, AudioFails, FfmpegTimesOut, Gate, PutAccepted,
         PutUnanswered, PutRefused, Report, Cleanup, Crash, ClockAdvances, RemoteStep
    <3>2. QED
      BY <2>1, <2>2, <3>1
  <2>5. QED
    BY <2>3, <2>4
<1>7. (pc \in BeforeCaptions \cup {"submit", "wait", "poll", "locate"} => ~ key)'
  BY <1>6 DEF PaidInv
<1>8. (key => pc = "deliver" \/ remote = "deleted" \/ kept)'
  <2>1. CASE Locate
    BY <2>1 DEF Locate, Onward
  <2>2. CASE Deliver
    BY <2>2 DEF Deliver, AfterFetch, Discard
  <2>3. CASE ~ (Locate \/ Deliver)
    <3>1. UNCHANGED <<key, kept>>
      BY <2>3 DEF FetchDirect, CheckHost, MetadataFails, MetadataTimesOut, MetadataRead,
         MediaFails, MediaTimesOut, MediaFetched, Prepare, FactsRefused, FactsUnusable,
         FactsRead, CaptionsRefused, CaptionsSettled, SubmitFails, Submit, WaitTimesOut,
         StartPoll, PollRefused, PollAnswered, LocateFails, Probe, ProbeFails,
         VideoReady, VideoFails, AudioReady, AudioFails, FfmpegTimesOut, Gate,
         PutAccepted, PutUnanswered, PutRefused, Report, Cleanup, Crash, ClockAdvances,
         RemoteStep
    <3>2. remote = "deleted" /\ key => remote' = "deleted"
      BY <2>3 DEF PaidInv, Submit, SubmitFails, FetchDirect, CheckHost, MetadataFails,
         MetadataTimesOut, MetadataRead, MediaFails, MediaTimesOut, MediaFetched,
         Prepare, FactsRefused, FactsUnusable, FactsRead, CaptionsRefused,
         CaptionsSettled, WaitTimesOut, StartPoll, PollRefused, PollAnswered,
         LocateFails, Probe, ProbeFails, VideoReady, VideoFails, AudioReady, AudioFails,
         FfmpegTimesOut, Gate, PutAccepted, PutUnanswered, PutRefused, Report, Cleanup,
         Crash, ClockAdvances, RemoteStep
    <3>3. pc = "deliver" => pc' = "deliver"
      BY <2>3 DEF TryBlock, FetchDirect, CheckHost, MetadataFails, MetadataTimesOut,
         MetadataRead, MediaFails, MediaTimesOut, MediaFetched, Prepare, FactsRefused,
         FactsUnusable, FactsRead, CaptionsRefused, CaptionsSettled, SubmitFails,
         Submit, WaitTimesOut, StartPoll, PollRefused, PollAnswered, LocateFails, Probe,
         ProbeFails, VideoReady, VideoFails, AudioReady, AudioFails, FfmpegTimesOut,
         Gate, PutAccepted, PutUnanswered, PutRefused, Report, Cleanup, Crash,
         ClockAdvances, RemoteStep
    <3>4. QED
      BY <3>1, <3>2, <3>3 DEF PaidInv
  <2>4. QED
    BY <2>1, <2>2, <2>3
<1>9. QED
  BY <1>3, <1>4, <1>5, <1>7, <1>8 DEF PaidInv

\* The outputs are in a strict order, so one of them is next.
LEMMA RankOrder ==
    /\ \A out \in Outputs : Rank[out] \in Nat
    /\ \A out, other \in Outputs : Rank[out] = Rank[other] => out = other
BY DEF Outputs, Rank

LEMMA NextToSend ==
    ASSUME TypeOK, NEW out \in First(ToSend)
    PROVE  /\ out \in made /\ out \notin sent
           /\ First(ToSend) = {out}
           /\ \A other \in made : Rank[other] <= Rank[out] => other \in sent \/ other = out
<1>1. out \in made \ sent /\ \A other \in made \ sent : Rank[out] <= Rank[other]
  BY DEF First, ToSend
<1>2. made \subseteq Outputs
  BY DEF TypeOK
<1>3. \A other \in made \ sent : Rank[other] <= Rank[out] => other = out
  <2> SUFFICES ASSUME NEW other \in made \ sent, Rank[other] <= Rank[out] PROVE other = out
    OBVIOUS
  <2>1. Rank[out] <= Rank[other] /\ Rank[out] \in Nat /\ Rank[other] \in Nat
    BY <1>1, <1>2, RankOrder
  <2>2. Rank[out] = Rank[other]
    BY <2>1
  <2>3. QED
    BY <1>1, <1>2, <2>2, RankOrder
<1>4. First(ToSend) \subseteq {out}
  <2> SUFFICES ASSUME NEW other \in First(ToSend) PROVE other = out
    OBVIOUS
  <2>1. other \in made \ sent /\ Rank[other] <= Rank[out]
    BY <1>1 DEF First, ToSend
  <2>2. QED
    BY <1>3, <2>1
<1>5. QED
  BY <1>1, <1>3, <1>4

LEMMA StoreStep ==
    TypeOK /\ ResultInv /\ MadeInv /\ StoreInv /\ [Next]_vars => StoreInv'
<1> SUFFICES ASSUME TypeOK, ResultInv, MadeInv, StoreInv, [Next]_vars PROVE StoreInv'
  OBVIOUS
<1> USE DEF facts, locals, world, vars, Next, Step, Done
<1>1. request' = request /\ (pc # "put" => UNCHANGED <<sent, store>>)
  BY DEF FetchDirect, CheckHost, MetadataFails, MetadataTimesOut, MetadataRead,
     MediaFails, MediaTimesOut, MediaFetched, Prepare, FactsRefused, FactsUnusable,
     FactsRead, CaptionsRefused, CaptionsSettled, SubmitFails, Submit, WaitTimesOut,
     StartPoll, PollRefused, PollAnswered, Locate, LocateFails, Deliver, Probe,
     ProbeFails, VideoReady, VideoFails, AudioReady, AudioFails, FfmpegTimesOut, Gate,
     PutAccepted, PutUnanswered, PutRefused, Report, Cleanup, Crash, ClockAdvances,
     RemoteStep
<1>2. ~ Ended' /\ pc' # "put" => ~ Ended /\ pc # "put"
  BY DEF Ended, Raise, Onward, TryBlock, FetchDirect, CheckHost, MetadataFails,
     MetadataTimesOut, MetadataRead, MediaFails, MediaTimesOut, MediaFetched, Prepare,
     FactsRefused, FactsUnusable, FactsRead, CaptionsRefused, CaptionsSettled,
     SubmitFails, Submit, WaitTimesOut, StartPoll, PollRefused, PollAnswered, Locate,
     LocateFails, Deliver, Probe, ProbeFails, VideoReady, VideoFails, AudioReady,
     AudioFails, FfmpegTimesOut, Gate, PutAccepted, PutUnanswered, PutRefused, Report,
     Cleanup, Crash, ClockAdvances, RemoteStep
<1>3. (~ Ended /\ pc # "put" => sent = {} /\ store = {})'
  BY <1>1, <1>2 DEF StoreInv
<1>4. (pc = "put" =>
          /\ sent \subseteq store
          /\ store \subseteq sent \cup First(ToSend)
          /\ \A out \in sent : \A other \in made : Rank[other] <= Rank[out] => other \in sent)'
  <2> SUFFICES ASSUME pc' = "put"
               PROVE  /\ sent' \subseteq store'
                      /\ store' \subseteq sent' \cup First(ToSend)'
                      /\ \A out \in sent' : \A other \in made' :
                            Rank[other] <= Rank[out] => other \in sent'
    OBVIOUS
  <2>1. CASE PutAccepted
    <3>1. pc = "put" /\ made' = made
      BY <2>1 DEF PutAccepted
    <3>2. PICK out \in First(ToSend) : sent' = sent \cup {out} /\ store' = store \cup {out}
      BY <2>1 DEF PutAccepted
    <3>3. First(ToSend) = {out}
          /\ \A other \in made : Rank[other] <= Rank[out] => other \in sent \/ other = out
      BY <3>2, NextToSend
    <3>4. QED
      BY <3>1, <3>2, <3>3 DEF StoreInv
  <2>2. CASE PutUnanswered
    <3>1. pc = "put" /\ made' = made /\ sent' = sent
      BY <2>2 DEF PutUnanswered
    <3>2. store' = store \/ \E out \in First(ToSend) : store' = store \cup {out}
      BY <2>2 DEF PutUnanswered
    <3>3. First(ToSend)' = First(ToSend)
      BY <3>1 DEF First, ToSend
    <3>4. QED
      BY <3>1, <3>2, <3>3 DEF StoreInv
  <2>3. CASE Gate
    BY <1>1, <2>3 DEF Gate, StoreInv, Ended
  <2>4. CASE ~ (PutAccepted \/ PutUnanswered \/ Gate)
    <3>1. pc = "put" /\ UNCHANGED <<made, sent, store>>
      BY <2>4, ZenonT(60) DEF TypeOK, Requests, FirstFetch, Raise, RaiseWith, RouteFails, Onward,
         TryBlock, FetchDirect, CheckHost, MetadataFails, MetadataTimesOut,
         MetadataRead, MediaFails, MediaTimesOut, MediaFetched, Prepare, FactsRefused,
         FactsUnusable, FactsRead, CaptionsRefused, CaptionsSettled, SubmitFails,
         Submit, WaitTimesOut, StartPoll, PollRefused, PollAnswered, Locate,
         LocateFails, Deliver, Probe, ProbeFails, VideoReady, VideoFails, AudioReady,
         AudioFails, FfmpegTimesOut, PutRefused, Report, Cleanup, Crash, ClockAdvances,
         RemoteStep
    <3>2. First(ToSend)' = First(ToSend)
      BY <3>1 DEF First, ToSend
    <3>3. QED
      BY <3>1, <3>2 DEF StoreInv
  <2>5. QED
    BY <2>1, <2>2, <2>3, <2>4
<1>5. CASE Report
  <2>1. made = sent
    BY <1>5 DEF Report, ToSend, TypeOK
  <2>2. First(ToSend) = {}
    BY <1>5 DEF Report, First
  <2>3. store = made /\ Contract!Fulfils(store, request)
    BY <1>5, <2>1, <2>2 DEF Report, StoreInv, MadeInv
  <2>4. store' = store /\ result'.status = "completed" /\ result'.outputs = made
        /\ result'.retryable = FALSE
    BY <1>5 DEF Report, IngestResult
  <2>5. QED
    BY <1>1, <1>3, <1>4, <2>3, <2>4 DEF StoreInv
<1>6. ASSUME NEW err \in JobErrors, Fails(err) PROVE StoreInv'
  <2>1. result'.status = "failed" /\ result'.outputs = {}
        /\ result'.retryable = err.retryable
    BY <1>6 DEF Fails
  <2>2. ~ err.retryable => ~ Ended /\ pc # "put"
    BY <1>6 DEF Fails, Ended, TryBlock
  <2>3. ~ result'.retryable => store' = {}
    BY <1>1, <2>1, <2>2 DEF StoreInv
  <2>4. QED
    BY <1>3, <1>4, <2>1, <2>3 DEF StoreInv
<1>7. CASE result' = result
  <2>1. result.status # "none" => Ended
    BY DEF ResultInv, NoIngestResult
  <2>2. result.status # "none" => store' = store
    BY <1>1, <2>1 DEF Ended
  <2>3. QED
    BY <1>1, <1>3, <1>4, <1>7, <2>2 DEF StoreInv
<1>8. QED
  BY <1>5, <1>6, <1>7, OutcomeStep

LEMMA InvInitially == Init => IInv
<1> SUFFICES ASSUME Init PROVE IInv
  OBVIOUS
<1>1. TypeOK
  BY TypeInitially
<1>2. ViaInv
  BY DEF Init, ViaInv, OxylabsSteps, YtdlpSteps, Requests
<1>3. ResultInv /\ SourceInv
  BY DEF Init, ResultInv, SourceInv, NoIngestResult, Ended, Requests
<1>4. RouteInv
  BY DEF Init, RouteInv, NoIngestResult
<1>5. MadeInv
  BY DEF Init, MadeInv, Requests
<1>6. PaidInv /\ StoreInv
  BY DEF Init, PaidInv, StoreInv, NoIngestResult, Requests
<1>7. QED
  BY <1>1, <1>2, <1>3, <1>4, <1>5, <1>6 DEF IInv

LEMMA InvStep == IInv /\ [Next]_vars => IInv'
BY TypeStep, ViaStep, ResultStep, RouteStep, SourceStep, MadeStep, PaidStep, StoreStep DEF IInv

LEMMA Invariance == Spec => []IInv
BY InvInitially, InvStep, PTL DEF Spec

\* A route is used only after those before it were blocked, and SOURCE_BLOCKED is
\* said of all of them.
THEOREM RoutesExhausted == Spec => []BlockedOnEveryRoute
<1>1. IInv => BlockedOnEveryRoute
  BY DEF IInv, RouteInv, BlockedOnEveryRoute
<1>2. QED
  BY <1>1, Invariance, PTL

\* The source block of the result is that of the route the media came over.
THEOREM SourceBlock == Spec => []SourceBlockTrue
<1>1. IInv => SourceBlockTrue
  <2> SUFFICES ASSUME IInv PROVE SourceBlockTrue
    OBVIOUS
  <2>1. result.source \in Sources
    BY DEF IInv, TypeOK, IngestResults
  <2>2. ASSUME result.source.known, result.source.route = route
        PROVE  result.source = Source(TRUE, route, result.source.length)
    BY <2>1, <2>2 DEF Sources, Source
  <2>3. QED
    BY <2>2 DEF IInv, SourceInv, SourceBlockTrue
<1>2. QED
  BY <1>1, Invariance, PTL

\* What is paid for is used and cleared away.
THEOREM PaidSettled == Spec => []PaidDeliverySettled
<1>1. IInv => PaidDeliverySettled
  BY DEF IInv, PaidInv, PaidDeliverySettled
<1>2. QED
  BY <1>1, Invariance, PTL

\* Nothing is stored once the deadline has passed before the uploads.
THEOREM LateStoresNothing == Spec => LateIngestStoresNothing
<1> DEFINE lost == Late /\ pc # "put" /\ store = {}
<1>1. IInv /\ Late /\ pc \in (TryBlock \cup {"deliver"}) \ {"put"} => lost
  BY DEF IInv, StoreInv, Ended, TryBlock
<1>2. IInv /\ lost /\ [Next]_vars => lost'
  <2> SUFFICES ASSUME IInv, lost, [Next]_vars PROVE lost'
    OBVIOUS
  <2> USE DEF facts, locals, world, vars, Next, Step, Done
  <2>1. Late'
    BY DEF Late, FetchDirect, CheckHost, MetadataFails, MetadataTimesOut, MetadataRead,
       MediaFails, MediaTimesOut, MediaFetched, Prepare, FactsRefused, FactsUnusable,
       FactsRead, CaptionsRefused, CaptionsSettled, SubmitFails, Submit, WaitTimesOut,
       StartPoll, PollRefused, PollAnswered, Locate, LocateFails, Deliver, Probe,
       ProbeFails, VideoReady, VideoFails, AudioReady, AudioFails, FfmpegTimesOut, Gate,
       PutAccepted, PutUnanswered, PutRefused, Report, Cleanup, Crash, ClockAdvances,
       RemoteStep
  <2>2. pc' # "put"
    <3>1. TypeOK
      BY DEF IInv
    <3>2. QED
      BY <3>1 DEF TypeOK, Requests, GateOpen, FirstFetch, Raise, RaiseWith, RouteFails,
         Onward, FetchDirect, CheckHost, MetadataFails, MetadataTimesOut, MetadataRead,
         MediaFails, MediaTimesOut, MediaFetched, Prepare, FactsRefused, FactsUnusable,
         FactsRead, CaptionsRefused, CaptionsSettled, SubmitFails, Submit, WaitTimesOut,
         StartPoll, PollRefused, PollAnswered, Locate, LocateFails, Deliver, Probe,
         ProbeFails, VideoReady, VideoFails, AudioReady, AudioFails, FfmpegTimesOut,
         Gate, PutAccepted, PutUnanswered, PutRefused, Report, Cleanup, Crash,
         ClockAdvances, RemoteStep
  <2>3. store' = store
    BY DEF FetchDirect, CheckHost, MetadataFails, MetadataTimesOut, MetadataRead,
       MediaFails, MediaTimesOut, MediaFetched, Prepare, FactsRefused, FactsUnusable,
       FactsRead, CaptionsRefused, CaptionsSettled, SubmitFails, Submit, WaitTimesOut,
       StartPoll, PollRefused, PollAnswered, Locate, LocateFails, Deliver, Probe,
       ProbeFails, VideoReady, VideoFails, AudioReady, AudioFails, FfmpegTimesOut, Gate,
       PutAccepted, PutUnanswered, PutRefused, Report, Cleanup, Crash, ClockAdvances,
       RemoteStep
  <2>4. QED
    BY <2>1, <2>2, <2>3
<1>3. lost => store = {}
  OBVIOUS
<1> HIDE DEF lost
<1>4. QED
  BY <1>1, <1>2, <1>3, Invariance, PTL DEF Spec, LateIngestStoresNothing

\* The store and the result of the contract only change in the uploads and in the
\* step that returns.
LEMMA ContractStep ==
    ASSUME IInv, IInv', [Next]_vars
    PROVE  [Contract!Next]_Contract!vars
<1> USE DEF facts, locals, world, vars, Next, Step, Done
<1>1. request' = request
  BY DEF FetchDirect, CheckHost, MetadataFails, MetadataTimesOut, MetadataRead,
     MediaFails, MediaTimesOut, MediaFetched, Prepare, FactsRefused, FactsUnusable,
     FactsRead, CaptionsRefused, CaptionsSettled, SubmitFails, Submit, WaitTimesOut,
     StartPoll, PollRefused, PollAnswered, Locate, LocateFails, Deliver, Probe,
     ProbeFails, VideoReady, VideoFails, AudioReady, AudioFails, FfmpegTimesOut, Gate,
     PutAccepted, PutUnanswered, PutRefused, Report, Cleanup, Crash, ClockAdvances,
     RemoteStep
<1>2. CASE PutAccepted \/ PutUnanswered
  <2>1. pc = "put" /\ pc' # "returned"
    BY <1>2 DEF PutAccepted, PutUnanswered, Raise
  <2>2. PICK out \in First(ToSend) : store' = store \/ store' = store \cup {out}
    BY <1>2 DEF PutAccepted, PutUnanswered
  <2>3. /\ out \in made
        /\ First(ToSend) = {out}
        /\ \A other \in made : Rank[other] <= Rank[out] => other \in sent \/ other = out
    BY NextToSend DEF IInv
  <2>4. /\ sent \subseteq store /\ store \subseteq sent \cup {out}
        /\ \A one \in sent : \A other \in made : Rank[other] <= Rank[one] => other \in sent
    BY <2>1, <2>3 DEF IInv, StoreInv
  <2>5. /\ made \in SUBSET Contract!Outputs /\ out \in Contract!Outputs
        /\ sent \subseteq made /\ out \notin sent
    BY <2>2, <2>3, NextToSend DEF IInv, TypeOK, Outputs, Contract!Outputs
  <2>6. Contract!Fulfils(made, request)
    BY <2>1 DEF IInv, MadeInv
  <2>7. \A one \in Outputs : Rank[one] = Contract!Rank[one] /\ Rank[one] \in Nat
    BY RankOrder DEF Rank, Contract!Rank
  <2>8. Contract!Before(out, made) \subseteq store
    <3> SUFFICES ASSUME NEW other \in made, Contract!Rank[other] < Contract!Rank[out]
                 PROVE  other \in store
      BY DEF Contract!Before
    <3>1. other \in Outputs /\ out \in Outputs
      BY <2>3 DEF IInv, TypeOK
    <3>2. Rank[other] \in Nat /\ Rank[out] \in Nat /\ Rank[other] < Rank[out]
      BY <2>7, <3>1
    <3>3. Rank[other] <= Rank[out] /\ other # out
      BY <3>2
    <3>4. QED
      BY <2>3, <2>4, <3>3
  <2>9. store \subseteq Contract!Before(out, made) \cup {out}
    <3> SUFFICES ASSUME NEW one \in sent PROVE Contract!Rank[one] < Contract!Rank[out]
      BY <2>4, <2>5 DEF Contract!Before
    <3>1. one \in Outputs /\ out \in Outputs /\ one \in made /\ out \in made
      BY <2>3, <2>5 DEF IInv, TypeOK
    <3>2. Rank[one] \in Nat /\ Rank[out] \in Nat
      BY <2>7, <3>1
    <3>3. ~ (Rank[out] <= Rank[one])
      BY <2>4, <2>5, <3>1
    <3>4. QED
      BY <2>7, <3>1, <3>2, <3>3
  <2>10. CASE store' = store
    BY <1>1, <2>1, <2>10 DEF Contract!vars
  <2>11. CASE store' = store \cup {out}
    <3>1. Contract!Store(out)
      BY <1>1, <2>1, <2>3, <2>5, <2>6, <2>8, <2>9, <2>11
         DEF Contract!Store, Contract!NoOutcome, Contract!Outcome
    <3>2. QED
      BY <2>5, <3>1 DEF Contract!Next
  <2>12. QED
    BY <2>2, <2>10, <2>11
<1>3. CASE Cleanup
  <2>1. /\ pc = "cleanup" /\ pc' = "returned" /\ result' = result /\ store' = store
    BY <1>3 DEF Cleanup
  <2>2. CASE result.status = "completed"
    <3>1. /\ store = result.outputs /\ Contract!Fulfils(store, request)
          /\ result.retryable = FALSE
      BY <2>2 DEF IInv, StoreInv, TypeOK, IngestResults
    <3>2. Contract!Complete
      BY <1>1, <2>1, <2>2, <3>1 DEF Contract!Complete, Contract!NoOutcome, Contract!Outcome
    <3>3. QED
      BY <3>2 DEF Contract!Next
  <2>3. CASE result.status = "failed"
    <3>1. /\ result.outputs = {}
          /\ ~ result.retryable => store = {}
      BY <2>3 DEF IInv, StoreInv
    <3>2. result.retryable \in BOOLEAN
      BY DEF IInv, TypeOK, IngestResults
    <3>3. Contract!Fail
      BY <1>1, <2>1, <2>3, <3>1, <3>2 DEF Contract!Fail, Contract!NoOutcome, Contract!Outcome
    <3>4. QED
      BY <3>3 DEF Contract!Next
  <2>4. QED
    BY <2>1, <2>2, <2>3 DEF IInv, ResultInv, Ended
<1>4. CASE ~ (PutAccepted \/ PutUnanswered \/ Cleanup)
  <2>1. store' = store
    BY <1>4 DEF FetchDirect, CheckHost, MetadataFails, MetadataTimesOut, MetadataRead,
       MediaFails, MediaTimesOut, MediaFetched, Prepare, FactsRefused, FactsUnusable,
       FactsRead, CaptionsRefused, CaptionsSettled, SubmitFails, Submit, WaitTimesOut,
       StartPoll, PollRefused, PollAnswered, Locate, LocateFails, Deliver, Probe,
       ProbeFails, VideoReady, VideoFails, AudioReady, AudioFails, FfmpegTimesOut, Gate,
       PutRefused, Report, Crash, ClockAdvances, RemoteStep
  <2>2. pc' = "returned" <=> pc = "returned"
    <3>1. pc = "returned" => pc' = "returned"
      BY <1>4 DEF TryBlock, FetchDirect, CheckHost, MetadataFails, MetadataTimesOut,
         MetadataRead, MediaFails, MediaTimesOut, MediaFetched, Prepare, FactsRefused,
         FactsUnusable, FactsRead, CaptionsRefused, CaptionsSettled, SubmitFails,
         Submit, WaitTimesOut, StartPoll, PollRefused, PollAnswered, Locate,
         LocateFails, Deliver, Probe, ProbeFails, VideoReady, VideoFails, AudioReady,
         AudioFails, FfmpegTimesOut, Gate, PutRefused, Report, Crash, ClockAdvances,
         RemoteStep
    <3>2. pc' = "returned" => pc = "returned"
      <4>1. TypeOK
        BY DEF IInv
      <4>2. QED
        BY <1>4, <4>1 DEF TypeOK, Requests, FirstFetch, Raise, RaiseWith, RouteFails,
           Onward, FetchDirect, CheckHost, MetadataFails, MetadataTimesOut,
           MetadataRead, MediaFails, MediaTimesOut, MediaFetched, Prepare, FactsRefused,
           FactsUnusable, FactsRead, CaptionsRefused, CaptionsSettled, SubmitFails,
           Submit, WaitTimesOut, StartPoll, PollRefused, PollAnswered, Locate,
           LocateFails, Deliver, Probe, ProbeFails, VideoReady, VideoFails, AudioReady,
           AudioFails, FfmpegTimesOut, Gate, PutRefused, Report, Crash, ClockAdvances,
           RemoteStep
    <3>3. QED
      BY <3>1, <3>2
  <2>3. pc = "returned" => result' = result
    BY <1>4 DEF TryBlock, FetchDirect, CheckHost, MetadataFails, MetadataTimesOut,
       MetadataRead, MediaFails, MediaTimesOut, MediaFetched, Prepare, FactsRefused,
       FactsUnusable, FactsRead, CaptionsRefused, CaptionsSettled, SubmitFails, Submit,
       WaitTimesOut, StartPoll, PollRefused, PollAnswered, Locate, LocateFails, Deliver,
       Probe, ProbeFails, VideoReady, VideoFails, AudioReady, AudioFails,
       FfmpegTimesOut, Gate, PutRefused, Report, Crash, ClockAdvances, RemoteStep
  <2>4. QED
    BY <1>1, <2>1, <2>2, <2>3 DEF Contract!vars
<1>5. QED
  BY <1>2, <1>3, <1>4

\* An ingest job keeps its contract: what it stores is always the beginning of a
\* set of outputs that fulfils the request, in order, and what it returns agrees
\* with it.
THEOREM KeepsContract == Spec => IngestKeepsContract
<1>1. Init => Contract!Init
  <2> SUFFICES ASSUME Init PROVE Contract!Init
    OBVIOUS
  <2>1. pc # "returned" /\ request \in Requests /\ store = {}
    BY DEF Init, Requests
  <2>2. QED
    BY <2>1 DEF Contract!Init, Contract!NoOutcome, Contract!Outcome
<1>2. QED
  BY <1>1, ContractStep, Invariance, PTL DEF Spec, IngestKeepsContract, Contract!Spec

(***************************************************************************)
(* The steps of an ingest job are numbered.                                *)
(***************************************************************************)
\* The steps from here to the end of the job, when Oxylabs is done at the next
\* poll or time is up.
StepsLeft ==
    CASE pc = "returned" -> 0
      [] pc = "cleanup" -> 1
      [] pc = "put" -> (3 * Cardinality(ToSend) - tries) + 4
      [] pc = "gate" -> 14
      [] pc = "audio" -> 15
      [] pc = "video" -> 16
      [] pc = "probe" -> 17
      [] pc \in {"direct", "deliver"} -> 18
      [] pc = "locate" -> 19
      [] pc = "poll" -> 21
      [] pc = "wait" -> IF clock = "early" THEN 22 ELSE 20
      [] pc = "submit" -> 23
      [] pc = "captions" -> 24
      [] pc = "facts" -> 27 - tries
      [] pc = "prepare" -> 28
      [] pc = "media" -> 2 * (Routes - route) + 18
      [] pc = "metadata" -> 2 * (Routes - route) + 19
      [] OTHER -> 2 * Routes + 20

\* Oxylabs is not done, and the job goes back to sleep.
PolledInVain == pc = "poll" /\ pc' = "wait"

LEMMA OutputsCount ==
    ASSUME NEW some \in SUBSET Outputs
    PROVE  /\ IsFiniteSet(some)
           /\ Cardinality(some) \in 0..3
<1>1. /\ IsFiniteSet({"video"}) /\ Cardinality({"video"}) = 1
  BY FS_Singleton
<1>2. /\ IsFiniteSet({"video"} \cup {"audio"})
      /\ Cardinality({"video"} \cup {"audio"}) <= 2
  BY <1>1, FS_AddElement
<1>3. /\ IsFiniteSet(({"video"} \cup {"audio"}) \cup {"transcript"})
      /\ Cardinality(({"video"} \cup {"audio"}) \cup {"transcript"}) <= 3
  <2>1. Cardinality({"video"} \cup {"audio"}) \in Nat
    BY <1>2, FS_CardinalityType
  <2>2. QED
    BY <1>2, <2>1, FS_AddElement
<1>4. Outputs = ({"video"} \cup {"audio"}) \cup {"transcript"}
  BY DEF Outputs
<1>5. IsFiniteSet(some) /\ Cardinality(some) <= Cardinality(Outputs)
  BY <1>3, <1>4, FS_Subset
<1>6. Cardinality(some) \in Nat /\ Cardinality(Outputs) \in Nat /\ Cardinality(Outputs) <= 3
  BY <1>3, <1>4, <1>5, FS_CardinalityType
<1>7. QED
  BY <1>5, <1>6

LEMMA Numbers ==
    ASSUME TypeOK
    PROVE  /\ Routes \in Nat /\ route \in 1..Routes /\ tries \in 0..2
           /\ IsFiniteSet(ToSend) /\ Cardinality(ToSend) \in 0..3
<1>1. ToSend \in SUBSET Outputs
  BY DEF TypeOK, ToSend
<1>2. QED
  BY <1>1, OutputsCount, RoutesAssumption DEF TypeOK

LEMMA StepsLeftType ==
    ASSUME TypeOK
    PROVE  /\ StepsLeft \in 0..(2 * Routes + 28)
           /\ pc \in TryBlock \cup {"deliver"} => StepsLeft >= 2
<1>1. /\ Routes \in Nat /\ route \in 1..Routes /\ tries \in 0..2
      /\ Cardinality(ToSend) \in 0..3
  BY Numbers
<1>2. CASE pc \in {"media", "metadata", "ytdlp"}
  <2>1. \/ StepsLeft = 2 * (Routes - route) + 18
        \/ StepsLeft = 2 * (Routes - route) + 19
        \/ StepsLeft = 2 * Routes + 20
    BY <1>2 DEF StepsLeft
  <2>2. QED
    BY <1>1, <2>1
<1>3. CASE pc = "put"
  <2>1. StepsLeft = (3 * Cardinality(ToSend) - tries) + 4
    BY <1>3 DEF StepsLeft
  <2>2. \A k \in 0..3, t \in 0..2 : (3 * k - t) + 4 \in 2..13
    OBVIOUS
  <2>3. StepsLeft \in 2..13
    BY <1>1, <2>1, <2>2, Zenon
  <2>4. QED
    BY <1>1, <2>3
<1>4. CASE pc = "facts"
  <2>1. StepsLeft = 27 - tries
    BY <1>4 DEF StepsLeft
  <2>2. QED
    BY <1>1, <2>1
<1>5. CASE pc \in {"gate", "audio", "video", "probe", "direct", "deliver", "locate", "poll",
                    "wait", "submit", "captions", "prepare"}
  <2>1. StepsLeft \in {14, 15, 16, 17, 18, 19, 20, 21, 22, 23, 24, 28}
    BY <1>5 DEF StepsLeft
  <2>2. QED
    BY <1>1, <2>1
<1>6. CASE pc \in {"cleanup", "returned"}
  <2>1. /\ StepsLeft = 0 \/ StepsLeft = 1
        /\ pc \notin TryBlock \cup {"deliver"}
    BY <1>6 DEF StepsLeft, TryBlock
  <2>2. QED
    BY <1>1, <2>1
<1>7. QED
  BY <1>2, <1>3, <1>4, <1>5, <1>6 DEF TypeOK, TryBlock

LEMMA StepCounts ==
    ASSUME IInv, Step \/ Crash, ~ PolledInVain
    PROVE  StepsLeft' < StepsLeft
<1> DEFINE goal == StepsLeft' < StepsLeft
<1>1. /\ TypeOK
      /\ Routes \in Nat /\ route \in 1..Routes /\ tries \in 0..2
      /\ IsFiniteSet(ToSend) /\ Cardinality(ToSend) \in 0..3
  BY Numbers DEF IInv
<1>2. ASSUME pc \in TryBlock \cup {"deliver"}, pc' = "cleanup" PROVE goal
  <2>1. StepsLeft' = 1
    BY <1>2 DEF StepsLeft
  <2>2. StepsLeft >= 2 /\ StepsLeft \in Int
    BY <1>1, <1>2, StepsLeftType
  <2>3. QED
    BY <2>1, <2>2
<1>a. ASSUME pc \in TryBlock \cup {"deliver"}, NEW err, Raise(err) PROVE goal
  BY <1>a, <1>2 DEF Raise
<1>b. ASSUME pc \in TryBlock \cup {"deliver"}, NEW err, NEW block, RaiseWith(err, block)
      PROVE  goal
  BY <1>b, <1>2 DEF RaiseWith
<1>c. \A step \in {"direct", "ytdlp", "metadata", "media", "prepare", "facts", "captions",
                   "submit", "wait", "poll", "locate", "probe", "video", "audio", "gate", "put",
                   "deliver"} : step \in TryBlock \cup {"deliver"}
  BY DEF TryBlock
<1>d. request.via = "oxylabs" => \A found : FirstFetch(found) \in {"gate", "submit"}
  BY DEF FirstFetch
<1>3. CASE FetchDirect
  <2>1. pc = "direct"
    BY <1>3 DEF FetchDirect
  <2>2. CASE pc' \in {"probe"}
    <3>1. StepsLeft = 18 /\ StepsLeft' \in {17}
      BY <2>1, <2>2 DEF StepsLeft
    <3>2. QED
      BY <3>1, <1>1
  <2>3. CASE pc' = "cleanup"
    BY <2>1, <2>3, <1>2, <1>c
  <2>4. QED
    BY <1>3, <2>2, <2>3, <1>d DEF FetchDirect, Onward, Raise, RaiseWith, IInv, ViaInv
<1>4. CASE CheckHost
  <2>1. pc = "ytdlp" /\ route' = route
    BY <1>4 DEF CheckHost, locals
  <2>2. CASE pc' = "metadata"
    <3>1. StepsLeft = 2 * Routes + 20 /\ StepsLeft' = 2 * (Routes - route) + 19
      BY <2>1, <2>2 DEF StepsLeft
    <3>2. QED
      BY <3>1, <1>1
  <2>3. CASE pc' = "cleanup"
    BY <2>1, <2>3, <1>2, <1>c
  <2>4. QED
    BY <1>4, <2>2, <2>3 DEF CheckHost, Onward, Raise
<1>5. CASE MetadataFails
  <2>1. pc = "metadata"
    BY <1>5 DEF MetadataFails
  <2>2. CASE pc' = "metadata" /\ route' = route + 1
    <3>1. StepsLeft = 2 * (Routes - route) + 19 /\ StepsLeft' = 2 * (Routes - (route + 1)) + 19
      BY <2>1, <2>2 DEF StepsLeft
    <3>2. QED
      BY <3>1, <1>1
  <2>3. CASE pc' = "cleanup"
    BY <2>1, <2>3, <1>2, <1>c
  <2>4. QED
    BY <1>5, <2>2, <2>3 DEF MetadataFails, RouteFails, Onward, Raise
<1>6. CASE MediaFails
  <2>1. pc = "media"
    BY <1>6 DEF MediaFails
  <2>2. CASE pc' = "metadata" /\ route' = route + 1
    <3>1. StepsLeft = 2 * (Routes - route) + 18 /\ StepsLeft' = 2 * (Routes - (route + 1)) + 19
      BY <2>1, <2>2 DEF StepsLeft
    <3>2. QED
      BY <3>1, <1>1
  <2>3. CASE pc' = "cleanup"
    BY <2>1, <2>3, <1>2, <1>c
  <2>4. QED
    BY <1>6, <2>2, <2>3 DEF MediaFails, RouteFails, Onward, Raise
<1>7. CASE MetadataTimesOut
  BY <1>7, <1>a, <1>b, <1>c DEF MetadataTimesOut
<1>8. CASE MetadataRead
  <2>1. pc = "metadata" /\ route' = route
    BY <1>8 DEF MetadataRead
  <2>2. CASE pc' = "media"
    <3>1. StepsLeft = 2 * (Routes - route) + 19 /\ StepsLeft' = 2 * (Routes - route) + 18
      BY <2>1, <2>2 DEF StepsLeft
    <3>2. QED
      BY <3>1, <1>1
  <2>3. CASE pc' = "cleanup"
    BY <2>1, <2>3, <1>2, <1>c
  <2>4. QED
    BY <1>8, <2>2, <2>3 DEF MetadataRead, Onward, RaiseWith
<1>9. CASE MediaTimesOut
  BY <1>9, <1>a, <1>b, <1>c DEF MediaTimesOut
<1>10. CASE MediaFetched
  <2>1. pc = "media"
    BY <1>10 DEF MediaFetched
  <2>2. CASE pc' \in {"probe"}
    <3>1. StepsLeft = 2 * (Routes - route) + 18 /\ StepsLeft' \in {17}
      BY <2>1, <2>2 DEF StepsLeft
    <3>2. QED
      BY <3>1, <1>1
  <2>3. CASE pc' = "cleanup"
    BY <2>1, <2>3, <1>2, <1>c
  <2>4. QED
    BY <1>10, <2>2, <2>3, <1>d DEF MediaFetched, Onward, Raise, RaiseWith, IInv, ViaInv
<1>11. CASE Prepare
  <2>1. pc = "prepare" /\ tries' = tries
    BY <1>11 DEF Prepare, locals
  <2>2. CASE pc' = "facts"
    <3>1. StepsLeft = 28 /\ StepsLeft' = 27 - tries
      BY <2>1, <2>2 DEF StepsLeft
    <3>2. QED
      BY <3>1, <1>1
  <2>3. CASE pc' = "cleanup"
    BY <2>1, <2>3, <1>2, <1>c
  <2>4. QED
    BY <1>11, <2>2, <2>3 DEF Prepare, Onward, Raise
<1>12. CASE FactsRefused
  BY <1>12, <1>a, <1>b, <1>c DEF FactsRefused
<1>13. CASE FactsUnusable
  <2>1. pc = "facts"
    BY <1>13 DEF FactsUnusable
  <2>2. CASE pc' = pc /\ tries' = tries + 1
    <3>1. StepsLeft = 27 - tries /\ StepsLeft' = 27 - (tries + 1)
      BY <2>1, <2>2 DEF StepsLeft
    <3>2. QED
      BY <3>1, <1>1
  <2>3. CASE pc' = "cleanup"
    BY <2>1, <2>3, <1>2, <1>c
  <2>4. QED
    BY <1>13, <2>2, <2>3 DEF FactsUnusable, Raise
<1>14. CASE FactsRead
  <2>1. pc = "facts" /\ request.via = "oxylabs"
    BY <1>14 DEF FactsRead, IInv, ViaInv, OxylabsSteps
  <2>2. CASE pc' \in {"captions", "gate", "submit"}
    <3>1. StepsLeft = 27 - tries /\ StepsLeft' \in {24, 14, 23}
      BY <2>1, <2>2 DEF StepsLeft
    <3>2. QED
      BY <3>1, <1>1
  <2>3. CASE pc' = "cleanup"
    BY <2>1, <2>3, <1>2, <1>c
  <2>4. QED
    BY <1>14, <2>1, <2>2, <2>3, <1>d DEF FactsRead, Onward, RaiseWith
<1>15. CASE CaptionsRefused
  BY <1>15, <1>a, <1>b, <1>c DEF CaptionsRefused
<1>16. CASE CaptionsSettled
  <2>1. pc = "captions" /\ request.via = "oxylabs"
    BY <1>16 DEF CaptionsSettled, IInv, ViaInv, OxylabsSteps
  <2>2. pc' \in {"gate", "submit"}
    BY <1>16, <2>1, <1>d DEF CaptionsSettled, Onward
  <2>3. StepsLeft = 24 /\ StepsLeft' \in {14, 23}
    BY <2>1, <2>2 DEF StepsLeft
  <2>4. QED
    BY <2>3
<1>17. CASE SubmitFails
  BY <1>17, <1>a, <1>b, <1>c DEF SubmitFails
<1>18. CASE Submit
  <2>1. pc = "submit" /\ pc' = "wait"
    BY <1>18 DEF Submit, Onward
  <2>2. StepsLeft = 23 /\ StepsLeft' \in {20, 22}
    BY <2>1 DEF StepsLeft
  <2>3. QED
    BY <2>2
<1>19. CASE WaitTimesOut
  BY <1>19, <1>a, <1>b, <1>c DEF WaitTimesOut
<1>20. CASE StartPoll
  <2>1. pc = "wait" /\ clock = "early" /\ pc' = "poll"
    BY <1>20 DEF StartPoll, TooLateToPoll, Onward
  <2>2. StepsLeft = 22 /\ StepsLeft' = 21
    BY <2>1 DEF StepsLeft
  <2>3. QED
    BY <2>2
<1>21. CASE PollRefused
  BY <1>21, <1>a, <1>b, <1>c DEF PollRefused
<1>22. CASE PollAnswered
  <2>1. pc = "poll" /\ pc' = "locate"
    BY <1>22 DEF PollAnswered, Onward, PolledInVain
  <2>2. StepsLeft = 21 /\ StepsLeft' = 19
    BY <2>1 DEF StepsLeft
  <2>3. QED
    BY <2>2
<1>23. CASE Locate
  <2>1. pc = "locate" /\ pc' = "deliver"
    BY <1>23 DEF Locate, Onward
  <2>2. StepsLeft = 19 /\ StepsLeft' = 18
    BY <2>1 DEF StepsLeft
  <2>3. QED
    BY <2>2
<1>24. CASE LocateFails
  BY <1>24, <1>a, <1>b, <1>c DEF LocateFails
<1>25. CASE Deliver
  <2>1. pc = "deliver"
    BY <1>25 DEF Deliver
  <2>2. CASE pc' \in {"probe"}
    <3>1. StepsLeft = 18 /\ StepsLeft' \in {17}
      BY <2>1, <2>2 DEF StepsLeft
    <3>2. QED
      BY <3>1, <1>1
  <2>3. CASE pc' = "cleanup"
    BY <2>1, <2>3, <1>2, <1>c
  <2>4. QED
    BY <1>25, <2>2, <2>3, <1>d DEF Deliver, Onward, Raise, RaiseWith, IInv, ViaInv
<1>26. CASE Probe
  <2>1. pc = "probe"
    BY <1>26 DEF Probe
  <2>2. CASE pc' \in {"video", "audio", "gate"}
    <3>1. StepsLeft = 17 /\ StepsLeft' \in {16, 15, 14}
      BY <2>1, <2>2 DEF StepsLeft
    <3>2. QED
      BY <3>1, <1>1
  <2>3. CASE pc' = "cleanup"
    BY <2>1, <2>3, <1>2, <1>c
  <2>4. QED
    BY <1>26, <2>2, <2>3, <1>d DEF Probe, Onward, Raise, RaiseWith, IInv, ViaInv
<1>27. CASE ProbeFails
  BY <1>27, <1>a, <1>b, <1>c DEF ProbeFails
<1>28. CASE VideoReady
  <2>1. pc = "video"
    BY <1>28 DEF VideoReady
  <2>2. CASE pc' \in {"audio", "gate"}
    <3>1. StepsLeft = 16 /\ StepsLeft' \in {15, 14}
      BY <2>1, <2>2 DEF StepsLeft
    <3>2. QED
      BY <3>1, <1>1
  <2>3. QED
    BY <1>28, <2>2 DEF VideoReady, Onward
<1>29. CASE VideoFails
  BY <1>29, <1>a, <1>b, <1>c DEF VideoFails
<1>30. CASE AudioReady
  <2>1. pc = "audio"
    BY <1>30 DEF AudioReady
  <2>2. CASE pc' \in {"gate"}
    <3>1. StepsLeft = 15 /\ StepsLeft' \in {14}
      BY <2>1, <2>2 DEF StepsLeft
    <3>2. QED
      BY <3>1, <1>1
  <2>3. QED
    BY <1>30, <2>2 DEF AudioReady, Onward
<1>31. CASE AudioFails
  BY <1>31, <1>a, <1>b, <1>c DEF AudioFails
<1>32. CASE FfmpegTimesOut
  BY <1>32, <1>a, <1>b, <1>c DEF FfmpegTimesOut
<1>33. CASE Gate
  <2>1. pc = "gate" /\ UNCHANGED <<tries, made, sent>>
    BY <1>33 DEF Gate, locals
  <2>2. CASE pc' = "put"
    <3>1. StepsLeft = 14 /\ StepsLeft' = (3 * Cardinality(ToSend) - tries) + 4
      BY <2>1, <2>2 DEF StepsLeft, ToSend
    <3>2. QED
      BY <3>1, <1>1
  <2>3. CASE pc' = "cleanup"
    BY <2>1, <2>3, <1>2, <1>c
  <2>4. QED
    BY <1>33, <2>2, <2>3 DEF Gate, Onward, Raise
<1>34. CASE PutAccepted
  <2>1. PICK out \in First(ToSend) : sent' = sent \cup {out}
    BY <1>34 DEF PutAccepted
  <2>2. pc = "put" /\ pc' = "put" /\ tries' = 0 /\ made' = made
    BY <1>34 DEF PutAccepted
  <2>3. out \in ToSend /\ ToSend' = ToSend \ {out}
    BY <2>1, <2>2 DEF First, ToSend
  <2>4. Cardinality(ToSend') = Cardinality(ToSend) - 1
    BY <2>3, <1>1, FS_RemoveElement
  <2>5. /\ StepsLeft = (3 * Cardinality(ToSend) - tries) + 4
        /\ StepsLeft' = (3 * Cardinality(ToSend') - 0) + 4
    BY <2>2 DEF StepsLeft
  <2>6. QED
    BY <2>4, <2>5, <1>1
<1>35. CASE PutUnanswered
  <2>1. pc = "put" /\ UNCHANGED <<made, sent>>
    BY <1>35 DEF PutUnanswered
  <2>2. CASE pc' = pc /\ tries' = tries + 1
    <3>1. /\ StepsLeft = (3 * Cardinality(ToSend) - tries) + 4
          /\ StepsLeft' = (3 * Cardinality(ToSend) - (tries + 1)) + 4
      BY <2>1, <2>2 DEF StepsLeft, ToSend
    <3>2. QED
      BY <3>1, <1>1
  <2>3. CASE pc' = "cleanup"
    BY <2>1, <2>3, <1>2, <1>c
  <2>4. QED
    BY <1>35, <2>2, <2>3 DEF PutUnanswered, Raise
<1>36. CASE PutRefused
  BY <1>36, <1>a, <1>b, <1>c DEF PutRefused
<1>37. CASE Report
  BY <1>37, <1>2, <1>c DEF Report
<1>38. CASE Crash
  BY <1>38, <1>a DEF Crash
<1>39. CASE Cleanup
  BY <1>39 DEF Cleanup, StepsLeft
<1>40. QED
  BY <1>3, <1>4, <1>5, <1>6, <1>7, <1>8, <1>9, <1>10, <1>11, <1>12, <1>13, <1>14, <1>15, <1>16, <1>17, <1>18, <1>19, <1>20, <1>21, <1>22, <1>23, <1>24, <1>25, <1>26, <1>27, <1>28, <1>29, <1>30, <1>31, <1>32, <1>33, <1>34, <1>35, <1>36, <1>37, <1>38, <1>39 DEF Step

\* The job has an end, but for one loop: each step, an exception too, counts down
\* from a bound that only the number of routes enters, so no route is tried twice
\* and no query, upload or fetch starts over.  Polling Oxylabs may go round, while
\* the deadline is far; once it is near, the job goes round no more (wait() in
\* oxylabs.py, the route loop of ytdlp.py, upload()).
THEOREM StepsRunOut ==
    Spec => /\ [](StepsLeft \in 0..(2 * Routes + 28))
            /\ [][(Step \/ Crash) =>
                     \/ StepsLeft' < StepsLeft
                     \/ PolledInVain /\ clock = "early"]_vars
            /\ [][ClockAdvances \/ RemoteStep => StepsLeft' <= StepsLeft]_vars
<1> DEFINE down == (Step \/ Crash) =>
                     \/ StepsLeft' < StepsLeft
                     \/ PolledInVain /\ clock = "early"
           still == ClockAdvances \/ RemoteStep => StepsLeft' <= StepsLeft
<1>1. IInv => StepsLeft \in 0..(2 * Routes + 28)
  BY StepsLeftType DEF IInv
<1>2. IInv /\ [Next]_vars => [down]_vars
  <2>1. ASSUME IInv, PolledInVain, Step \/ Crash
        PROVE  StepsLeft' < StepsLeft \/ clock = "early"
    <3>0. clock' = "early" => clock = "early"
      <4>1. Step
        BY <2>1 DEF PolledInVain, Crash, Raise
      <4>2. clock' = clock \/ clock' = "late"
        BY <4>1 DEF Step, FetchDirect, CheckHost, MetadataFails, MetadataTimesOut, MetadataRead,
           MediaFails, MediaTimesOut, MediaFetched, Prepare, FactsRefused, FactsUnusable,
           FactsRead, CaptionsRefused, CaptionsSettled, SubmitFails, Submit, WaitTimesOut,
           StartPoll, PollRefused, PollAnswered, Locate, LocateFails, Deliver, Probe,
           ProbeFails, VideoReady, VideoFails, AudioReady, AudioFails, FfmpegTimesOut, Gate,
           PutAccepted, PutUnanswered, PutRefused, Report, Cleanup
      <4>3. QED
        BY <4>2
    <3>1. CASE clock' = "early"
      BY <3>0, <3>1
    <3>2. CASE clock' # "early"
      <4>1. StepsLeft = 21 /\ StepsLeft' = 20
        BY <2>1, <3>2 DEF PolledInVain, StepsLeft
      <4>2. QED
        BY <4>1
    <3>3. QED
      BY <3>1, <3>2
  <2>2. QED
    BY <2>1, StepCounts
<1>3. IInv /\ [Next]_vars => [still]_vars
  <2> SUFFICES ASSUME IInv, ClockAdvances \/ RemoteStep PROVE StepsLeft' <= StepsLeft
    OBVIOUS
  <2>1. StepsLeft \in Int
    <3>1. Routes \in Nat /\ StepsLeft \in 0..(2 * Routes + 28)
      BY <1>1, RoutesAssumption
    <3>2. QED
      BY <3>1
  <2>2. UNCHANGED <<pc, route, tries, made, sent>> /\ (clock' = "early" => clock = "early")
    BY DEF ClockAdvances, RemoteStep, locals, facts
  <2>3. CASE pc = "wait"
    <3>1. \/ StepsLeft = 22 /\ StepsLeft' \in {20, 22}
          \/ StepsLeft = 20 /\ StepsLeft' = 20
      BY <2>2, <2>3 DEF StepsLeft
    <3>2. QED
      BY <3>1
  <2>4. CASE pc # "wait"
    <3>1. StepsLeft' = StepsLeft
      BY <2>2, <2>4 DEF StepsLeft, ToSend
    <3>2. QED
      BY <2>1, <3>1
  <2>5. QED
    BY <2>3, <2>4
<1>4. QED
  BY <1>1, <1>2, <1>3, Invariance, PTL DEF Spec
=============================================================================
