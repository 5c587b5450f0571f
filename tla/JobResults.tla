----------------------------- MODULE JobResults -----------------------------
(***************************************************************************)
(* The values a job's caller sees: results with their failure block, and   *)
(* the objects a job stores behind its presigned URLs.                     *)
(***************************************************************************)

\* README 4.3: the codes a failure may carry.
ErrorCodes == {"UNSUPPORTED_VERSION", "INVALID_JOB", "SOURCE_HOST_NOT_ALLOWED",
               "DOWNLOAD_FAILED", "INPUT_TOO_LARGE", "UNSUPPORTED_INPUT",
               "PROBE_FAILED", "DURATION_TOO_LONG", "ENCODE_FAILED",
               "UPLOAD_FAILED", "TIMEOUT", "INTERNAL", "SOURCE_BLOCKED",
               "SOURCE_UNAVAILABLE"}

\* A JobError, as far as the caller sees it (errors.py).
JobErrors == [code : ErrorCodes, retryable : BOOLEAN]

JobError(code, retryable) == [code |-> code, retryable |-> retryable]

\* The fields of a result the properties tell apart; source and thumbnail say
\* whether that block is present.
Results == [status    : {"none", "completed", "unchanged", "failed"},
            code      : ErrorCodes \cup {"none"},
            retryable : BOOLEAN,
            source    : BOOLEAN,
            thumbnail : BOOLEAN]

Result(status, code, retryable, source, thumbnail) ==
    [status |-> status, code |-> code, retryable |-> retryable,
     source |-> source, thumbnail |-> thumbnail]

NoResult == Result("none", "none", FALSE, FALSE, FALSE)

\* "good" is a file that meets the rules of the job, "bad" any other file.
Objects == [output : {"absent", "good", "bad"}, thumbnail : {"absent", "good"}]

Nothing == [output |-> "absent", thumbnail |-> "absent"]

\* A result agrees with the bucket when "completed" has a good output there,
\* "unchanged" has none, a thumbnail is reported exactly when it is stored, and
\* a failure the caller must not retry has left no object behind.
Agrees(res, objects) ==
    /\ res.status # "none"
    /\ res.status = "completed" => objects.output = "good"
    /\ res.status = "unchanged" => objects.output = "absent"
    /\ res.status \in {"completed", "unchanged"} =>
          (res.thumbnail <=> objects.thumbnail = "good")
    /\ res.status = "failed" =>
          /\ ~ res.thumbnail
          /\ objects.output # "bad"
          /\ ~ res.retryable => objects = Nothing
=============================================================================
