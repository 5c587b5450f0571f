---------------------------- MODULE ClipJobProofs ----------------------------
(***************************************************************************)
(* Proofs about ClipJob, for any number of clips, with and without a GPU.  *)
(***************************************************************************)
EXTENDS ClipJob, FiniteSetTheorems, TLAPS

Ended == pc \in {"cleanup", "returned"}

InClip == TryBlock \ {"fetch", "probe", "next"}

\* The clips before the current one have their entries, the others none.
ClipInv ==
    /\ pc \in {"fetch", "probe"} => clip = 1
    /\ pc \in InClip => clip \in Clips
    /\ \A c \in Clips : entries[c] # NoResult <=> c < clip
    /\ \A c \in Clips : c < clip => entries[c].status \in {"completed", "failed"}

MadeInv ==
    /\ pc = "postcheck" => made \in {"good", "bad"}
    /\ pc \in {"thumbnail", "gate", "putOutput", "putThumbnail", "finish"} => made = "good"

\* What is stored of each clip, at each step of the current one.
StoreInv ==
    /\ \A c \in Clips : c < clip => Agrees(entries[c], store[c])
    /\ \A c \in Clips : c > clip => store[c] = Nothing
    /\ pc \in TryBlock \ {"putOutput", "putThumbnail", "finish"} =>
          \A c \in Clips : c = clip => store[c] = Nothing
    /\ pc = "putOutput" => store[clip].output # "bad" /\ store[clip].thumbnail = "absent"
    /\ pc = "putThumbnail" => shot /\ store[clip].output = "good"
    /\ pc = "finish" =>
          store[clip].output = "good" /\ (store[clip].thumbnail = "good" <=> shot)

ResultInv ==
    /\ ~ Ended => result = NoJobResult
    /\ result.clips => Ended /\ clip = N + 1 /\ result = Summary

\* A rung that works failed by accident in the clip the loop is at or an earlier one.
Failed(r) == \E k \in 1..clip : <<k, r>> \in accidents

\* The ladder loses no rung that works but after an accident, and never its last.
LadderInv ==
    /\ pc \in InClip \cup {"next"} =>
          /\ LastRung \in ladder
          /\ works \subseteq Rungs
          /\ \A r \in works : r \in ladder \/ Failed(r)
          /\ \A r \in ladder : Rank[r] <= Rank[LastRung]
    /\ pc = "encode" => rungs = ladder
    /\ pc \in {"window", "captions", "encode"} => made = "none"

IInv ==
    /\ TypeOK
    /\ ClipInv
    /\ MadeInv
    /\ StoreInv
    /\ ResultInv
    /\ LadderInv
    /\ NoRungLostUntried

(***************************************************************************)
(* Errors and entries.                                                     *)
(***************************************************************************)
LEMMA JobErrorType ==
    ASSUME NEW code \in ErrorCodes, NEW retryable \in BOOLEAN
    PROVE  /\ JobError(code, retryable) \in JobErrors
           /\ JobError(code, retryable).code = code
           /\ JobError(code, retryable).retryable = retryable
BY DEF JobError, JobErrors

LEMMA ErrorTypes == ProbeErrors \subseteq JobErrors /\ FetchErrors \subseteq JobErrors
<1>1. /\ \A code \in ErrorCodes : /\ JobError(code, TRUE) \in JobErrors
                                  /\ JobError(code, FALSE) \in JobErrors
  BY JobErrorType
<1>2. QED
  BY <1>1 DEF ProbeErrors, FetchErrors, ErrorCodes

LEMMA ResultFields ==
    ASSUME NEW status \in {"completed", "failed"}, NEW code \in ErrorCodes \cup {"none"},
           NEW retryable \in BOOLEAN, NEW thumbnail \in BOOLEAN
    PROVE  /\ Result(status, code, retryable, FALSE, thumbnail) \in Results
           /\ Result(status, code, retryable, FALSE, thumbnail).status = status
           /\ Result(status, code, retryable, FALSE, thumbnail) # NoResult
<1> DEFINE res == Result(status, code, retryable, FALSE, thumbnail)
<1>1. res \in Results
  BY DEF Result, Results
<1>2. res.status = status
  BY DEF Result
<1>3. NoResult.status = "none"
  BY DEF NoResult, Result
<1>4. res # NoResult
  BY <1>2, <1>3
<1>5. QED
  BY <1>1, <1>2, <1>4

\* The entry of the current clip is written: a success, or a failure that is
\* final only while nothing is being stored.
Settles(res) ==
    /\ pc \in InClip /\ pc' = "next"
    /\ clip' = clip + 1
    /\ entries' = [entries EXCEPT ![clip] = res]
    /\ UNCHANGED <<store, result>>
    /\ res # NoResult
    /\ \/ /\ pc = "finish"
          /\ res.status = "completed"
          /\ res.thumbnail = shot
       \/ /\ pc # "finish"
          /\ res.status = "failed"
          /\ res.thumbnail = FALSE
          /\ res.retryable \in BOOLEAN
          /\ Putting => res.retryable = TRUE

LEMMA FailClipSettles ==
    ASSUME NEW err \in JobErrors, FailClip(err), UNCHANGED store, pc \in InClip \ {"finish"},
           Putting => err.retryable = TRUE
    PROVE  \E res \in Results : Settles(res)
<1> DEFINE res == Result("failed", err.code, err.retryable, FALSE, FALSE)
<1>1. err.code \in ErrorCodes /\ err.retryable \in BOOLEAN
  BY DEF JobErrors
<1>2. res \in Results /\ res.status = "failed" /\ res # NoResult
  BY <1>1, ResultFields
<1>5. res.thumbnail = FALSE /\ res.retryable = err.retryable
  BY DEF Result
<1>3. entries' = [entries EXCEPT ![clip] = res] /\ clip' = clip + 1 /\ pc' = "next" /\ result' = result
  BY DEF FailClip
<1> HIDE DEF res
<1>4. Settles(res)
  BY <1>1, <1>2, <1>3, <1>5 DEF Settles
<1>6. QED
  BY <1>2, <1>4

LEMMA EntryStep ==
    ASSUME TypeOK, [Next]_vars
    PROVE  UNCHANGED <<entries, clip>> \/ \E res \in Results : Settles(res)
<1> DEFINE goal == UNCHANGED <<entries, clip>> \/ \E res \in Results : Settles(res)
<1> SUFFICES goal
  OBVIOUS
<1>1. \A code \in ErrorCodes : /\ JobError(code, TRUE) \in JobErrors
                               /\ JobError(code, FALSE) \in JobErrors
                               /\ JobError(code, TRUE).retryable = TRUE
  BY JobErrorType
<1>2. {"INVALID_JOB", "TIMEOUT", "INTERNAL", "ENCODE_FAILED", "UPLOAD_FAILED"} \subseteq ErrorCodes
  BY DEF ErrorCodes
<1>3. CASE RefuseClip
  BY <1>1, <1>2, <1>3, FailClipSettles DEF RefuseClip, InClip, TryBlock, Putting
<1>4. CASE CaptionsRefused
  BY <1>1, <1>2, <1>4, FailClipSettles DEF CaptionsRefused, InClip, TryBlock, Putting
<1>5. CASE EncodeExitsNonzero
  BY <1>1, <1>2, <1>5, FailClipSettles DEF EncodeExitsNonzero, Onward, InClip, TryBlock, Putting
<1>6. CASE EncodeTimesOut
  BY <1>1, <1>2, <1>6, FailClipSettles DEF EncodeTimesOut, InClip, TryBlock, Putting
<1>7. CASE PostCheck
  BY <1>1, <1>2, <1>7, ErrorTypes, FailClipSettles DEF PostCheck, Onward, InClip, TryBlock, Putting
<1>8. CASE Gate
  BY <1>1, <1>2, <1>8, FailClipSettles DEF Gate, Onward, InClip, TryBlock, Putting
<1>9. CASE PutGivenUp
  BY <1>1, <1>2, <1>9, FailClipSettles DEF PutGivenUp, InClip, TryBlock, Putting
<1>10. CASE PutRefused
  BY <1>1, <1>2, <1>10, FailClipSettles DEF PutRefused, PutsLeft, InClip, TryBlock, Putting
<1>11. CASE FinishClip
  <2> DEFINE res == Result("completed", "none", FALSE, FALSE, shot)
  <2>1. res \in Results /\ res.status = "completed" /\ res # NoResult
    <3>1. shot \in BOOLEAN
      BY DEF TypeOK
    <3>2. res \in Results
      BY <3>1 DEF Result, Results
    <3>3. res.status = "completed" /\ NoResult.status = "none"
      BY DEF Result, NoResult
    <3>4. QED
      BY <3>2, <3>3
  <2>5. res.thumbnail = shot
    BY DEF Result
  <2> HIDE DEF res
  <2>2. /\ entries' = [entries EXCEPT ![clip] = res] /\ clip' = clip + 1 /\ pc' = "next"
        /\ pc = "finish" /\ UNCHANGED <<store, result>>
    BY <1>11 DEF FinishClip, res
  <2>3. Settles(res)
    BY <2>1, <2>2, <2>5 DEF Settles, InClip, TryBlock
  <2>4. QED
    BY <2>1, <2>3
<1>12. CASE Fetch \/ Probe \/ NextClip \/ StartClip \/ Summarise \/ AskFilter \/ CaptionsReady
            \/ EncodeExitsZero \/ Thumbnail \/ PutAccepted \/ PutUnanswered \/ Cleanup
            \/ Crash \/ DeadlinePasses \/ UNCHANGED vars
  BY <1>12 DEF Fetch, Probe, NextClip, StartClip, Summarise, AskFilter, CaptionsReady,
     EncodeExitsZero, Thumbnail, PutAccepted, PutUnanswered, Cleanup, Crash,
     DeadlinePasses, vars, Onward, FailJob
<1>13. QED
  BY <1>3, <1>4, <1>5, <1>6, <1>7, <1>8, <1>9, <1>10, <1>11, <1>12 DEF Next, Step, Done

LEMMA InvInitially == Init => IInv
<1> SUFFICES ASSUME Init PROVE IInv
  OBVIOUS
<1>1. N \in Nat /\ N >= 1
  BY ClipsAssumption
<1>2. NoResult \in Results /\ Nothing \in Objects
  BY DEF NoResult, Result, Results, Nothing, Objects
<1>3. NoJobResult \in [status : {"none", "completed", "partial", "failed"},
                       code : ErrorCodes \cup {"none"}, retryable : BOOLEAN, clips : BOOLEAN]
      /\ NoJobResult.clips = FALSE
  BY DEF NoJobResult, JobResult
<1>4. clip \in 1..(N + 1) /\ tries \in 0..Attempts
  BY <1>1 DEF Init, Attempts
<1>5. late \in BOOLEAN /\ shot \in BOOLEAN
  BY DEF Init
<1>6. /\ pc \in TryBlock /\ entries \in [Clips -> Results] /\ ladder \subseteq Rungs
      /\ rungs \subseteq Rungs /\ made \in {"none", "good", "bad"}
      /\ filter \in {"unknown", "yes", "no"} /\ store \in [Clips -> Objects]
      /\ works \subseteq Rungs /\ accidents \subseteq Clips \X Rungs
  BY <1>2 DEF Init, TryBlock
<1>7. TypeOK
  BY <1>3, <1>4, <1>5, <1>6 DEF TypeOK, Init
<1>8. ClipInv /\ StoreInv
  BY <1>1 DEF Init, ClipInv, StoreInv, InClip, TryBlock, Clips
<1>9. MadeInv /\ ResultInv /\ LadderInv /\ NoRungLostUntried
  BY <1>3 DEF Init, MadeInv, ResultInv, LadderInv, NoRungLostUntried, InClip, Ended
<1>10. QED
  BY <1>7, <1>8, <1>9 DEF IInv

LEMMA RankValues == Rank["cuda"] = 1 /\ Rank["configured"] = 2 /\ Rank["libx264"] = 3
BY DEF Rank

LEMMA BestIsBest ==
    ASSUME NEW attempts \in SUBSET Rungs, attempts # {}
    PROVE  /\ Best(attempts) \in attempts
           /\ \A other \in attempts : Rank[Best(attempts)] <= Rank[other]
<1>1. \E r \in attempts : \A other \in attempts : Rank[r] <= Rank[other]
  <2>1. CASE "cuda" \in attempts
    <3>1. \A other \in attempts : Rank["cuda"] <= Rank[other]
      BY RankValues DEF Rungs
    <3>2. QED
      BY <2>1, <3>1
  <2>2. CASE "cuda" \notin attempts /\ "configured" \in attempts
    <3>1. \A other \in attempts : other = "configured" \/ other = "libx264"
      BY <2>2 DEF Rungs
    <3>2. \A other \in attempts : Rank["configured"] <= Rank[other]
      BY <3>1, RankValues
    <3>3. QED
      BY <2>2, <3>2
  <2>3. CASE "cuda" \notin attempts /\ "configured" \notin attempts
    <3>1. attempts = {"libx264"}
      BY <2>3 DEF Rungs
    <3>2. QED
      BY <3>1, RankValues
  <2>4. QED
    BY <2>1, <2>2, <2>3
<1>2. QED
  BY <1>1, Zenon DEF Best

\* No two rungs have the same rank.
LEMMA RankOrder ==
    /\ \A r \in Rungs : Rank[r] \in Nat
    /\ \A r, other \in Rungs : Rank[r] = Rank[other] => r = other
BY DEF Rungs, Rank

(***************************************************************************)
(* Type correctness.                                                       *)
(***************************************************************************)
LEMMA ClipStep == TypeOK /\ ClipInv /\ [Next]_vars => ClipInv'
<1> SUFFICES ASSUME TypeOK, ClipInv, [Next]_vars PROVE ClipInv'
  OBVIOUS
<1>0. N \in Nat /\ clip \in Nat
  BY ClipsAssumption DEF TypeOK
<1>1. (pc \in InClip => clip \in Clips)'
  <2>1. CASE NextClip
    BY <2>1 DEF NextClip, Onward
  <2>2. CASE ~ NextClip /\ pc' \in InClip
    <3>1. pc' # "next"
      BY <2>2 DEF InClip
    <3>2. clip' = clip
      BY <3>1, EntryStep DEF Settles
    <3>3. pc \in InClip
      BY <2>2 DEF InClip, TryBlock, Next, Step, Done, vars, Putting, PutsLeft, Onward,
         FailClip, FailJob, Fetch, Probe, StartClip, RefuseClip, Summarise, AskFilter,
         CaptionsRefused, CaptionsReady, EncodeExitsZero, EncodeExitsNonzero,
         EncodeTimesOut, PostCheck, Thumbnail, Gate, PutAccepted, PutUnanswered,
         PutGivenUp, PutRefused, FinishClip, Cleanup, Crash, DeadlinePasses
    <3>4. QED
      BY <3>2, <3>3 DEF ClipInv
  <2>3. QED
    BY <2>1, <2>2
<1>5. (pc \in {"fetch", "probe"} => clip = 1)'
  <2>1. pc' \in {"fetch", "probe"} => pc \in {"fetch", "probe"}
    BY DEF Next, Step, Done, vars, Onward, FailClip, FailJob, Fetch, Probe, NextClip,
       StartClip, RefuseClip, Summarise, AskFilter, CaptionsRefused, CaptionsReady,
       EncodeExitsZero, EncodeExitsNonzero, EncodeTimesOut, PostCheck, Thumbnail, Gate,
       PutAccepted, PutUnanswered, PutGivenUp, PutRefused, FinishClip, Cleanup, Crash,
       DeadlinePasses
  <2>2. pc' \in {"fetch", "probe"} => clip' = clip
    BY EntryStep DEF Settles
  <2>3. QED
    BY <2>1, <2>2 DEF ClipInv
<1>2. CASE UNCHANGED <<entries, clip>>
  BY <1>1, <1>2, <1>5 DEF ClipInv
<1>3. ASSUME NEW res \in Results, Settles(res) PROVE ClipInv'
  <2>1. /\ clip \in Clips /\ entries' = [entries EXCEPT ![clip] = res] /\ clip' = clip + 1
        /\ res # NoResult /\ res.status \in {"completed", "failed"}
    BY <1>3 DEF Settles, ClipInv
  <2>2. \A c \in Clips : entries'[c] = IF c = clip THEN res ELSE entries[c]
    BY <2>1 DEF TypeOK
  <2>3. \A c \in Clips : c \in Nat /\ (c < clip + 1 <=> c < clip \/ c = clip)
    BY <1>0 DEF Clips
  <2>4. QED
    BY <1>1, <1>5, <2>1, <2>2, <2>3 DEF ClipInv
<1>4. QED
  BY <1>2, <1>3, EntryStep

LEMMA SummaryType ==
    ASSUME TypeOK
    PROVE  /\ Summary \in [status : {"none", "completed", "partial", "failed"},
                           code : ErrorCodes \cup {"none"}, retryable : BOOLEAN,
                           clips : BOOLEAN]
           /\ Summary.clips
<1>1. 1 \in Clips
  BY ClipsAssumption DEF Clips
<1>2. entries[1].code \in ErrorCodes \cup {"none"} /\ entries[1].retryable \in BOOLEAN
  BY <1>1 DEF TypeOK, Results
<1>3. QED
  BY <1>2 DEF Summary, JobResult

LEMMA TypeStep == TypeOK /\ ClipInv /\ MadeInv /\ [Next]_vars => TypeOK'
<1> SUFFICES ASSUME TypeOK, ClipInv, MadeInv, [Next]_vars PROVE TypeOK'
  OBVIOUS
<1> USE DEF Next, Step, Done, vars
<1>0. N \in Nat /\ N >= 1
  BY ClipsAssumption
<1>1. (pc \in TryBlock \cup {"cleanup", "returned"})'
  BY DEF TypeOK, TryBlock, Onward, FailClip, FailJob, Fetch, Probe, NextClip, StartClip,
     RefuseClip, Summarise, AskFilter, CaptionsRefused, CaptionsReady, EncodeExitsZero,
     EncodeExitsNonzero, EncodeTimesOut, PostCheck, Thumbnail, Gate, PutAccepted,
     PutUnanswered, PutGivenUp, PutRefused, FinishClip, Cleanup, Crash, DeadlinePasses
<1>2. (late \in BOOLEAN)'
  BY DEF TypeOK, Fetch, Probe, NextClip, StartClip, RefuseClip, Summarise, AskFilter,
     CaptionsRefused, CaptionsReady, EncodeExitsZero, EncodeExitsNonzero,
     EncodeTimesOut, PostCheck, Thumbnail, Gate, PutAccepted, PutUnanswered, PutGivenUp,
     PutRefused, FinishClip, Cleanup, Crash, DeadlinePasses
<1>3. (clip \in 1..(N + 1))'
  <2>1. CASE UNCHANGED <<entries, clip>>
    BY <2>1 DEF TypeOK
  <2>2. ASSUME NEW res \in Results, Settles(res) PROVE clip' \in 1..(N + 1)
    BY <1>0, <2>2 DEF Settles, ClipInv, Clips
  <2>3. QED
    BY <2>1, <2>2, EntryStep
<1>4. (entries \in [Clips -> Results])'
  BY EntryStep DEF TypeOK, Settles
<1>5. (ladder \subseteq Rungs)'
  BY DEF TypeOK, FullLadder, Drop, Rungs, Fetch, Probe, NextClip, StartClip, RefuseClip,
     Summarise, AskFilter, CaptionsRefused, CaptionsReady, EncodeExitsZero,
     EncodeExitsNonzero, EncodeTimesOut, PostCheck, Thumbnail, Gate, PutAccepted,
     PutUnanswered, PutGivenUp, PutRefused, FinishClip, Cleanup, Crash, DeadlinePasses
<1>6. (rungs \subseteq Rungs)'
  BY DEF TypeOK, Fetch, Probe, NextClip, StartClip, RefuseClip, Summarise, AskFilter,
     CaptionsRefused, CaptionsReady, EncodeExitsZero, EncodeExitsNonzero,
     EncodeTimesOut, PostCheck, Thumbnail, Gate, PutAccepted, PutUnanswered, PutGivenUp,
     PutRefused, FinishClip, Cleanup, Crash, DeadlinePasses
<1>7. (made \in {"none", "good", "bad"})'
  BY DEF TypeOK, Fetch, Probe, NextClip, StartClip, RefuseClip, Summarise, AskFilter,
     CaptionsRefused, CaptionsReady, EncodeExitsZero, EncodeExitsNonzero,
     EncodeTimesOut, PostCheck, Thumbnail, Gate, PutAccepted, PutUnanswered, PutGivenUp,
     PutRefused, FinishClip, Cleanup, Crash, DeadlinePasses
<1>8. (shot \in BOOLEAN)'
  BY DEF TypeOK, Fetch, Probe, NextClip, StartClip, RefuseClip, Summarise, AskFilter,
     CaptionsRefused, CaptionsReady, EncodeExitsZero, EncodeExitsNonzero,
     EncodeTimesOut, PostCheck, Thumbnail, Gate, PutAccepted, PutUnanswered, PutGivenUp,
     PutRefused, FinishClip, Cleanup, Crash, DeadlinePasses
<1>9. (tries \in 0..Attempts)'
  <2>1. Attempts = 3
    BY DEF Attempts
  <2>2. CASE PutUnanswered
    BY <2>1, <2>2 DEF PutUnanswered, PutsLeft, TypeOK
  <2>3. CASE NextClip \/ PutAccepted
    BY <2>1, <2>3 DEF NextClip, PutAccepted
  <2>4. CASE ~ (PutUnanswered \/ NextClip \/ PutAccepted)
    BY <2>4 DEF TypeOK, Fetch, Probe, StartClip, RefuseClip, Summarise, AskFilter,
       CaptionsRefused, CaptionsReady, EncodeExitsZero, EncodeExitsNonzero,
       EncodeTimesOut, PostCheck, Thumbnail, Gate, PutGivenUp, PutRefused, FinishClip,
       Cleanup, Crash, DeadlinePasses
  <2>5. QED
    BY <2>2, <2>3, <2>4
<1>10. (filter \in {"unknown", "yes", "no"})'
  BY DEF TypeOK, Fetch, Probe, NextClip, StartClip, RefuseClip, Summarise, AskFilter,
     CaptionsRefused, CaptionsReady, EncodeExitsZero, EncodeExitsNonzero,
     EncodeTimesOut, PostCheck, Thumbnail, Gate, PutAccepted, PutUnanswered, PutGivenUp,
     PutRefused, FinishClip, Cleanup, Crash, DeadlinePasses
<1>11. (store \in [Clips -> Objects])'
  <2>1. CASE UNCHANGED store
    BY <2>1 DEF TypeOK
  <2>2. CASE (PutAccepted \/ PutUnanswered) /\ Stored
    <3>1. clip \in Clips /\ made \in {"none", "good", "bad"} /\ store[clip] \in Objects
          /\ (pc = "putOutput" => made = "good")
      BY <2>2 DEF PutAccepted, PutUnanswered, PutsLeft, Putting, ClipInv, InClip, TryBlock,
         TypeOK, MadeInv
    <3>2. [store[clip] EXCEPT !.thumbnail = "good"] \in Objects
          /\ (pc = "putOutput" => [store[clip] EXCEPT !.output = made] \in Objects)
      BY <3>1 DEF Objects
    <3>3. QED
      BY <2>2, <3>1, <3>2 DEF Stored, PutAccepted, PutUnanswered, PutsLeft, Putting, TypeOK
  <2>3. QED
    BY <2>1, <2>2 DEF Fetch, Probe, NextClip, StartClip, RefuseClip, Summarise,
       AskFilter, CaptionsRefused, CaptionsReady, EncodeExitsZero, EncodeExitsNonzero,
       EncodeTimesOut, PostCheck, Thumbnail, Gate, PutAccepted, PutUnanswered,
       PutGivenUp, PutRefused, FinishClip, Cleanup, Crash, DeadlinePasses
<1>12. (result \in [status : {"none", "completed", "partial", "failed"},
                    code : ErrorCodes \cup {"none"}, retryable : BOOLEAN, clips : BOOLEAN])'
  <2>1. ASSUME NEW err \in JobErrors, FailJob(err)
        PROVE  result' \in [status : {"none", "completed", "partial", "failed"},
                            code : ErrorCodes \cup {"none"}, retryable : BOOLEAN,
                            clips : BOOLEAN]
    BY <2>1 DEF FailJob, JobResult, JobErrors
  <2>2. JobError("INTERNAL", TRUE) \in JobErrors
    BY JobErrorType DEF ErrorCodes
  <2>3. CASE Fetch \/ Probe \/ Crash
    BY <2>1, <2>2, <2>3, ErrorTypes DEF Fetch, Probe, Crash, Onward, TypeOK
  <2>4. CASE Summarise
    BY <2>4, SummaryType DEF Summarise
  <2>5. CASE ~ (Fetch \/ Probe \/ Crash \/ Summarise)
    BY <2>5 DEF TypeOK, Onward, FailClip, NextClip, StartClip, RefuseClip, AskFilter,
       CaptionsRefused, CaptionsReady, EncodeExitsZero, EncodeExitsNonzero,
       EncodeTimesOut, PostCheck, Thumbnail, Gate, PutAccepted, PutUnanswered,
       PutGivenUp, PutRefused, FinishClip, Cleanup, DeadlinePasses
  <2>6. QED
    BY <2>3, <2>4, <2>5
<1>13. (works \subseteq Rungs)'
  BY DEF TypeOK, FullLadder, Rungs, Fetch, Probe, NextClip, StartClip, RefuseClip,
     Summarise, AskFilter, CaptionsRefused, CaptionsReady, EncodeExitsZero,
     EncodeExitsNonzero, EncodeTimesOut, PostCheck, Thumbnail, Gate, PutAccepted,
     PutUnanswered, PutGivenUp, PutRefused, FinishClip, Cleanup, Crash, DeadlinePasses
<1>14. (accidents \subseteq Clips \X Rungs)'
  <2>1. CASE EncodeExitsNonzero
    <3>1. clip \in Clips
      BY <2>1 DEF EncodeExitsNonzero, ClipInv, InClip, TryBlock
    <3>2. \/ accidents' = accidents
          \/ Best(rungs) \in works /\ accidents' = accidents \cup {<<clip, Best(rungs)>>}
      BY <2>1 DEF EncodeExitsNonzero
    <3>3. QED
      BY <3>1, <3>2 DEF TypeOK
  <2>2. CASE ~ EncodeExitsNonzero
    <3>1. accidents' = accidents
      BY <2>2 DEF Fetch, Probe, NextClip, StartClip, RefuseClip, Summarise, AskFilter,
         CaptionsRefused, CaptionsReady, EncodeExitsZero, EncodeTimesOut, PostCheck,
         Thumbnail, Gate, PutAccepted, PutUnanswered, PutGivenUp, PutRefused, FinishClip,
         Cleanup, Crash, DeadlinePasses
    <3>2. QED
      BY <3>1 DEF TypeOK
  <2>3. QED
    BY <2>1, <2>2
<1>15. QED
  BY <1>1, <1>2, <1>3, <1>4, <1>5, <1>6, <1>7, <1>8, <1>9, <1>10, <1>11, <1>12, <1>13,
     <1>14 DEF TypeOK

LEMMA MadeStep == TypeOK /\ MadeInv /\ [Next]_vars => MadeInv'
<1> SUFFICES ASSUME TypeOK, MadeInv, [Next]_vars PROVE MadeInv'
  OBVIOUS
<1> USE DEF Next, Step, Done, vars
<1> DEFINE verified == {"thumbnail", "gate", "putOutput", "putThumbnail", "finish"}
<1>1. CASE NextClip
  BY <1>1 DEF NextClip, Onward, MadeInv
<1>2. CASE EncodeExitsZero
  BY <1>2 DEF EncodeExitsZero, Onward, MadeInv
<1>3. CASE PostCheck
  BY <1>3 DEF PostCheck, PostCheckPasses, Onward, FailClip, MadeInv
<1>4. CASE ~ (NextClip \/ EncodeExitsZero \/ PostCheck)
  <2>1. made' = made
    BY <1>4 DEF Fetch, Probe, StartClip, RefuseClip, Summarise, AskFilter,
       CaptionsRefused, CaptionsReady, EncodeExitsNonzero, EncodeTimesOut, Thumbnail,
       Gate, PutAccepted, PutUnanswered, PutGivenUp, PutRefused, FinishClip, Cleanup,
       Crash, DeadlinePasses
  <2>2. /\ pc' = "postcheck" => pc = "postcheck"
        /\ pc' \in verified => pc \in verified
    BY <1>4 DEF Putting, PutsLeft, Onward, FailClip, FailJob, Fetch, Probe, StartClip,
       RefuseClip, Summarise, AskFilter, CaptionsRefused, CaptionsReady,
       EncodeExitsNonzero, EncodeTimesOut, Thumbnail, Gate, PutAccepted, PutUnanswered,
       PutGivenUp, PutRefused, FinishClip, Cleanup, Crash, DeadlinePasses
  <2>3. QED
    BY <2>1, <2>2 DEF MadeInv
<1>5. QED
  BY <1>1, <1>2, <1>3, <1>4

(***************************************************************************)
(* What is stored, and the result.                                         *)
(***************************************************************************)
LEMMA StoreStep ==
    TypeOK /\ ClipInv /\ MadeInv /\ StoreInv /\ [Next]_vars => StoreInv'
<1> SUFFICES ASSUME TypeOK, ClipInv, MadeInv, StoreInv, [Next]_vars PROVE StoreInv'
  OBVIOUS
<1> USE DEF Next, Step, Done, vars
<1>0. clip \in Nat /\ clip + 1 # clip /\ \A c \in Clips : c \in Nat
  BY ClipsAssumption DEF TypeOK, Clips
<1>1. ASSUME NEW res \in Results, Settles(res) PROVE StoreInv'
  <2>1. /\ clip \in Clips /\ clip' = clip + 1 /\ pc' = "next" /\ store' = store
        /\ entries' = [entries EXCEPT ![clip] = res]
    BY <1>1 DEF Settles, ClipInv
  <2>2. Agrees(res, store[clip])
    <3>1. CASE pc = "finish"
      BY <1>1, <3>1 DEF Settles, StoreInv, Agrees
    <3>2. CASE pc \in {"putOutput", "putThumbnail"}
      BY <1>1, <3>2 DEF Settles, StoreInv, Agrees, Putting
    <3>3. CASE pc \notin {"finish", "putOutput", "putThumbnail"}
      <4>1. store[clip] = Nothing
        BY <1>1, <2>1, <3>3 DEF Settles, StoreInv, InClip
      <4>2. QED
        BY <1>1, <3>3, <4>1 DEF Settles, Agrees, Nothing
    <3>4. QED
      BY <3>1, <3>2, <3>3
  <2>3. \A c \in Clips : c < clip' => Agrees(entries'[c], store'[c])
    <3> SUFFICES ASSUME NEW c \in Clips, c < clip' PROVE Agrees(entries'[c], store'[c])
      OBVIOUS
    <3>1. CASE c = clip
      BY <2>1, <2>2, <3>1 DEF TypeOK
    <3>2. CASE c # clip
      <4>1. c < clip /\ entries'[c] = entries[c]
        BY <1>0, <2>1, <3>2 DEF TypeOK
      <4>2. QED
        BY <2>1, <4>1 DEF StoreInv
    <3>3. QED
      BY <3>1, <3>2
  <2>4. \A c \in Clips : c >= clip' => store'[c] = Nothing
    <3>1. \A c \in Clips : c >= clip' => c > clip
      BY <1>0, <2>1
    <3>2. QED
      BY <2>1, <3>1 DEF StoreInv
  <2>5. \A c \in Clips : c > clip' \/ c = clip' => c >= clip'
    BY <1>0, <2>1
  <2>6. QED
    BY <2>1, <2>3, <2>4, <2>5 DEF StoreInv
<1>2. CASE UNCHANGED <<entries, clip>> /\ (PutAccepted \/ PutUnanswered) /\ Stored
  <2>1. /\ clip \in Clips /\ (pc = "putOutput" \/ pc = "putThumbnail")
        /\ store[clip] \in Objects /\ made = "good"
    BY <1>2 DEF PutAccepted, PutUnanswered, PutsLeft, Putting, ClipInv, MadeInv, InClip,
       TryBlock, TypeOK
  <2>2. /\ \A c \in Clips : c # clip => store'[c] = store[c]
        /\ pc = "putOutput" => /\ store'[clip].output = "good"
                               /\ store'[clip].thumbnail = store[clip].thumbnail
        /\ pc = "putThumbnail" => /\ store'[clip].thumbnail = "good"
                                  /\ store'[clip].output = store[clip].output
    BY <1>2, <2>1 DEF Stored, TypeOK, Objects
  <2>3. shot' = shot /\ \/ PutAccepted /\ pc' = IF pc = "putOutput" /\ shot
                                                 THEN "putThumbnail" ELSE "finish"
                        \/ pc' = pc
    BY <1>2 DEF PutAccepted, PutUnanswered, Onward
  <2>4. \A c \in Clips : c < clip \/ c > clip => c # clip
    BY <1>0
  <2>5. pc' \notin TryBlock \ {"putOutput", "putThumbnail", "finish"}
    BY <2>1, <2>3
  <2>6. QED
    BY <1>2, <2>1, <2>2, <2>3, <2>4, <2>5 DEF StoreInv
<1>3. CASE UNCHANGED <<entries, clip, store>> /\ ~ PutAccepted
  <2> DEFINE putting == {"putOutput", "putThumbnail", "finish"}
  <2>1. CASE Gate
    <3>1. clip \in Clips /\ store[clip] = Nothing
      BY <2>1 DEF Gate, ClipInv, InClip, TryBlock, StoreInv
    <3>2. store[clip].output # "bad" /\ store[clip].thumbnail = "absent"
      BY <3>1 DEF Nothing
    <3>3. pc' = "putOutput"
      BY <1>0, <1>3, <2>1 DEF Gate, Onward, FailClip
    <3>4. QED
      BY <1>3, <3>2, <3>3 DEF StoreInv
  <2>2. CASE ~ Gate
    <3>1. /\ pc' \in putting => pc' = pc /\ shot' = shot
          /\ pc' \in TryBlock \ putting => pc \in TryBlock \ putting
      BY <1>0, <1>3, <2>2 DEF Putting, PutsLeft, TryBlock, Onward, FailClip, FailJob,
         Fetch, Probe, NextClip, StartClip, RefuseClip, Summarise, AskFilter,
         CaptionsRefused, CaptionsReady, EncodeExitsZero, EncodeExitsNonzero,
         EncodeTimesOut, PostCheck, Thumbnail, PutUnanswered, PutGivenUp, PutRefused,
         FinishClip, Cleanup, Crash, DeadlinePasses
    <3>2. QED
      BY <1>3, <3>1 DEF StoreInv
  <2>3. QED
    BY <2>1, <2>2
<1>4. CASE UNCHANGED <<entries, clip>>
  <2>1. \/ store' = store /\ ~ PutAccepted
        \/ (PutAccepted \/ PutUnanswered) /\ Stored
    <3>1. CASE PutAccepted
      BY <3>1 DEF PutAccepted
    <3>2. CASE ~ PutAccepted
      BY <3>2 DEF Fetch, Probe, NextClip, StartClip, RefuseClip, Summarise, AskFilter,
         CaptionsRefused, CaptionsReady, EncodeExitsZero, EncodeExitsNonzero,
         EncodeTimesOut, PostCheck, Thumbnail, Gate, PutUnanswered, PutGivenUp,
         PutRefused, FinishClip, Cleanup, Crash, DeadlinePasses
    <3>3. QED
      BY <3>1, <3>2
  <2>2. QED
    BY <1>2, <1>3, <1>4, <2>1
<1>5. QED
  BY <1>1, <1>4, EntryStep

LEMMA ResultStep == TypeOK /\ ClipInv /\ ResultInv /\ [Next]_vars => ResultInv'
<1> SUFFICES ASSUME TypeOK, ClipInv, ResultInv, [Next]_vars PROVE ResultInv'
  OBVIOUS
<1> USE DEF Next, Step, Done, vars
<1>1. CASE Summarise
  <2>1. pc' = "cleanup" /\ result' = Summary /\ UNCHANGED <<entries, clip>> /\ clip = N + 1
    BY <1>1 DEF Summarise
  <2>2. Summary' = Summary
    BY <2>1 DEF Summary
  <2>3. QED
    BY <2>1, <2>2 DEF ResultInv, Ended
<1>2. ASSUME NEW err, FailJob(err) PROVE ResultInv'
  BY <1>2 DEF FailJob, JobResult, ResultInv, Ended
<1>3. ASSUME UNCHANGED result, Ended' <=> Ended PROVE ResultInv'
  <2>1. Ended => UNCHANGED <<entries, clip>>
    BY EntryStep DEF Settles, Ended, InClip, TryBlock
  <2>2. Ended => Summary' = Summary
    BY <2>1 DEF Summary
  <2>3. NoJobResult.clips = FALSE
    BY DEF NoJobResult, JobResult
  <2>4. QED
    BY <1>3, <2>1, <2>2, <2>3 DEF ResultInv
<1>4. CASE Fetch \/ Probe \/ Crash
  <2>1. (\E err : FailJob(err)) \/ (UNCHANGED result /\ ~ Ended /\ ~ Ended')
    BY <1>4 DEF Fetch, Probe, Crash, Onward, Ended
  <2>2. QED
    BY <1>2, <1>3, <2>1
<1>5. CASE ~ (Fetch \/ Probe \/ Crash \/ Summarise)
  <2>1. UNCHANGED result /\ (Ended' <=> Ended)
    BY <1>5 DEF Ended, TryBlock, Putting, PutsLeft, Onward, FailClip, NextClip,
       StartClip, RefuseClip, AskFilter, CaptionsRefused, CaptionsReady,
       EncodeExitsZero, EncodeExitsNonzero, EncodeTimesOut, PostCheck, Thumbnail, Gate,
       PutAccepted, PutUnanswered, PutGivenUp, PutRefused, FinishClip, Cleanup,
       DeadlinePasses
  <2>2. QED
    BY <1>3, <2>1
<1>6. QED
  BY <1>1, <1>4, <1>5

(***************************************************************************)
(* The ladder.                                                             *)
(***************************************************************************)
LEMMA LadderStep == TypeOK /\ ClipInv /\ LadderInv /\ [Next]_vars => LadderInv'
<1> SUFFICES ASSUME TypeOK, ClipInv, LadderInv, [Next]_vars PROVE LadderInv'
  OBVIOUS
<1> USE DEF Next, Step, Done, vars
<1>0. clip \in Nat \ {0}
  BY ClipsAssumption DEF TypeOK
<1>1. CASE Probe
  <2>1. /\ pc = "probe" /\ pc' \notin {"fetch", "probe"}
        /\ \/ pc' = "cleanup"
           \/ /\ pc' = "next"
              /\ \E tonemap \in BOOLEAN :
                    ladder' = FullLadder(tonemap) /\ works' \subseteq FullLadder(tonemap)
    BY <1>1 DEF Probe, Onward, FailJob
  <2>2. ASSUME NEW tonemap \in BOOLEAN
        PROVE  /\ LastRung \in FullLadder(tonemap) /\ FullLadder(tonemap) \subseteq Rungs
               /\ \A r \in FullLadder(tonemap) : Rank[r] <= Rank[LastRung]
    <3>1. FullLadder(tonemap) \subseteq Rungs /\ LastRung \in FullLadder(tonemap)
      BY DEF FullLadder, LastRung, Rungs
    <3>2. CASE Gpu
      BY <3>1, <3>2 DEF LastRung, Rungs, Rank
    <3>3. CASE ~ Gpu
      <4>1. FullLadder(tonemap) = {"configured"} /\ LastRung = "configured"
        BY <3>3 DEF FullLadder, LastRung
      <4>2. Rank["configured"] <= Rank["configured"]
        BY DEF Rank
      <4>3. \A r \in FullLadder(tonemap) : Rank[r] <= Rank[LastRung]
        BY <4>1, <4>2
      <4>4. QED
        BY <3>1, <4>3
    <3>4. QED
      BY <3>1, <3>2, <3>3
  <2>3. QED
    BY <2>1, <2>2 DEF LadderInv, InClip, TryBlock
<1>2. CASE EncodeExitsNonzero
  <2>1. /\ pc = "encode" /\ pc' \in {"next", "encode"} /\ ladder' = Drop
        /\ rungs' = rungs \ {Best(rungs)} /\ (pc' = "encode" => rungs' # {})
        /\ UNCHANGED <<works, made>> /\ clip' \in {clip, clip + 1}
        /\ \/ Best(rungs) \notin works /\ accidents' = accidents
           \/ accidents' = accidents \cup {<<clip, Best(rungs)>>}
    BY <1>2 DEF EncodeExitsNonzero, FailClip, Onward
  <2>2. /\ rungs = ladder /\ ladder \subseteq Rungs /\ LastRung \in ladder /\ works \subseteq Rungs
        /\ \A r \in works : r \in ladder \/ Failed(r)
    BY <2>1 DEF LadderInv, InClip, TryBlock, TypeOK
  <2>3. \A r \in ladder : Rank[r] <= Rank[LastRung]
    BY <2>1 DEF LadderInv, InClip, TryBlock
  <2>4. Best(ladder) \in ladder /\ \A r \in ladder : Rank[Best(ladder)] <= Rank[r]
    BY <2>2, BestIsBest
  <2>a. \A r \in works : Failed(r) \/ r = Best(ladder) => Failed(r)'
    <3>1. clip \in 1..clip' /\ 1..clip \subseteq 1..clip'
      BY <1>0, <2>1
    <3>2. \A r \in works : Failed(r) => Failed(r)'
      BY <2>1, <3>1 DEF Failed
    <3>3. Best(ladder) \in works => <<clip, Best(ladder)>> \in accidents'
      BY <2>1, <2>2
    <3>4. QED
      BY <3>1, <3>2, <3>3 DEF Failed
  <2>5. CASE ladder = {Best(ladder)}
    <3>1. ladder' = ladder /\ rungs' = {}
      BY <2>1, <2>2, <2>5 DEF Drop
    <3>2. QED
      BY <2>1, <2>2, <2>3, <2>a, <3>1 DEF LadderInv, InClip
  <2>6. CASE ladder # {Best(ladder)}
    <3>1. ladder' = ladder \ {Best(ladder)} /\ rungs' = ladder'
      BY <2>1, <2>2, <2>6 DEF Drop
    <3>2. Best(ladder) # LastRung
      <4> SUFFICES ASSUME Best(ladder) = LastRung PROVE ladder = {Best(ladder)}
        BY <2>6
      <4>1. \A r \in ladder : r \in Rungs /\ LastRung \in Rungs
                              /\ Rank[r] <= Rank[LastRung] /\ Rank[LastRung] <= Rank[r]
        BY <2>2, <2>3, <2>4
      <4>2. \A r \in ladder : Rank[r] = Rank[LastRung]
        BY <4>1, RankOrder
      <4>3. \A r \in ladder : r = LastRung
        BY <4>1, <4>2, RankOrder
      <4>4. QED
        BY <2>4, <4>3
    <3>3. QED
      BY <2>1, <2>2, <2>3, <2>a, <3>1, <3>2 DEF LadderInv, InClip
  <2>7. QED
    BY <2>5, <2>6
<1>3. CASE ~ (Probe \/ EncodeExitsNonzero)
  <2>1. UNCHANGED <<ladder, works, accidents>>
    BY <1>3 DEF Fetch, NextClip, StartClip, RefuseClip, Summarise, AskFilter,
       CaptionsRefused, CaptionsReady, EncodeExitsZero, EncodeTimesOut, PostCheck,
       Thumbnail, Gate, PutAccepted, PutUnanswered, PutGivenUp, PutRefused, FinishClip,
       Cleanup, Crash, DeadlinePasses
  <2>2. /\ pc' \in {"fetch", "probe"} => pc \in {"fetch", "probe"}
        /\ pc' \in InClip \cup {"next"} => pc \in InClip \cup {"next"}
        /\ pc' = "encode" => rungs' = ladder \/ UNCHANGED <<pc, rungs>>
    BY <1>3 DEF InClip, TryBlock, Putting, PutsLeft, Onward, FailClip, FailJob, Fetch,
       NextClip, StartClip, RefuseClip, Summarise, AskFilter, CaptionsRefused,
       CaptionsReady, EncodeExitsZero, EncodeTimesOut, PostCheck, Thumbnail, Gate,
       PutAccepted, PutUnanswered, PutGivenUp, PutRefused, FinishClip, Cleanup, Crash,
       DeadlinePasses
  <2>3. pc' \in {"window", "captions", "encode"} =>
            \/ made' = "none"
            \/ pc \in {"window", "captions", "encode"} /\ made' = made
    BY <1>3 DEF TryBlock, Putting, PutsLeft, Onward, FailClip, FailJob, Fetch, NextClip,
       StartClip, RefuseClip, Summarise, AskFilter, CaptionsRefused, CaptionsReady,
       EncodeExitsZero, EncodeTimesOut, PostCheck, Thumbnail, Gate, PutAccepted,
       PutUnanswered, PutGivenUp, PutRefused, FinishClip, Cleanup, Crash, DeadlinePasses
  <2>4. clip' \in {clip, clip + 1}
    BY <1>3 DEF Onward, FailClip, FailJob, Fetch, NextClip, StartClip, RefuseClip,
       Summarise, AskFilter, CaptionsRefused, CaptionsReady, EncodeExitsZero,
       EncodeTimesOut, PostCheck, Thumbnail, Gate, PutAccepted, PutUnanswered,
       PutGivenUp, PutRefused, FinishClip, Cleanup, Crash, DeadlinePasses
  <2>5. \A r \in works : Failed(r) => Failed(r)'
    <3>1. 1..clip \subseteq 1..clip'
      BY <1>0, <2>4
    <3>2. QED
      BY <2>1, <3>1 DEF Failed
  <2>6. QED
    BY <2>1, <2>2, <2>3, <2>5 DEF LadderInv
<1>4. QED
  BY <1>1, <1>2, <1>3

LEMMA FailureCode ==
    ASSUME NEW err, FailClip(err), clip \in Clips, TypeOK
    PROVE  entries'[clip].code = err.code
BY DEF FailClip, Result, TypeOK

LEMMA LastOfRange ==
    ASSUME NEW n \in Nat, n # 0
    PROVE  n \in 1..n
OBVIOUS

LEMMA UntriedStep ==
    ASSUME TypeOK, ClipInv, MadeInv, LadderInv, NoRungLostUntried, [Next]_vars
    PROVE  NoRungLostUntried'
<1> SUFFICES ASSUME NEW c \in Clips, pc' = "next", c = clip' - 1,
                    entries'[c].code = "ENCODE_FAILED", made' = "none"
             PROVE  /\ \A r \in works' : \E k \in 1..c : <<k, r>> \in accidents'
                    /\ LastRung \in works' => <<c, LastRung>> \in accidents'
  BY DEF NoRungLostUntried
<1> USE DEF Next, Step, Done, vars
<1>0. clip \in Nat /\ c \in Nat /\ c # 0
  BY ClipsAssumption DEF TypeOK, Clips
<1>1. CASE EncodeExitsNonzero
  <2>1. /\ pc = "encode" /\ clip' = clip + 1 /\ rungs \ {Best(rungs)} = {}
        /\ works' = works
        /\ \/ Best(rungs) \notin works /\ accidents' = accidents
           \/ accidents' = accidents \cup {<<clip, Best(rungs)>>}
    BY <1>1 DEF EncodeExitsNonzero, FailClip, Onward
  <2>2. c = clip
    BY <1>0, <2>1
  <2>3. rungs = ladder /\ LastRung \in ladder /\ \A r \in works : r \in ladder \/ Failed(r)
    BY <2>1 DEF LadderInv, InClip, TryBlock
  <2>4. ladder = {LastRung} /\ Best(rungs) = LastRung
    BY <2>1, <2>3
  <2>5. /\ accidents \subseteq accidents'
        /\ LastRung \in works => <<c, LastRung>> \in accidents'
    <3>1. accidents \subseteq accidents'
      BY <2>1
    <3>2. LastRung \in works => accidents' = accidents \cup {<<c, LastRung>>}
      <4>1. Best(rungs) = LastRung
        BY <2>4
      <4>2. \/ LastRung \notin works
            \/ accidents' = accidents \cup {<<clip, LastRung>>}
        BY <2>1, <4>1
      <4>3. QED
        BY <2>2, <4>2
    <3>3. QED
      BY <3>1, <3>2
  <2>6. c \in 1..c
    BY <1>0, LastOfRange
  <2>7. \A r \in works : \E k \in 1..c : <<k, r>> \in accidents'
    BY <2>2, <2>3, <2>4, <2>5, <2>6 DEF Failed
  <2>8. QED
    BY <2>1, <2>5, <2>7
<1>2. CASE pc = "next" /\ ~ EncodeExitsNonzero
  <2>1. UNCHANGED <<entries, made, works, accidents, clip>>
    BY <1>2 DEF Putting, PutsLeft, Onward, FailClip, FailJob, Fetch, Probe, NextClip,
       StartClip, RefuseClip, Summarise, AskFilter, CaptionsRefused, CaptionsReady,
       EncodeExitsZero, EncodeTimesOut, PostCheck, Thumbnail, Gate, PutAccepted,
       PutUnanswered, PutGivenUp, PutRefused, FinishClip, Cleanup, Crash, DeadlinePasses
  <2>2. QED
    BY <1>2, <2>1 DEF NoRungLostUntried
<1>3. CASE pc # "next" /\ ~ EncodeExitsNonzero
  <2>1. CASE Probe
    <3>1. clip' = 1
      BY <2>1 DEF Probe, ClipInv, Onward, FailJob
    <3>2. QED
      BY <1>0, <3>1
  <2>2. CASE PostCheck
    BY <2>2 DEF PostCheck, MadeInv
  <2>3. CASE FinishClip
    <3>1. clip \in Clips /\ clip' = clip + 1
          /\ entries' = [entries EXCEPT ![clip] = Result("completed", "none", FALSE, FALSE, shot)]
      BY <2>3 DEF FinishClip, ClipInv, InClip, TryBlock
    <3>2. c = clip
      BY <1>0, <3>1
    <3>3. entries'[c].code = "none"
      BY <3>1, <3>2 DEF TypeOK, Result
    <3>4. QED
      BY <3>3
  <2>4. CASE ~ (Probe \/ PostCheck \/ FinishClip)
    <3>1. clip \in Clips /\ \E err \in {JobError("INVALID_JOB", FALSE), JobError("TIMEOUT", TRUE),
                                        JobError("INTERNAL", FALSE), JobError("UPLOAD_FAILED", TRUE)} :
                               FailClip(err)
      BY <1>3, <2>4 DEF ClipInv, InClip, TryBlock, Putting, PutsLeft, Onward, FailJob,
         Fetch, NextClip, StartClip, RefuseClip, Summarise, AskFilter, CaptionsRefused,
         CaptionsReady, EncodeExitsZero, EncodeTimesOut, Thumbnail, Gate, PutAccepted,
         PutUnanswered, PutGivenUp, PutRefused, Cleanup, Crash, DeadlinePasses
    <3>2. PICK err \in {JobError("INVALID_JOB", FALSE), JobError("TIMEOUT", TRUE),
                        JobError("INTERNAL", FALSE), JobError("UPLOAD_FAILED", TRUE)} : FailClip(err)
      BY <3>1
    <3>3. err.code # "ENCODE_FAILED"
      BY <3>2 DEF JobError
    <3>4. c = clip
      BY <1>0, <3>2 DEF FailClip
    <3>5. QED
      BY <3>1, <3>2, <3>3, <3>4, FailureCode
  <2>5. QED
    BY <2>1, <2>2, <2>3, <2>4
<1>4. QED
  BY <1>1, <1>2, <1>3

LEMMA InvStep == IInv /\ [Next]_vars => IInv'
BY TypeStep, ClipStep, MadeStep, StoreStep, ResultStep, LadderStep, UntriedStep DEF IInv

LEMMA Invariance == Spec => []IInv
BY InvInitially, InvStep, PTL DEF Spec

(***************************************************************************)
(* The theorems.                                                           *)
(***************************************************************************)
\* Every variable keeps its type.
THEOREM TypeCorrect == Spec => []TypeOK
<1>1. IInv => TypeOK
  BY DEF IInv
<1>2. QED
  BY <1>1, Invariance, PTL

\* The status of a job and of its clips is right about the bucket.
THEOREM SummaryTruth == Spec => []SummaryTellsAll
<1>1. IInv => SummaryTellsAll
  <2> SUFFICES ASSUME IInv, result.clips PROVE SummaryTellsAll
    BY DEF SummaryTellsAll
  <2>1. clip = N + 1 /\ result = Summary
    BY DEF IInv, ResultInv
  <2>2. 1 \in Clips /\ \A c \in Clips : c < clip
    BY <2>1, ClipsAssumption DEF Clips
  <2>3. \A c \in Clips : Agrees(entries[c], store[c])
    BY <2>2 DEF IInv, StoreInv
  <2>4. QED
    BY <2>1, <2>2, <2>3 DEF Summary, JobResult, SummaryTellsAll
<1>2. QED
  BY <1>1, Invariance, PTL

\* A clip that its encoder fails has seen every rung that works fail by accident, in
\* this clip or before it, and the last rung in this one (_render, _Encoders.drop).
THEOREM NoRungPassedOver == Spec => []NoRungLostUntried
<1>1. IInv => NoRungLostUntried
  BY DEF IInv
<1>2. QED
  BY <1>1, Invariance, PTL

\* A clip none of whose uploads has begun in time is never stored (_render's last
\* look at the clock).
THEOREM LateStoresNothing == Spec => LateClipStoresNothing
<1> SUFFICES ASSUME NEW c \in Clips
             PROVE  Spec => [](late /\ Unsent(c) => [](store[c] = Nothing))
  BY DEF LateClipStoresNothing
<1> DEFINE missed == /\ late
                     /\ store[c] = Nothing
                     /\ c = clip => pc \notin Sending
<1>0. IInv => clip \in Nat /\ c \in Nat
  BY ClipsAssumption DEF IInv, TypeOK, Clips
<1>1. IInv /\ late /\ Unsent(c) => missed
  BY <1>0 DEF IInv, StoreInv, Unsent, Sending, TryBlock
<1>2. IInv /\ missed /\ [Next]_vars => missed'
  <2> SUFFICES ASSUME IInv, missed, [Next]_vars PROVE missed'
    OBVIOUS
  <2> USE DEF Next, Step, Done, vars
  <2>1. late'
    BY DEF Fetch, Probe, NextClip, StartClip, RefuseClip, Summarise, AskFilter,
       CaptionsRefused, CaptionsReady, EncodeExitsZero, EncodeExitsNonzero,
       EncodeTimesOut, PostCheck, Thumbnail, Gate, PutAccepted, PutUnanswered,
       PutGivenUp, PutRefused, FinishClip, Cleanup, Crash, DeadlinePasses
  <2>2. store'[c] = store[c]
    <3>1. \/ store' = store
          \/ Putting /\ Stored
      BY DEF PutsLeft, Fetch, Probe, NextClip, StartClip, RefuseClip, Summarise,
         AskFilter, CaptionsRefused, CaptionsReady, EncodeExitsZero, EncodeExitsNonzero,
         EncodeTimesOut, PostCheck, Thumbnail, Gate, PutAccepted, PutUnanswered,
         PutGivenUp, PutRefused, FinishClip, Cleanup, Crash, DeadlinePasses
    <3>2. CASE Putting /\ Stored
      <4>1. c # clip
        BY <3>2 DEF Putting, Sending
      <4>2. QED
        BY <3>2, <4>1 DEF Stored, IInv, TypeOK
    <3>3. QED
      BY <3>1, <3>2
  <2>3. c = clip' => pc' \notin Sending
    <3>1. CASE UNCHANGED clip
      BY <3>1 DEF Sending, IInv, TypeOK, TimeLeft, Putting, PutsLeft, Onward, FailClip, FailJob,
         Fetch, Probe, NextClip, StartClip, RefuseClip, Summarise, AskFilter,
         CaptionsRefused, CaptionsReady, EncodeExitsZero, EncodeExitsNonzero,
         EncodeTimesOut, PostCheck, Thumbnail, Gate, PutAccepted, PutUnanswered,
         PutGivenUp, PutRefused, FinishClip, Cleanup, Crash, DeadlinePasses
    <3>2. CASE ~ UNCHANGED clip
      BY <3>2, EntryStep DEF Sending, IInv, Settles
    <3>3. QED
      BY <3>1, <3>2
  <2>4. QED
    BY <2>1, <2>2, <2>3
<1>3. missed => store[c] = Nothing
  OBVIOUS
<1> HIDE DEF missed
<1>4. QED
  BY <1>1, <1>2, <1>3, Invariance, PTL DEF Spec

(***************************************************************************)
(* The contract.                                                           *)
(***************************************************************************)
LEMMA PhaseStep ==
    ASSUME IInv, [Next]_vars, UNCHANGED <<entries, clip>>, NEW c \in Clips, Phase(c)' # Phase(c)
    PROVE  /\ c = clip /\ Phase(c) = "queued" /\ Phase(c)' = "running"
           /\ pc \in {"fetch", "probe", "next"} /\ UNCHANGED store
<1> USE DEF Next, Step, Done, vars
<1>1. c = clip /\ ((pc \in {"fetch", "probe", "next"}) # (pc' \in {"fetch", "probe", "next"}))
  BY DEF Phase, Begun
<1>2. pc' \in {"fetch", "probe", "next"} => pc \in {"fetch", "probe", "next"}
  <2>1. clip + 1 # clip
    BY ClipsAssumption DEF IInv, TypeOK
  <2>2. QED
    BY <2>1 DEF Putting, PutsLeft, Onward, FailClip, FailJob, Fetch, Probe, NextClip,
       StartClip, RefuseClip, Summarise, AskFilter, CaptionsRefused, CaptionsReady,
       EncodeExitsZero, EncodeExitsNonzero, EncodeTimesOut, PostCheck, Thumbnail, Gate,
       PutAccepted, PutUnanswered, PutGivenUp, PutRefused, FinishClip, Cleanup, Crash,
       DeadlinePasses
<1>3. entries[c] = NoResult
  BY DEF Phase
<1>4. pc \in {"fetch", "probe", "next"} => UNCHANGED store
  BY DEF Putting, PutsLeft, Onward, FailClip, FailJob, Fetch, Probe, NextClip,
     StartClip, RefuseClip, Summarise, AskFilter, CaptionsRefused, CaptionsReady,
     EncodeExitsZero, EncodeExitsNonzero, EncodeTimesOut, PostCheck, Thumbnail, Gate,
     PutAccepted, PutUnanswered, PutGivenUp, PutRefused, FinishClip, Cleanup, Crash,
     DeadlinePasses
<1>5. QED
  BY <1>1, <1>2, <1>3, <1>4 DEF Phase, Begun, IInv, TypeOK, ClipInv

LEMMA ContractStep ==
    ASSUME IInv, [Next]_vars
    PROVE  [ClipContract!Next]_ClipContract!vars
<1> USE DEF Next, Step, Done, vars
<1>0. clip \in Nat /\ clip + 1 # clip /\ \A c \in Clips : c \in Nat
  BY ClipsAssumption DEF IInv, TypeOK, Clips
<1>1. ASSUME NEW res \in Results, Settles(res) PROVE ClipContract!Next
  <2>1. /\ clip \in Clips /\ clip' = clip + 1 /\ pc \in InClip /\ pc' = "next"
        /\ entries' = [entries EXCEPT ![clip] = res] /\ store' = store /\ res # NoResult
    BY <1>1 DEF Settles, IInv, ClipInv
  <2>2. entries[clip] = NoResult /\ Begun(clip)
    BY <1>0, <2>1 DEF IInv, ClipInv, Begun, InClip
  <2>3. Agrees(res, store[clip])
    <3>1. TypeOK /\ ClipInv /\ MadeInv /\ StoreInv /\ StoreInv'
      BY StoreStep DEF IInv
    <3>2. clip < clip' /\ entries'[clip] = res /\ store'[clip] = store[clip]
      BY <1>0, <2>1 DEF IInv, TypeOK
    <3>3. QED
      BY <2>1, <3>1, <3>2 DEF StoreInv
  <2>4. \A c \in Clips : c # clip => Begun(c)' = Begun(c)
    BY <1>0, <2>1 DEF Begun
  <2>5. \A c \in Clips : Phase(c)' = IF c = clip THEN "returned" ELSE Phase(c)
    BY <2>1, <2>4 DEF Phase, IInv, TypeOK
  <2>6. [c \in Clips |-> Phase(c)'] = [[c \in Clips |-> Phase(c)] EXCEPT ![clip] = "returned"]
    BY <2>1, <2>5
  <2>7. Phase(clip) = "running"
    BY <2>2 DEF Phase
  <2>8. ClipContract!Return(clip)
    <3>1. [c \in Clips |-> Phase(c)][clip] = "running"
      BY <2>1, <2>7
    <3>2. QED
      BY <1>1, <2>1, <2>3, <2>6, <3>1 DEF ClipContract!Return, ClipContract!Results, Results,
         ClipContract!Agrees, Agrees, ClipContract!ErrorCodes, ErrorCodes,
         ClipContract!Nothing, Nothing
  <2>9. QED
    <3>1. clip \in Clips
      BY <2>1
    <3>2. QED
      BY <2>8, <3>1 DEF ClipContract!Next
<1>2. CASE UNCHANGED <<entries, clip>> /\ \E c \in Clips : Phase(c)' # Phase(c)
  <2>1. PICK c \in Clips : Phase(c)' # Phase(c)
    BY <1>2
  <2>2. /\ c = clip /\ Phase(c) = "queued" /\ Phase(c)' = "running"
        /\ pc \in {"fetch", "probe", "next"} /\ UNCHANGED store
    BY <1>2, <2>1, PhaseStep
  <2>3. \A d \in Clips : d # c => Phase(d)' = Phase(d)
    BY <1>2, <2>2, PhaseStep
  <2>4. [d \in Clips |-> Phase(d)'] = [[d \in Clips |-> Phase(d)] EXCEPT ![c] = "running"]
    BY <2>2, <2>3
  <2>5. \A d \in Clips : Phase(d) # "running"
    BY <1>0, <2>2 DEF Phase, Begun, IInv, ClipInv
  <2>6. {d \in Clips : [e \in Clips |-> Phase(e)][d] = "running"} = {}
    BY <2>5
  <2>7. ClipContract!Cardinality({}) < 1
    BY FS_EmptySet DEF ClipContract!Cardinality, Cardinality
  <2>8. ClipContract!Cardinality(ClipContract!Running) < 1
    <3>1. ClipContract!Running = {}
      BY <2>6 DEF ClipContract!Running
    <3>2. QED
      BY <2>7, <3>1
  <2>9. ClipContract!Begin(c)
    <3>1. [d \in Clips |-> Phase(d)][c] = "queued"
      BY <2>2
    <3>2. UNCHANGED <<store, entries>>
      BY <1>2, <2>2
    <3>3. QED
      BY <2>4, <2>8, <3>1, <3>2 DEF ClipContract!Begin
  <2>10. QED
    BY <2>9 DEF ClipContract!Next
<1>3. CASE UNCHANGED <<entries, clip>> /\ \A c \in Clips : Phase(c)' = Phase(c)
  <2>1. [c \in Clips |-> Phase(c)'] = [c \in Clips |-> Phase(c)]
    BY <1>3
  <2>2. \/ store' = store
        \/ Putting /\ Stored
    BY DEF PutsLeft, Fetch, Probe, NextClip, StartClip, RefuseClip, Summarise,
       AskFilter, CaptionsRefused, CaptionsReady, EncodeExitsZero, EncodeExitsNonzero,
       EncodeTimesOut, PostCheck, Thumbnail, Gate, PutAccepted, PutUnanswered,
       PutGivenUp, PutRefused, FinishClip, Cleanup, Crash, DeadlinePasses
  <2>3. CASE store' = store
    BY <1>3, <2>1, <2>3 DEF ClipContract!vars
  <2>4. CASE Putting /\ Stored
    <3>1. clip \in Clips /\ Phase(clip) = "running"
      BY <1>0, <2>4 DEF Putting, IInv, ClipInv, InClip, TryBlock, Phase, Begun
    <3>2. CASE pc = "putOutput"
      <4>1. store' = [store EXCEPT ![clip].output = "good"] /\ store[clip].thumbnail = "absent"
        BY <2>4, <3>2 DEF Stored, IInv, MadeInv, StoreInv
      <4>2. ClipContract!StoreOutput(clip)
        BY <1>3, <2>1, <3>1, <4>1 DEF ClipContract!StoreOutput
      <4>3. QED
        BY <3>1, <4>2 DEF ClipContract!Next
    <3>3. CASE pc # "putOutput"
      <4>1. store' = [store EXCEPT ![clip].thumbnail = "good"]
        BY <2>4, <3>3 DEF Stored
      <4>2. ClipContract!StoreThumbnail(clip)
        BY <1>3, <2>1, <3>1, <4>1 DEF ClipContract!StoreThumbnail
      <4>3. QED
        BY <3>1, <4>2 DEF ClipContract!Next
    <3>4. QED
      BY <3>2, <3>3
  <2>5. QED
    BY <2>2, <2>3, <2>4
<1>4. TypeOK
  BY DEF IInv
<1>5. QED
  BY <1>1, <1>2, <1>3, <1>4, EntryStep

\* Each clip of a job keeps the contract of a job: begun once and one at a time,
\* stored when verified, and reported with a result that agrees.
THEOREM ClipsKeep == Spec => ClipsKeepContract
<1>1. Init => ClipContract!Init
  <2> SUFFICES ASSUME Init PROVE ClipContract!Init
    OBVIOUS
  <2>1. \A c \in Clips : Phase(c) = "queued"
    <3>1. \A c \in Clips : ~ (c < 1)
      BY ClipsAssumption DEF Clips
    <3>2. QED
      BY <3>1 DEF Init, Phase, Begun
  <2>2. [c \in Clips |-> Phase(c)] = [c \in Clips |-> "queued"]
    BY <2>1
  <2>3. QED
    BY <2>2 DEF Init, ClipContract!Init, ClipContract!Nothing, Nothing,
       ClipContract!NoResult, NoResult, ClipContract!Result, Result
<1>2. QED
  BY <1>1, ContractStep, Invariance, PTL DEF Spec, ClipsKeepContract, ClipContract!Spec

(***************************************************************************)
(* The steps of a clip job are numbered.                                   *)
(***************************************************************************)
\* The steps from a stage of a clip to the start of the next one: t puts have
\* failed, libass has been asked for or not, m rungs are left to try.
Stage(step, t, asked, m) ==
    CASE step = "finish" -> 1
      [] step = "putThumbnail" -> 5 - t
      [] step = "putOutput" -> 9 - t
      [] step = "gate" -> 10
      [] step = "thumbnail" -> 11
      [] step = "postcheck" -> 12
      [] step = "encode" -> 12 + m
      [] step = "captions" -> IF asked THEN 16 ELSE 17
      [] step = "window" -> 18
      [] OTHER -> 19

ClipStage == Stage(pc, tries, filter # "unknown", Cardinality(rungs))

StepsLeft ==
    CASE pc = "returned" -> 0
      [] pc = "cleanup" -> 1
      [] pc = "fetch" -> 19 * N + 4
      [] pc = "probe" -> 19 * N + 3
      [] OTHER -> 19 * (N - clip) + ClipStage + 2

LEMMA RungsCount ==
    ASSUME NEW some \in SUBSET Rungs
    PROVE  /\ IsFiniteSet(some)
           /\ Cardinality(some) \in 0..3
<1>1. /\ IsFiniteSet({"cuda"}) /\ Cardinality({"cuda"}) = 1
  BY FS_Singleton
<1>2. /\ IsFiniteSet({"cuda"} \cup {"configured"})
      /\ Cardinality({"cuda"} \cup {"configured"}) <= 2
  BY <1>1, FS_AddElement
<1>3. /\ IsFiniteSet(({"cuda"} \cup {"configured"}) \cup {"libx264"})
      /\ Cardinality(({"cuda"} \cup {"configured"}) \cup {"libx264"}) <= 3
  <2>1. Cardinality({"cuda"} \cup {"configured"}) \in Nat
    BY <1>2, FS_CardinalityType
  <2>2. QED
    BY <1>2, <2>1, FS_AddElement
<1>4. Rungs = ({"cuda"} \cup {"configured"}) \cup {"libx264"}
  BY DEF Rungs
<1>5. IsFiniteSet(some) /\ Cardinality(some) <= Cardinality(Rungs)
  BY <1>3, <1>4, FS_Subset
<1>6. Cardinality(some) \in Nat /\ Cardinality(Rungs) \in Nat /\ Cardinality(Rungs) <= 3
  BY <1>3, <1>4, <1>5, FS_CardinalityType
<1>7. QED
  BY <1>5, <1>6

LEMMA StageType ==
    ASSUME NEW step \in InClip \cup {"next"}, NEW t \in 0..3, NEW asked \in BOOLEAN, NEW m \in 0..3
    PROVE  /\ Stage(step, t, asked, m) \in 1..19
           /\ step = "next" => Stage(step, t, asked, m) = 19
<1>1. CASE step \in {"putOutput", "putThumbnail", "encode"}
  <2>1. \/ Stage(step, t, asked, m) = 9 - t
        \/ Stage(step, t, asked, m) = 5 - t
        \/ Stage(step, t, asked, m) = 12 + m
    BY <1>1 DEF Stage
  <2>2. QED
    BY <1>1, <2>1
<1>2. CASE step \in {"finish", "gate", "thumbnail", "postcheck", "captions", "window", "next"}
  <2>1. /\ Stage(step, t, asked, m) \in {1, 10, 11, 12, 16, 17, 18, 19}
        /\ step = "next" => Stage(step, t, asked, m) = 19
    BY <1>2 DEF Stage
  <2>2. QED
    BY <2>1
<1>3. QED
  BY <1>1, <1>2 DEF InClip, TryBlock

LEMMA ClipStageType ==
    ASSUME TypeOK, pc \in InClip \cup {"next"}
    PROVE  ClipStage \in 1..19 /\ (pc = "next" => ClipStage = 19)
<1>1. tries \in 0..3 /\ (filter # "unknown") \in BOOLEAN /\ Cardinality(rungs) \in 0..3
  BY RungsCount DEF TypeOK, Attempts
<1>2. QED
  BY <1>1, StageType DEF ClipStage

\* What is left at each kind of step.
LEMMA StepsLeftValue ==
    /\ pc = "returned" => StepsLeft = 0
    /\ pc = "cleanup" => StepsLeft = 1
    /\ pc = "fetch" => StepsLeft = 19 * N + 4
    /\ pc = "probe" => StepsLeft = 19 * N + 3
    /\ pc \in InClip \cup {"next"} => StepsLeft = 19 * (N - clip) + ClipStage + 2
BY DEF StepsLeft, InClip, TryBlock

LEMMA StepsLeftType ==
    ASSUME TypeOK, ClipInv
    PROVE  /\ StepsLeft \in 0..(19 * N + 4)
           /\ pc \in TryBlock => StepsLeft >= 2
<1>1. N \in Nat /\ N >= 1 /\ clip \in 1..(N + 1)
  BY ClipsAssumption DEF TypeOK
<1>2. pc \in {"returned", "cleanup", "fetch", "probe"} \cup InClip \cup {"next"}
  BY DEF TypeOK, InClip, TryBlock
<1>3. CASE pc \in InClip
  <2>1. clip <= N /\ ClipStage \in 1..19
    BY <1>3, <1>1, ClipStageType DEF ClipInv, Clips
  <2>2. StepsLeft = 19 * (N - clip) + ClipStage + 2
    BY <1>3, StepsLeftValue
  <2>3. QED
    BY <1>1, <2>1, <2>2
<1>4. CASE pc = "next"
  <2>1. ClipStage = 19
    BY <1>4, ClipStageType
  <2>2. StepsLeft = 19 * (N - clip) + 19 + 2
    BY <1>4, <2>1, StepsLeftValue
  <2>3. QED
    BY <1>1, <2>2
<1>5. CASE pc \in {"returned", "cleanup", "fetch", "probe"}
  <2>1. \/ pc \notin TryBlock /\ StepsLeft = 0
        \/ pc \notin TryBlock /\ StepsLeft = 1
        \/ StepsLeft = 19 * N + 4
        \/ StepsLeft = 19 * N + 3
    BY <1>5, StepsLeftValue DEF TryBlock
  <2>2. QED
    BY <1>1, <2>1
<1>6. QED
  BY <1>2, <1>3, <1>4, <1>5

LEMMA ClipEnds ==
    ASSUME TypeOK, ClipInv, TypeOK', pc \in InClip, pc' = "next", clip' = clip + 1
    PROVE  StepsLeft' < StepsLeft
<1>1. N \in Nat /\ clip \in 1..(N + 1)
  BY ClipsAssumption DEF TypeOK
<1>2. ClipStage \in 1..19 /\ StepsLeft = 19 * (N - clip) + ClipStage + 2
  BY ClipStageType, StepsLeftValue
<1>3. ClipStage' = 19
  BY DEF ClipStage, Stage
<1>4. StepsLeft' = 19 * (N - (clip + 1)) + 19 + 2
  BY <1>3 DEF StepsLeft
<1>5. QED
  BY <1>1, <1>2, <1>4

LEMMA ClipMovesOn ==
    ASSUME TypeOK, pc \in InClip \cup {"next"}, pc' \in InClip, clip' = clip,
           ClipStage' \in Int, ClipStage' < ClipStage
    PROVE  StepsLeft' < StepsLeft
<1>1. N \in Nat /\ clip \in 1..(N + 1)
  BY ClipsAssumption DEF TypeOK
<1>2. ClipStage \in 1..19 /\ StepsLeft = 19 * (N - clip) + ClipStage + 2
  BY ClipStageType, StepsLeftValue
<1>3. StepsLeft' = 19 * (N - clip) + ClipStage' + 2
  BY DEF StepsLeft, InClip, TryBlock
<1>4. \A here, there \in Int : there < here =>
         19 * (N - clip) + there + 2 < 19 * (N - clip) + here + 2
  BY <1>1
<1>5. ClipStage \in Int /\ ClipStage' \in Int /\ ClipStage' < ClipStage
  BY <1>2
<1>6. QED
  BY <1>2, <1>3, <1>4, <1>5

LEMMA JobEnds ==
    ASSUME TypeOK, ClipInv, pc \in TryBlock, pc' = "cleanup"
    PROVE  StepsLeft' < StepsLeft
<1>1. StepsLeft >= 2 /\ StepsLeft \in Nat
  <2>1. N \in Nat
    BY ClipsAssumption
  <2>2. QED
    BY <2>1, StepsLeftType
<1>2. StepsLeft' = 1
  BY DEF StepsLeft
<1>3. QED
  BY <1>1, <1>2

LEMMA StepCounts ==
    ASSUME IInv, TypeOK', Step \/ Crash
    PROVE  StepsLeft' < StepsLeft
<1>1. /\ TypeOK /\ ClipInv
      /\ N \in Nat /\ clip \in Nat /\ tries \in 0..3 /\ tries' \in 0..3
      /\ (filter # "unknown") \in BOOLEAN
      /\ Cardinality(rungs) \in 0..3 /\ IsFiniteSet(rungs)
  BY ClipsAssumption, RungsCount DEF IInv, TypeOK, Attempts
<1>2. Cardinality(rungs') \in 0..3
  <2>1. rungs \in SUBSET Rungs /\ rungs' \in SUBSET Rungs
    BY <1>1 DEF TypeOK
  <2>2. \A S \in SUBSET Rungs : Cardinality(S) \in 0..3
    BY RungsCount
  <2>3. QED
    BY <2>1, <2>2
<1>a. ASSUME pc \in InClip, NEW err, FailClip(err) PROVE StepsLeft' < StepsLeft
  BY <1>a, <1>1, ClipEnds DEF FailClip
<1>b. ASSUME pc \in InClip \cup {"next"}, NEW step \in InClip, Onward(step),
             ClipStage' \in Int, ClipStage' < ClipStage
      PROVE  StepsLeft' < StepsLeft
  BY <1>b, <1>1, ClipMovesOn DEF Onward
<1>c. ASSUME pc \in TryBlock, NEW err, FailJob(err) PROVE StepsLeft' < StepsLeft
  BY <1>c, <1>1, JobEnds DEF FailJob
<1>3. InClip = {"window", "captions", "encode", "postcheck", "thumbnail", "gate",
                "putOutput", "putThumbnail", "finish"}
  BY DEF InClip, TryBlock
<1>4. CASE Fetch
  <2>1. CASE Onward("probe")
    <3>1. StepsLeft = 19 * N + 4 /\ StepsLeft' = 19 * N + 3
      BY <1>4, <2>1 DEF Fetch, Onward, StepsLeft
    <3>2. QED
      BY <3>1, <1>1
  <2>2. CASE \E err \in FetchErrors : FailJob(err)
    BY <1>4, <2>2, <1>c DEF Fetch, TryBlock
  <2>3. QED
    BY <1>4, <2>1, <2>2 DEF Fetch
<1>5. CASE Probe
  <2>1. CASE Onward("next")
    <3>1. clip' = 1
      BY <1>5, <2>1, <1>1 DEF Probe, Onward, ClipInv
    <3>2. ClipStage' = 19
      BY <2>1 DEF Onward, ClipStage, Stage
    <3>3. StepsLeft = 19 * N + 3 /\ StepsLeft' = 19 * (N - 1) + 19 + 2
      BY <1>5, <2>1, <3>1, <3>2 DEF Probe, Onward, StepsLeft
    <3>4. QED
      BY <3>3, <1>1
  <2>2. CASE \E err \in ProbeErrors : FailJob(err)
    BY <1>5, <2>2, <1>c DEF Probe, TryBlock
  <2>3. QED
    BY <1>5, <2>1, <2>2 DEF Probe
<1>6. CASE NextClip
  <2>1. pc = "next" /\ Onward("window")
    BY <1>6 DEF NextClip
  <2>2. ClipStage = 19 /\ ClipStage' = 18
    BY <2>1 DEF Onward, ClipStage, Stage
  <2>3. QED
    BY <2>1, <2>2, <1>1, <1>3, <1>b
<1>7. CASE StartClip
  <2>1. pc = "window" /\ Onward("captions")
    BY <1>7 DEF StartClip
  <2>2. ClipStage = 18 /\ ClipStage' = (IF filter' # "unknown" THEN 16 ELSE 17)
    BY <2>1 DEF Onward, ClipStage, Stage
  <2>3. QED
    BY <2>1, <2>2, <1>1, <1>3, <1>b
<1>8. CASE RefuseClip
  BY <1>8, <1>3, <1>a DEF RefuseClip
<1>9. CASE Summarise
  BY <1>9, <1>1, JobEnds DEF Summarise, TryBlock
<1>10. CASE AskFilter
  <2>1. /\ pc = "captions" /\ pc' = pc /\ clip' = clip
        /\ filter = "unknown" /\ filter' # "unknown"
    BY <1>10 DEF AskFilter
  <2>2. ClipStage = 17 /\ ClipStage' = 16
    BY <2>1 DEF ClipStage, Stage
  <2>3. QED
    BY <2>1, <2>2, <1>1, <1>3, ClipMovesOn
<1>11. CASE CaptionsRefused
  BY <1>11, <1>3, <1>a DEF CaptionsRefused
<1>12. CASE CaptionsReady
  <2>1. pc = "captions" /\ Onward("encode")
    BY <1>12 DEF CaptionsReady
  <2>2. ClipStage \in {16, 17} /\ ClipStage' = 12 + Cardinality(rungs')
    BY <2>1 DEF Onward, ClipStage, Stage
  <2>3. ClipStage' \in Int /\ ClipStage' < ClipStage
    BY <2>2, <1>2
  <2>4. QED
    BY <2>1, <2>3, <1>3, <1>b
<1>13. CASE EncodeExitsZero
  <2>1. pc = "encode" /\ Onward("postcheck")
    BY <1>13 DEF EncodeExitsZero
  <2>2. ClipStage = 12 + Cardinality(rungs) /\ ClipStage' = 12
    BY <2>1 DEF Onward, ClipStage, Stage
  <2>3. rungs # {}
    BY <2>1 DEF IInv, LadderInv, InClip, TryBlock
  <2>4. Cardinality(rungs) # 0
    BY <2>3, <1>1, FS_EmptySet
  <2>5. ClipStage' \in Int /\ ClipStage' < ClipStage
    BY <2>2, <2>4, <1>1
  <2>6. QED
    BY <2>1, <2>5, <1>3, <1>b
<1>14. CASE EncodeExitsNonzero
  <2>1. pc = "encode" /\ rungs' = rungs \ {Best(rungs)}
    BY <1>14 DEF EncodeExitsNonzero
  <2>2. CASE rungs' = {}
    BY <1>14, <2>1, <2>2, <1>3, <1>a DEF EncodeExitsNonzero
  <2>3. CASE rungs' # {}
    <3>1. Onward("encode")
      BY <1>14, <2>3 DEF EncodeExitsNonzero
    <3>2. rungs # {} /\ rungs \in SUBSET Rungs
      BY <2>1, <1>1 DEF IInv, LadderInv, InClip, TryBlock, TypeOK
    <3>3. Best(rungs) \in rungs
      BY <3>2, BestIsBest
    <3>4. Cardinality(rungs') = Cardinality(rungs) - 1
      BY <2>1, <3>3, <1>1, FS_RemoveElement
    <3>5. ClipStage = 12 + Cardinality(rungs) /\ ClipStage' = 12 + Cardinality(rungs')
      BY <2>1, <3>1 DEF Onward, ClipStage, Stage
    <3>6. ClipStage' \in Int /\ ClipStage' < ClipStage
      BY <3>4, <3>5, <1>1
    <3>7. QED
      BY <2>1, <3>1, <3>6, <1>3, <1>b
  <2>4. QED
    BY <2>2, <2>3
<1>15. CASE EncodeTimesOut
  BY <1>15, <1>3, <1>a DEF EncodeTimesOut
<1>16. CASE PostCheck
  <2>1. pc = "postcheck"
    BY <1>16 DEF PostCheck
  <2>2. CASE Onward("thumbnail")
    <3>1. ClipStage = 12 /\ ClipStage' = 11
      BY <2>1, <2>2 DEF Onward, ClipStage, Stage
    <3>2. QED
      BY <2>1, <2>2, <3>1, <1>3, <1>b
  <2>3. CASE \E err : FailClip(err)
    BY <2>1, <2>3, <1>3, <1>a
  <2>4. QED
    BY <1>16, <2>2, <2>3 DEF PostCheck
<1>17. CASE Thumbnail
  <2>1. pc = "thumbnail" /\ Onward("gate")
    BY <1>17 DEF Thumbnail
  <2>2. ClipStage = 11 /\ ClipStage' = 10
    BY <2>1 DEF Onward, ClipStage, Stage
  <2>3. QED
    BY <2>1, <2>2, <1>1, <1>3, <1>b
<1>18. CASE Gate
  <2>1. pc = "gate" /\ tries' = tries
    BY <1>18 DEF Gate
  <2>2. CASE Onward("putOutput")
    <3>1. ClipStage = 10 /\ ClipStage' = 9 - tries
      BY <2>1, <2>2 DEF Onward, ClipStage, Stage
    <3>2. ClipStage' \in Int /\ ClipStage' < ClipStage
      BY <3>1, <1>1
    <3>3. QED
      BY <2>1, <2>2, <3>2, <1>3, <1>b
  <2>3. CASE FailClip(JobError("TIMEOUT", TRUE))
    BY <2>1, <2>3, <1>3, <1>a
  <2>4. QED
    BY <1>18, <2>2, <2>3 DEF Gate
<1>19. CASE PutAccepted
  <2>1. tries' = 0 /\ tries < 3
    BY <1>19 DEF PutAccepted, PutsLeft, Attempts
  <2>2. CASE pc = "putOutput" /\ Onward("putThumbnail")
    <3>1. ClipStage = 9 - tries /\ ClipStage' = 5 - 0
      BY <2>1, <2>2 DEF Onward, ClipStage, Stage
    <3>2. ClipStage' \in Int /\ ClipStage' < ClipStage
      BY <2>1, <3>1, <1>1
    <3>3. QED
      BY <2>2, <3>2, <1>3, <1>b
  <2>3. CASE pc \in {"putOutput", "putThumbnail"} /\ Onward("finish")
    <3>1. ClipStage \in {9 - tries, 5 - tries} /\ ClipStage' = 1
      BY <2>3 DEF Onward, ClipStage, Stage
    <3>2. ClipStage' \in Int /\ ClipStage' < ClipStage
      BY <3>1, <1>1
    <3>3. QED
      BY <2>3, <3>2, <1>3, <1>b
  <2>4. QED
    BY <1>19, <2>2, <2>3 DEF PutAccepted, PutsLeft, Putting
<1>20. CASE PutUnanswered
  <2>1. /\ pc \in {"putOutput", "putThumbnail"} /\ pc' = pc /\ clip' = clip
        /\ tries' = tries + 1
    BY <1>20 DEF PutUnanswered, PutsLeft, Putting
  <2>2. \/ ClipStage = 9 - tries /\ ClipStage' = 9 - (tries + 1)
        \/ ClipStage = 5 - tries /\ ClipStage' = 5 - (tries + 1)
    BY <2>1 DEF ClipStage, Stage
  <2>3. ClipStage' \in Int /\ ClipStage' < ClipStage
    BY <2>2, <1>1
  <2>4. QED
    BY <2>1, <2>3, <1>1, <1>3, ClipMovesOn
<1>21. CASE PutGivenUp
  BY <1>21, <1>3, <1>a DEF PutGivenUp, Putting
<1>22. CASE PutRefused
  BY <1>22, <1>3, <1>a DEF PutRefused, PutsLeft, Putting
<1>23. CASE FinishClip
  BY <1>23, <1>1, <1>3, ClipEnds DEF FinishClip
<1>24. CASE Crash
  BY <1>24, <1>c DEF Crash
<1>25. CASE Cleanup
  BY <1>25 DEF Cleanup, StepsLeft
<1>26. QED
  BY <1>4, <1>5, <1>6, <1>7, <1>8, <1>9, <1>10, <1>11, <1>12, <1>13, <1>14, <1>15, <1>16, <1>17, <1>18, <1>19, <1>20, <1>21, <1>22, <1>23, <1>24, <1>25 DEF Step

\* The job has an end, however its clips fail: each step of the thread, an
\* exception too, counts down from a bound that only the number of clips enters;
\* a retry, a rung or a failed clip never starts anything over, and the clock
\* makes no step more (process_clips(), _render(), upload()).
THEOREM StepsRunOut ==
    Spec => /\ [](StepsLeft \in 0..(19 * N + 4))
            /\ [][(Step \/ Crash => StepsLeft' < StepsLeft)
                  /\ (DeadlinePasses => StepsLeft' = StepsLeft)]_vars
<1>1. IInv => StepsLeft \in 0..(19 * N + 4)
  BY StepsLeftType DEF IInv
<1>2. IInv /\ IInv' /\ [Next]_vars =>
         [(Step \/ Crash => StepsLeft' < StepsLeft)
          /\ (DeadlinePasses => StepsLeft' = StepsLeft)]_vars
  <2> SUFFICES ASSUME IInv, IInv'
               PROVE  /\ Step \/ Crash => StepsLeft' < StepsLeft
                      /\ DeadlinePasses => StepsLeft' = StepsLeft
    OBVIOUS
  <2>1. TypeOK'
    BY DEF IInv
  <2>2. ASSUME DeadlinePasses PROVE StepsLeft' = StepsLeft
    BY <2>2 DEF DeadlinePasses, StepsLeft, ClipStage
  <2>3. QED
    BY <2>1, <2>2, StepCounts
<1>3. QED
  BY <1>1, <1>2, Invariance, InvStep, PTL DEF Spec
==============================================================================
