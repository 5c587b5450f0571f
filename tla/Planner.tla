------------------------------- MODULE Planner -------------------------------
(***************************************************************************)
(* The decision what to do to a frame: clamp_dimensions() and plan_video() *)
(* (postiz_uploader/planner.py), what ffmpeg is told to make of the plan   *)
(* (build_remux and build_encode in ffmpeg.py), the post-check of what it  *)
(* made (video.py), and the image stage (image.py).                        *)
(*                                                                         *)
(* A medium is normalised, and its output is sent in again as the source   *)
(* of a second job with the same rules.  Sides are exact integers and the  *)
(* scale is an exact fraction.  Of each property of a file the model keeps *)
(* whether it is what the rules ask for.                                   *)
(***************************************************************************)
EXTENDS Integers

CONSTANTS
    Sides,         \* the sides of source frames, in pixels
    ShortMins,     \* rules.short_side_min
    ShortMaxs,     \* rules.short_side_max
    LongMaxs       \* rules.long_side_max

ASSUME SidesAssumption == Sides \subseteq Nat \ {0}
\* The request schema asks for bounds of one pixel at least.
ASSUME BoundsAssumption == /\ ShortMins \subseteq Nat \ {0}
                           /\ ShortMaxs \subseteq Nat \ {0}
                           /\ LongMaxs \subseteq Nat \ {0}

Media == {"video", "image"}

\* parse_job() refuses a minimum above the maximum.
Rules == {r \in [shortMin : ShortMins, shortMax : ShortMaxs, longMax : LongMaxs,
                 faststart : BOOLEAN] : r.shortMin <= r.shortMax}

Frame(w, h) == [w |-> w, h |-> h]

\* What probe() or Pillow says of a file.  "fit" is h264 in yuv420p, or an mp4
\* container, or aac at the sample rate of the rules; fps "over" is more than
\* fps_max; faststart "none" is a file that is no ISO BMFF, which sniff() lets
\* pass in other containers only.  An image has a frame, an orientation tag
\* (rotated) and whether it is "animated", a GIF or of several frames, only.
Infos(frames) ==
    [frame : frames, rotated : BOOLEAN, hdr : BOOLEAN, codec : {"fit", "other"},
     fps : {"within", "over"}, audio : {"none", "fit", "other"},
     container : {"fit", "other"}, faststart : {"yes", "no", "none"}, animated : BOOLEAN]

SourceFrames == {Frame(w, h) : w \in Sides, h \in Sides}

Sources(m) ==
    IF m = "video"
    THEN {i \in Infos(SourceFrames) :
             /\ ~ i.animated
             /\ i.container = "fit" => i.faststart # "none"}
    ELSE {i \in Infos(SourceFrames) :
             /\ ~ i.hdr /\ i.codec = "fit" /\ i.fps = "within" /\ i.audio = "none"
             /\ i.container = "fit" /\ i.faststart = "yes"}

VARIABLES
    pc,       \* "given", "planned", "made", "checked", "settled" or "failed"
    media,    \* job.type
    rules,    \* job.rules
    info,     \* the file the job is about, after "made" the one it made
    origin,   \* the file it was made from
    plan,     \* the Plan
    passes    \* completed jobs so far

vars == <<pc, media, rules, info, origin, plan, passes>>
----------------------------------------------------------------------------
(***************************************************************************)
(* clamp_dimensions().                                                     *)
(***************************************************************************)
Smaller(a, b) == IF a <= b THEN a ELSE b
Larger(a, b) == IF a >= b THEN a ELSE b

Short(f) == Smaller(f.w, f.h)
Long(f) == Larger(f.w, f.h)

\* Python's round() of p / q: to the nearest, a tie to the even neighbour.
Round(p, q) ==
    LET down == p \div q
        rest == 2 * (p % q)
    IN  IF rest < q \/ (rest = q /\ down % 2 = 0) THEN down ELSE down + 1

\* Mutant: cut off in place of rounded.
RoundSideDown(p, q, even) ==
    IF even THEN Larger(2 * (p \div (2 * q)), 2) ELSE Larger(p \div q, 1)

\* Mutant: a side that rounds to nothing stays so.
RoundSideToZero(p, q, even) == IF even THEN 2 * Round(p, 2 * q) ELSE Round(p, q)

RoundSide(p, q, even) == IF even THEN Larger(2 * Round(p, 2 * q), 2) ELSE Larger(Round(p, q), 1)

\* The scale that brings the shorter side into its bounds.
ShortScale(f, r) ==
    IF Short(f) < r.shortMin THEN [num |-> r.shortMin, den |-> Short(f)]
    ELSE IF Short(f) > r.shortMax THEN [num |-> r.shortMax, den |-> Short(f)]
    ELSE [num |-> 1, den |-> 1]

\* Mutant: the long cap is looked at before the frame is scaled.
ScaleUnscaledLong(f, r) ==
    IF Long(f) > r.longMax THEN [num |-> r.longMax, den |-> Long(f)] ELSE ShortScale(f, r)

\* The long cap wins.
Scale(f, r) ==
    LET s == ShortScale(f, r) IN
    IF Long(f) * s.num > r.longMax * s.den THEN [num |-> r.longMax, den |-> Long(f)] ELSE s

StepLongBack(f, cap, step) ==
    IF Long(f) <= cap THEN f
    ELSE IF f.w >= f.h THEN Frame(f.w - step, f.h) ELSE Frame(f.w, f.h - step)

StepShortBack(f, cap, step) ==
    IF Short(f) <= cap THEN f
    ELSE IF f.w <= f.h THEN Frame(f.w - step, f.h) ELSE Frame(f.w, f.h - step)

ClampDimensions(f, r, even) ==
    LET s       == Scale(f, r)
        rounded == Frame(RoundSide(f.w * s.num, s.den, even), RoundSide(f.h * s.num, s.den, even))
        step    == IF even THEN 2 ELSE 1
    IN  StepShortBack(StepLongBack(rounded, r.longMax, step), r.shortMax, step)

(***************************************************************************)
(* plan_video().                                                           *)
(***************************************************************************)
Plans(frames) ==
    [kind : {"unchanged", "remux", "encode"}, frame : frames, video : BOOLEAN, audio : BOOLEAN]

Plan(kind, frame, video, audio) ==
    [kind |-> kind, frame |-> frame, video |-> video, audio |-> audio]

NoPlan == Plan("unchanged", Frame(0, 0), FALSE, FALSE)

NeedsVideoEncode(i, target) ==
    target # i.frame \/ i.hdr \/ i.rotated \/ i.fps = "over" \/ i.codec # "fit"

NeedsAudioEncode(i) == i.audio = "other"

\* Mutant: faststart is missed also where the rules do not ask for it.
NeedsRemuxUnasked(i, r) == i.container # "fit" \/ i.faststart = "no"

NeedsRemux(i, r) == i.container # "fit" \/ (r.faststart /\ i.faststart = "no")

VideoPlan(i, r) ==
    LET target == ClampDimensions(i.frame, r, TRUE)
        video  == NeedsVideoEncode(i, target)
        audio  == NeedsAudioEncode(i)
    IN  IF video \/ audio THEN Plan("encode", target, video, audio)
        ELSE IF NeedsRemux(i, r) THEN Plan("remux", i.frame, FALSE, FALSE)
        ELSE Plan("unchanged", i.frame, FALSE, FALSE)

(***************************************************************************)
(* What an ffmpeg that does as it is told makes of a plan: a copied stream *)
(* stays as it is, and the container is written anew in any case.  A side  *)
(* of 0 in the filter "scale" means that of the input.                     *)
(***************************************************************************)
Scaled(from, to) ==
    Frame(IF to.w = 0 THEN from.w ELSE to.w, IF to.h = 0 THEN from.h ELSE to.h)

\* Mutant: the rotate tag of the input survives into the output.
RenderedWithTag(i, p, r) ==
    [i EXCEPT !.frame = Scaled(i.frame, p.frame), !.container = "fit",
              !.faststart = IF r.faststart THEN "yes" ELSE "no",
              !.hdr = @ /\ ~ p.video,
              !.codec = IF p.video THEN "fit" ELSE @,
              !.fps = IF p.video THEN "within" ELSE @,
              !.audio = IF p.audio THEN "fit" ELSE @]

Rendered(i, p, r) ==
    [i EXCEPT !.frame = Scaled(i.frame, p.frame), !.container = "fit",
              !.faststart = IF r.faststart THEN "yes" ELSE "no",
              !.hdr = @ /\ ~ p.video,
              !.rotated = @ /\ ~ p.video,
              !.codec = IF p.video THEN "fit" ELSE @,
              !.fps = IF p.video THEN "within" ELSE @,
              !.audio = IF p.audio THEN "fit" ELSE @]

\* _post_check() of the file an ENCODE or a REMUX made.
PostCheckPasses(i, p, r) ==
    /\ p.video => i.codec = "fit" /\ ~ i.rotated
    /\ p.audio => i.audio = "fit"
    /\ i.frame = p.frame
    /\ i.container = "fit"
    /\ r.faststart => i.faststart = "yes"
----------------------------------------------------------------------------
Init ==
    /\ pc = "given"
    /\ media \in Media
    /\ rules \in {r \in Rules : media = "image" => r.faststart}
    /\ info \in Sources(media)
    /\ origin = info
    /\ plan = NoPlan
    /\ passes = 0

PlanVideo ==
    /\ pc = "given"
    /\ media = "video"
    /\ plan' = VideoPlan(info, rules)
    /\ pc' = "planned"
    /\ UNCHANGED <<media, rules, info, origin, passes>>

\* The original satisfies every rule and stays the file.
Unchanged ==
    /\ pc = "planned"
    /\ plan.kind = "unchanged"
    /\ pc' = "settled"
    /\ UNCHANGED <<media, rules, info, origin, plan, passes>>

Render ==
    /\ pc = "planned"
    /\ plan.kind # "unchanged"
    /\ origin' = info
    /\ info' = Rendered(info, plan, rules)
    /\ pc' = "made"
    /\ UNCHANGED <<media, rules, plan, passes>>

PostCheck ==
    /\ pc = "made"
    /\ IF PostCheckPasses(info, plan, rules)
       THEN pc' = "checked" /\ passes' = passes + 1
       ELSE pc' = "failed" /\ UNCHANGED passes
    /\ UNCHANGED <<media, rules, info, origin, plan>>

\* process_image(): orient, clamp, save without the tag.  An animation is never
\* touched, whatever its size.
NormaliseImage ==
    /\ pc = "given"
    /\ media = "image"
    /\ LET target == ClampDimensions(info.frame, rules, FALSE) IN
       IF info.animated \/ (target = info.frame /\ ~ info.rotated)
       THEN /\ pc' = "settled"
            /\ plan' = Plan("unchanged", info.frame, FALSE, FALSE)
            /\ UNCHANGED <<info, origin, passes>>
       ELSE /\ pc' = "checked"
            /\ plan' = Plan("encode", target, TRUE, FALSE)
            /\ origin' = info
            /\ info' = [info EXCEPT !.frame = target, !.rotated = FALSE]
            /\ passes' = passes + 1
    /\ UNCHANGED <<media, rules>>

\* The output becomes the source of another job with the same rules.
MaxPasses == 3

SendAgain ==
    /\ pc = "checked"
    /\ passes < MaxPasses
    /\ pc' = "given"
    /\ UNCHANGED <<media, rules, info, origin, plan, passes>>

Next ==
    \/ PlanVideo \/ Unchanged \/ Render \/ PostCheck
    \/ NormaliseImage
    \/ SendAgain

Spec == Init /\ [][Next]_vars
----------------------------------------------------------------------------
Frames == [w : Nat \ {0}, h : Nat \ {0}]

\* A cap of one pixel leaves a video target an even side of none.
Targets == [w : Nat, h : Nat]

TypeOK ==
    /\ pc \in {"given", "planned", "made", "checked", "settled", "failed"}
    /\ media \in Media
    /\ rules \in Rules
    /\ info \in Infos(Frames)
    /\ origin \in Infos(Frames)
    /\ plan \in Plans(Targets)
    /\ passes \in 0..MaxPasses

\* H.264 sides are even, so a rule with an odd bound cannot always be met.
EvenRules == \A b \in {rules.shortMin, rules.shortMax, rules.longMax} : b % 2 = 0

Attainable == media = "image" \/ EvenRules

\* What the rules of README 4.1 ask of a file, said without any scaling: inside
\* both caps, not below the minimum unless the long side is at its cap.
Complies(i) ==
    /\ Short(i.frame) <= rules.shortMax
    /\ Long(i.frame) <= rules.longMax
    /\ Short(i.frame) >= rules.shortMin \/ Long(i.frame) = rules.longMax
    /\ ~ i.rotated
    /\ media = "video" =>
          /\ i.frame.w % 2 = 0 /\ i.frame.h % 2 = 0
          /\ ~ i.hdr /\ i.codec = "fit" /\ i.fps = "within" /\ i.audio # "other"
          /\ i.container = "fit"
          /\ rules.faststart => i.faststart = "yes"

\* Every file the caller ends with, uploaded or its own original, satisfies all
\* the rules (README 4.1, 4.2), although the two bounds pull the one scale in
\* opposite directions and each side is rounded alone.  An animation is the one
\* exception (README 5.7): the caller ends with the very file it sent.
ResultComplies ==
    pc \in {"checked", "settled"} =>
        IF origin.animated THEN info = origin ELSE Attainable => Complies(info)

\* An output sent in again is unchanged: no job of a file is ever due twice.
SecondPassIsIdle ==
    Attainable /\ passes > 0 /\ pc \in {"planned", "settled"} => plan.kind = "unchanged"

\* The post-check fails no job of an obedient ffmpeg on its own account, odd
\* bounds included, but for a target with a side of nothing, which takes a cap of
\* one pixel: it asks for what no frame has.
PostCheckFair ==
    pc = "failed" => /\ 1 \in {rules.shortMax, rules.longMax}
                     /\ 0 \in {plan.frame.w, plan.frame.h}

\* One scale for both sides, and rounding moves no side by more than a pixel,
\* unless the side would have been thinner than one (clamp_dimensions docstring).
AspectKept ==
    Attainable /\ pc = "checked" =>
        LET s == Scale(origin.frame, rules)
            Near(made, given) ==
                \/ given * s.num < s.den
                \/ /\ made * s.den - given * s.num <= s.den
                   /\ given * s.num - made * s.den <= s.den
        IN  Near(info.frame.w, origin.frame.w) /\ Near(info.frame.h, origin.frame.h)

\* README 4.1 and a comment in clamp_dimensions: rounding never lands above a
\* cap, with an odd cap the side steps back to the even number below it.
NeverAboveCap ==
    pc = "checked" => Short(info.frame) <= rules.shortMax /\ Long(info.frame) <= rules.longMax
=============================================================================
