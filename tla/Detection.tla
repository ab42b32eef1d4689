----------------------------- MODULE Detection ------------------------------
(***************************************************************************)
(* The detect and cut steps of one episode                                 *)
(* (backend/hushcast/pipeline/steps/detect.py, cut.py): the transcript is  *)
(* cut into overlapping chunks (detection/prompts.py), the model is asked  *)
(* about each (detection/llm.py), what it cited goes through the rounds of *)
(* Segments, the result is judged and stored, the user corrects the rows   *)
(* (api/episodes.py), and the rest of the audio is kept.                   *)
(*                                                                         *)
(* Pipeline and Artifacts are about who runs the steps and when; here one  *)
(* run takes them one after the other, without a crash.                    *)
(***************************************************************************)
EXTENDS Transcription

CONSTANTS
    Budget, ChunkOverlap,   \* of a chunk: its size, and what it shares with the next
    MALFORMED_RETRIES,
    Cited,                  \* bound: what a reply may contain, sets of segments
    Cues,                   \* the non-speech intervals of the audio
    PromoActions,           \* values of the setting promo_episode_action
    ManualTimes,            \* bound: the times a user enters
    MaxCorrections          \* bound: corrections by the user

ASSUME DetectionAssumption ==
    /\ Budget \in Nat /\ ChunkOverlap \in Nat /\ MALFORMED_RETRIES \in Nat
    /\ Cited \subseteq SUBSET Interval
    /\ Cues \subseteq Interval
    /\ PromoActions \subseteq {"skip", "passthrough"}
    /\ ManualTimes \subseteq Int /\ MaxCorrections \in Nat

MAX_REMOVED_PCT        == 50
PROMO_MIN_COVERAGE_PCT == 80

VARIABLES
    chunk,          \* the chunk the model is asked about: lines from + 1 to upto
    call,           \* _detect_chunk: the attempt, its response_format, what was salvaged
    answers,        \* what the model said of each chunk so far
    todo,           \* the loop over segments: those it has not looked at,
    out,            \* and what it has produced
    rows,           \* the segments table
    corrections,    \* how many corrections there have been
    decided,        \* history: a person corrected something or asked for the cut
    cursor          \* keep_ranges

detectionVars == <<chunk, call, answers, todo, out, rows, corrections, decided, cursor>>

vars == <<step, transcriptionVars, detectionVars>>

\* A DetectionResult that _detect_chunk holds on to, or none
NoResult == [segments |-> {}, promo |-> FALSE, salvaged |-> FALSE]
Answer   == [from : Nat, upto : Nat, segments : SUBSET Interval, promo : BOOLEAN]
Formats  == {"json_schema", "json_object", "none"}
NewChunk == [from |-> 0, upto |-> 0]
NewCall  == [attempt |-> 0, format |-> "json_schema", salvaged |-> NoResult]
Row      == [start : Int, end : Int, kept : BOOLEAN, source : {"llm", "promo", "manual"}]

PC == {"transcribe", "split", "listen", "sentences", "chunk", "ask", "merge", "bridge",
       "refine", "judge", "review", "skipped", "stored", "keep", "done", "failed"}

DetectionTypeOK ==
    /\ step \in PC
    /\ chunk \in [from : Nat, upto : Nat]
    /\ call \in [attempt : 0..MALFORMED_RETRIES, format : Formats,
                 salvaged : [segments : SUBSET Interval, promo : BOOLEAN, salvaged : BOOLEAN]]
    /\ answers \subseteq Answer
    /\ todo \subseteq Interval
    /\ out \subseteq Interval
    /\ rows \subseteq Row
    /\ corrections \in 0..MaxCorrections /\ decided \in BOOLEAN
    /\ cursor \in Int

DetectionInit ==
    /\ chunk = NewChunk
    /\ call = NewCall
    /\ answers = {}
    /\ todo = {} /\ out = {}
    /\ rows = {}
    /\ corrections = 0 /\ decided = FALSE
    /\ cursor = 0

-----------------------------------------------------------------------------
\* CHUNKS

\* The size of a line's text, taken to grow with its time.
Size(i)        == 1 + Length(lines[i])
SizeOf(i, j)   == MapThenSumSet(Size, i..j)

\* The whole may be a little over the budget, by what rounding its size to
\* tokens takes off; a chunk may not.
Fits(from, upto) ==
    SizeOf(from + 1, upto) <= IF from = 0 /\ upto = Len(lines) THEN Budget + 1 ELSE Budget

\* One chunk when the whole fits, otherwise as many lines as fit, at least one.
EndsChunk(from, upto) ==
    \/ upto = Len(lines) /\ Fits(from, upto)
    \/ upto = from + 1 /\ ~Fits(from, upto)
    \/ upto < Len(lines) /\ Fits(from, upto) /\ ~Fits(from, upto + 1)

\* Mutant: the chunk may step back to where it came from.
StepsBackToItself(from, upto, next) ==
    LET overlap_start == lines[upto].end - ChunkOverlap IN
    /\ next \in from..upto
    /\ \A i \in (next + 1)..upto : lines[i].start > overlap_start
    /\ next = from \/ (next > 0 /\ lines[next].start <= overlap_start)

\* Mutant: the line that did not fit is left out.
StepsOver(from, upto, next) == next = upto + 1

\* The next chunk begins after "next": back over what starts within the overlap.
StepsBack(from, upto, next) ==
    LET overlap_start == lines[upto].end - ChunkOverlap IN
    /\ next \in (from + 1)..upto
    /\ \A i \in (next + 1)..upto : lines[i].start > overlap_start
    /\ next = from + 1 \/ lines[next].start <= overlap_start

NextChunk ==
    /\ step = "chunk"
    /\ \E upto \in (chunk.from + 1)..Len(lines) :
           /\ EndsChunk(chunk.from, upto)
           /\ chunk' = [chunk EXCEPT !.upto = upto]
    /\ call' = NewCall
    /\ step' = "ask"
    /\ UNCHANGED <<transcriptionVars, answers, todo, out, rows, corrections, decided, cursor>>

-----------------------------------------------------------------------------
\* THE MODEL

Results == [segments : Cited, promo : BOOLEAN]

\* chat(): a server that rejects the response_format is asked in a plainer one.
FormatRejected ==
    /\ step = "ask" /\ call.format # "none"
    /\ call' = [call EXCEPT !.format = IF @ = "json_schema" THEN "json_object" ELSE "none"]
    /\ UNCHANGED <<step, transcriptionVars, chunk, answers, todo, out, rows, corrections, decided, cursor>>

\* Any other error ends the step.
ChatFails ==
    /\ step = "ask"
    /\ step' = "failed"
    /\ UNCHANGED <<transcriptionVars, detectionVars>>

\* detect_ads: the result for the chunk is added, and after the last chunk
\* post-processing starts with the candidates of all of them.
Conclude(result) ==
    LET said == answers \union {[from |-> chunk.from, upto |-> chunk.upto,
                                 segments |-> result.segments, promo |-> result.promo]}
    IN
    /\ answers' = said
    /\ \/ /\ chunk.upto < Len(lines)
          /\ \E next \in 0..Len(lines) :
                 /\ StepsBack(chunk.from, chunk.upto, next)
                 /\ chunk' = [from |-> next, upto |-> next]
          /\ step' = "chunk"
          /\ UNCHANGED todo
       \/ /\ chunk.upto >= Len(lines)
          /\ todo' = Candidates(UNION {a.segments : a \in said}, Boundaries(Range(lines)))
          /\ chunk' = NewChunk
          /\ step' = "merge"

Complete ==
    /\ step = "ask"
    /\ \E result \in Results : Conclude(result)
    /\ call' = NewCall
    /\ UNCHANGED <<transcriptionVars, out, rows, corrections, decided, cursor>>

\* Mutant: one attempt too many.
OneAttemptMore == call.attempt > MALFORMED_RETRIES

LastAttempt == call.attempt >= MALFORMED_RETRIES

\* A reply without usable JSON leaves what was salvaged from earlier ones; one
\* that was cut off replaces it.
Unusable(salvaged) ==
    /\ step = "ask"
    /\ \/ /\ ~LastAttempt
          /\ call' = [attempt |-> call.attempt + 1, format |-> "json_schema", salvaged |-> salvaged]
          /\ UNCHANGED <<step, chunk, answers, todo>>
       \/ /\ LastAttempt /\ salvaged.salvaged
          /\ Conclude(salvaged)
          /\ call' = NewCall
       \/ /\ LastAttempt /\ ~salvaged.salvaged
          /\ step' = "failed"
          /\ UNCHANGED <<chunk, call, answers, todo>>
    /\ UNCHANGED <<transcriptionVars, out, rows, corrections, decided, cursor>>

Malformed == Unusable(call.salvaged)
Truncated == \E r \in Results :
                 Unusable([segments |-> r.segments, promo |-> r.promo, salvaged |-> TRUE])
-----------------------------------------------------------------------------
\* POST-PROCESSING: merge, cue bridging and edge extension, refinement

Merging ==
    /\ step = "merge"
    /\ \/ \E s \in First(todo) : todo' = todo \ {s} /\ out' = Merge(out, s) /\ UNCHANGED step
       \/ /\ todo = {}
          /\ todo' = out /\ out' = {}
          /\ step' = IF Cues = {} THEN "refine" ELSE "bridge"
    /\ UNCHANGED <<transcriptionVars, chunk, call, answers, rows, corrections, decided, cursor>>

Bridging ==
    /\ step = "bridge"
    /\ \/ \E s \in First(todo) :
              todo' = todo \ {s} /\ out' = BridgeOverCues(out, s, Cues) /\ UNCHANGED step
       \/ /\ todo = {}
          /\ todo' = ExtendToEdges(out, Cues) /\ out' = {}
          /\ step' = "refine"
    /\ UNCHANGED <<transcriptionVars, chunk, call, answers, rows, corrections, decided, cursor>>

\* The words are those of the lines, one to a line.
Gaps == WordGaps(Range(lines))

Refining ==
    /\ step = "refine"
    /\ \/ /\ \E s \in First(todo) :
                 \E start \in CutPoints(s.start, Gaps, 0 - 1), end \in CutPoints(s.end, Gaps, 1) :
                     /\ todo' = todo \ {s}
                     /\ out' = out \union {Refine(s, start, end, out, todo \ {s})}
          /\ UNCHANGED step
       \/ /\ todo = {}
          /\ step' = "judge"
          /\ UNCHANGED <<todo, out>>
    /\ UNCHANGED <<transcriptionVars, chunk, call, answers, rows, corrections, decided, cursor>>

-----------------------------------------------------------------------------
\* THE VERDICT

\* _store_segments
Rows(S, kept, source) == {[start |-> s.start, end |-> s.end, kept |-> kept, source |-> source] : s \in S}

\* Mutant: one chunk is enough.
AnyPromo == \E a \in answers : a.promo

AllPromo == answers # {} /\ \A a \in answers : a.promo

\* A chunked episode is promo-only only if every chunk says so, and what was
\* found backs it up.
WholeEpisodePromo == AllPromo /\ 100 * Removed(out) >= PROMO_MIN_COVERAGE_PCT * Duration

\* Mutant: the limit is on each segment.
OverLimitOfTheLongest == \E s \in out : 100 * Length(s) > MAX_REMOVED_PCT * Duration

OverLimit == 100 * Removed(out) > MAX_REMOVED_PCT * Duration

Judge ==
    /\ step = "judge"
    /\ \/ /\ WholeEpisodePromo
          /\ rows' = Rows(out, TRUE, "promo")
          /\ \E action \in PromoActions : step' = IF action = "passthrough" THEN "stored" ELSE "skipped"
       \/ /\ ~WholeEpisodePromo /\ OverLimit
          /\ rows' = Rows(out, FALSE, "llm")
          /\ step' = "review"
       \/ /\ ~WholeEpisodePromo /\ ~OverLimit
          /\ rows' = Rows(out, FALSE, "llm")
          /\ step' = "stored"
    /\ answers' = {} /\ out' = {}
    /\ UNCHANGED <<transcriptionVars, chunk, call, todo, corrections, decided, cursor>>

-----------------------------------------------------------------------------
\* THE USER, while there are rows and before they are cut by

Correctable == step \in {"stored", "review", "skipped"} /\ corrections < MaxCorrections

\* PATCH /segments/{id}
PatchSegment ==
    /\ Correctable
    /\ \E r \in rows, kept \in BOOLEAN :
           /\ r.source = "llm"
           /\ rows' = (rows \ {r}) \union {[r EXCEPT !.kept = kept]}
    /\ corrections' = corrections + 1
    /\ decided' = TRUE
    /\ UNCHANGED <<step, transcriptionVars, chunk, call, answers, todo, out, cursor>>

\* POST /episodes/{id}/segments: a part of what was detected that is not an
\* ad, or an ad that was missed.
AddManualSegment ==
    /\ Correctable
    /\ \E start, end \in ManualTimes, not_ad \in BOOLEAN :
           LET overlapping == {r \in rows : ~r.kept /\ r.start < end /\ r.end > start} IN
           /\ end > start
           /\ IF not_ad THEN overlapping # {}
              ELSE \A r \in overlapping : ~(r.start <= start /\ r.end >= end)
           /\ rows' = rows \union {[start |-> start, end |-> end, kept |-> not_ad, source |-> "manual"]}
    /\ corrections' = corrections + 1
    /\ decided' = TRUE
    /\ UNCHANGED <<step, transcriptionVars, chunk, call, answers, todo, out, cursor>>

\* DELETE /segments/{id}
DeleteSegment ==
    /\ Correctable
    /\ \E r \in rows : r.source = "manual" /\ rows' = rows \ {r}
    /\ corrections' = corrections + 1
    /\ decided' = TRUE
    /\ UNCHANGED <<step, transcriptionVars, chunk, call, answers, todo, out, cursor>>

\* "Cut as shown" of an episode in review, Process of a skipped one: the run
\* finds rows and does not detect again.
Proceed ==
    /\ step \in {"review", "skipped"}
    /\ step' = "stored"
    /\ decided' = TRUE
    /\ UNCHANGED <<transcriptionVars, chunk, call, answers, todo, out, rows, corrections, cursor>>

-----------------------------------------------------------------------------
\* THE CUT

\* Mutant: all rows are cut.
EveryRow == {[start |-> r.start, end |-> r.end] : r \in rows}

ToCut == {[start |-> r.start, end |-> r.end] : r \in {r \in rows : ~r.kept}}

\* cut.run: copied through when nothing is to be cut.
BeginCut ==
    /\ step = "stored"
    /\ todo' = ToCut
    /\ \/ ToCut = {} /\ out' = {[start |-> 0, end |-> Duration]} /\ step' = "done"
       \/ ToCut # {} /\ out' = {} /\ step' = "keep"
    /\ cursor' = 0
    /\ UNCHANGED <<transcriptionVars, chunk, call, answers, rows, corrections, decided>>

\* keep_ranges, and ffmpeg, which cannot keep more than there is and refuses to
\* keep nothing
KeepRanges ==
    /\ step = "keep"
    /\ \/ \E s \in First(todo) :
              /\ todo' = todo \ {s}
              /\ out' = KeepBefore(out, cursor, s)
              /\ cursor' = Later(cursor, s.end)
              /\ UNCHANGED step
       \/ /\ todo = {}
          /\ out' = IF cursor < Duration THEN out \union {[start |-> cursor, end |-> Duration]} ELSE out
          /\ step' = IF out' = {} THEN "failed" ELSE "done"
          /\ UNCHANGED <<todo, cursor>>
    /\ UNCHANGED <<transcriptionVars, chunk, call, answers, rows, corrections, decided>>

Audio == Covered(out) \cap (0 .. (Duration - 1))

-----------------------------------------------------------------------------
Init == TranscriptionInit /\ DetectionInit

RunStep ==
    \/ TranscriptionStep /\ UNCHANGED detectionVars
    \/ NextChunk \/ FormatRejected \/ ChatFails \/ Complete \/ Malformed \/ Truncated
    \/ Merging \/ Bridging \/ Refining \/ Judge \/ BeginCut \/ KeepRanges

UserStep == PatchSegment \/ AddManualSegment \/ DeleteSegment \/ Proceed

Ended == step \in {"done", "failed"} /\ UNCHANGED vars

Next == RunStep \/ UserStep \/ Ended

Spec     == Init /\ [][Next]_vars
FairSpec == Spec /\ WF_vars(RunStep)

-----------------------------------------------------------------------------
\* PROPERTIES

TypeOK == TranscriptionTypeOK /\ DetectionTypeOK

\* However an upload is sliced, each utterance is transcribed by one part and
\* kept from that one: nothing is lost and nothing is there twice.  What
\* starts within Drift of where two parts meet may be, and what lies within
\* Drift of either end of the audio, and replies that time only words are
\* about runs of one speaker, which no part may own.
WellInside(u) ==
    /\ Drift < u.end /\ u.start + Drift < Duration
    /\ \A k \in 1..Duration : u.start + Drift < k * PartSeconds \/ u.start - Drift >= k * PartSeconds
Copies(u)     == {s \in transcript : u \in s.text}
UtterancesOnce ==
    step = "sentences" /\ (reply = "segments" \/ owned_start = 0) =>
        \A u \in Utterances : WellInside(u) => \E s \in transcript : Copies(u) = {s}

\* What was said is in the transcript, whatever kind of reply the provider
\* gives.
NothingIsLost == step = "sentences" => \A u \in Utterances : WellInside(u) => Copies(u) # {}

\* The model has been asked about every line before its answers are used.
EveryLineIsSeen ==
    step \in {"merge", "bridge", "refine", "judge"} =>
        \A i \in 1..Len(lines) : \E a \in answers : a.from < i /\ i <= a.upto

\* Detected segments do not overlap: their durations add up to what is cut,
\* and the limits are judged by that sum.
DetectedAreApart ==
    step = "judge" => \A s, t \in out : s # t => s.end <= t.start \/ t.end <= s.start

\* A cut begins where the model said that an ad begins, or at the edge of the
\* episode, and ends where it said that one ends: no further than snapping
\* and refinement may move it.
Within(t, cited) ==
    \E c \in cited : Apart(t, Later(0, Earlier(c, Duration))) <= SnapTolerance + RefineWindow
CutsAreCited ==
    step = "judge" =>
        LET cited == UNION {a.segments : a \in answers} IN
        \A s \in out :
            /\ Within(s.start, {c.start : c \in cited}) \/ s.start <= RefineWindow
            /\ Within(s.end, {c.end : c \in cited}) \/ Apart(s.end, Duration) <= RefineWindow

\* An episode is left out of the feed only when the model called all of it
\* promotional: every line was in a chunk of which it said so.
SkippedIsPromo ==
    [][step = "judge" /\ step' = "skipped" =>
          \A i \in 1..Len(lines) : \E a \in answers : a.promo /\ a.from < i /\ i <= a.upto]_vars

\* Without a person's word, no more than half of the audio is removed.
HalfIsKept == step = "done" /\ ~decided => 2 * Cardinality(Audio) >= Duration

\* What is served is the episode without the rows to be cut, no more and no
\* less, whatever their order, their overlaps and their bounds.
KeptIsTheRest == step = "done" => Audio = (0 .. (Duration - 1)) \ Covered({r \in rows : ~r.kept})

\* The run comes to its end, or to where a person decides.
Settles == <>(step \in {"done", "failed", "review", "skipped"})
=============================================================================
