--------------------------- MODULE Transcription ----------------------------
(***************************************************************************)
(* From the audio to the lines detection reads: the transcribe step        *)
(* (backend/hushcast/pipeline/steps/transcribe.py), the slices of an       *)
(* upload that is over the provider's cap (audio/ffmpeg.py), the           *)
(* provider's replies (transcription/openai_compat.py), how the slices are *)
(* put together again (transcription/base.py), and the split at sentence   *)
(* ends (transcription/sentences.py).                                      *)
(*                                                                         *)
(* What is said is a set of utterances; the text of a segment is the set   *)
(* of the utterances it renders.  A slice is copied without re-encoding,   *)
(* so its clock may be off by up to Drift.                                 *)
(***************************************************************************)
EXTENDS Segments, Sequences, Functions

CONSTANTS
    Utterances,     \* what is said: disjoint intervals within the audio
    SpeakerOf,      \* who says it
    SentenceEnds,   \* where a sentence ends within an utterance, and the next begins
    PartSeconds,    \* the length a slice owns when the upload is over the cap
    Overlap,        \* SPLIT_OVERLAP_S, or a quarter of PartSeconds
    Drift,          \* how far the clock of a slice may be off
    MaxLines        \* bound: lines of a transcript

ASSUME TranscriptionAssumption ==
    /\ Utterances \subseteq [start : 0..Duration, end : 0..Duration]
    /\ \A u \in Utterances : u.start < u.end
    /\ \A u, v \in Utterances : u # v => u.end <= v.start \/ v.end <= u.start
    /\ DOMAIN SpeakerOf = Utterances
    /\ SentenceEnds \subseteq Interval
    /\ PartSeconds \in Nat \ {0} /\ Overlap \in Nat \ {0} /\ Drift \in Nat /\ MaxLines \in Nat

VARIABLES
    step,           \* where the run is
    reply,          \* whether the provider returns segments or only timed words
    owned_start,    \* split_by_duration: how far the parts reach
    parts,          \* the parts still to be transcribed
    heard,          \* what has been transcribed from parts, on the original timeline
    transcript,     \* the segments of the whole
    lines           \* the stored transcript's segments, in order

transcriptionVars == <<reply, owned_start, parts, heard, transcript, lines>>

Time == 0..Duration
SplitPart == [content_start : Time, content_end : Time, owned_start : Time, owned_end : Time]
Whole == [content_start |-> 0, content_end |-> Duration, owned_start |-> 0, owned_end |-> Duration]

\* A TranscriptSegment and the part it comes from.
TranscriptSegment == [start : Int, end : Int, text : SUBSET Utterances, part : SplitPart]

TranscriptionTypeOK ==
    /\ reply \in {"segments", "words"}
    /\ owned_start \in Time
    /\ parts \subseteq SplitPart
    /\ heard \subseteq TranscriptSegment
    /\ transcript \subseteq TranscriptSegment
    /\ lines \in Seq(Interval)

TranscriptionInit ==
    /\ step = "transcribe"
    /\ reply \in {"segments", "words"}
    /\ owned_start = 0
    /\ parts = {} /\ heard = {} /\ transcript = {}
    /\ lines = <<>>

-----------------------------------------------------------------------------
\* WHAT THE PROVIDER ANSWERS

Audible(p, drift) ==
    {u \in Utterances : u.start + drift < p.content_end /\ u.end + drift > p.content_start}

\* A segment for what is said from the utterance u to the utterance v, cut
\* off where the audio of p ends.
Rendered(p, drift, u, v, text) ==
    [start |-> Later(p.content_start, u.start + drift),
     end   |-> Earlier(p.content_end, v.end + drift),
     text  |-> text, part |-> p]

\* _segments_from_words: one segment for each run of words of one speaker.
Between(u, v)   == {w \in Utterances : (Sooner(u, w) /\ Sooner(w, v)) \/ (Sooner(v, w) /\ Sooner(w, u))}
Run(u, said)    == {v \in said : \A w \in Between(u, v) \cap said : SpeakerOf[w] = SpeakerOf[u]}
SegmentsFromWords(p, drift) ==
    LET said == Audible(p, drift)
    IN UNION {{Rendered(p, drift, v, w, Run(u, said)) :
                  v \in First(Run(u, said)), w \in Last(Run(u, said))} : u \in said}

\* _normalize, of a whisper-like reply or of one that only times words
Normalize(p, drift) ==
    IF reply = "words" THEN SegmentsFromWords(p, drift)
    ELSE {Rendered(p, drift, u, u, {u}) : u \in Audible(p, drift)}

-----------------------------------------------------------------------------
\* THE STEP

TranscribeWhole ==
    /\ step = "transcribe"
    /\ transcript' = Normalize(Whole, 0)
    /\ step' = "sentences"
    /\ UNCHANGED <<reply, owned_start, parts, heard, lines>>

\* The upload is over the provider's cap, transcoded or not.
OverCap ==
    /\ step = "transcribe"
    /\ PartSeconds < Duration
    /\ step' = "split"
    /\ UNCHANGED transcriptionVars

\* Mutant: a part starts where the overlap of the one before ends.
PartsAfterOverlap(start) ==
    LET end == Earlier(start + PartSeconds, Duration)
    IN [content_start |-> start, content_end |-> Earlier(Duration, end + Overlap),
        owned_start |-> start, owned_end |-> end]

PartFrom(start) ==
    LET end == Earlier(start + PartSeconds, Duration)
    IN [content_start |-> Later(0, start - Overlap), content_end |-> Earlier(Duration, end + Overlap),
        owned_start |-> start, owned_end |-> end]

\* split_by_duration
SplitByDuration ==
    /\ step = "split" /\ owned_start < Duration
    /\ parts' = parts \union {PartFrom(owned_start)}
    /\ owned_start' = PartFrom(owned_start).owned_end
    /\ UNCHANGED <<step, reply, heard, transcript, lines>>

Listen ==
    /\ step = "split" /\ owned_start >= Duration
    /\ step' = "listen"
    /\ UNCHANGED transcriptionVars

TranscribePart ==
    /\ step = "listen"
    /\ \E p \in parts, drift \in (0 - Drift)..Drift :
           /\ \A q \in parts : p.owned_start <= q.owned_start
           /\ parts' = parts \ {p}
           /\ heard' = heard \union Normalize(p, drift)
    /\ UNCHANGED <<step, reply, owned_start, transcript, lines>>

Owned(S) == {h \in S : h.part.owned_start <= h.start /\ h.start < h.part.owned_end}

\* Transcript.concat
Concat ==
    /\ step = "listen" /\ parts = {}
    /\ transcript' = Owned(heard)
    /\ heard' = {}
    /\ step' = "sentences"
    /\ UNCHANGED <<reply, owned_start, parts, lines>>

\* _split_segment (bound: one segment, two sentences): the first sentence ends
\* at pause.start and the next word starts at pause.end, by the words' times or
\* by a guess from the text.  Both are put in order, but only the first back
\* into the segment: the second sentence may start after the segment's end.
Pieces(s, pause) ==
    LET end == Earlier(Later(pause.start, s.start), s.end)
    IN {[start |-> s.start, end |-> end], [start |-> Later(end, pause.end), end |-> s.end]}

\* The segments of all parts, one part after the other: sorted.
InOrder(S) == {f \in UNION {[1..n -> S] : n \in 1..MaxLines} :
                  /\ Range(f) = S
                  /\ \A i, j \in DOMAIN f : i < j => f[i] # f[j] /\ Sooner(f[i], f[j])}
Spoken(S) == {[start |-> s.start, end |-> s.end] : s \in S}

SplitAtSentences ==
    /\ step = "sentences" /\ transcript # {}
    /\ \/ lines' \in InOrder(Spoken(transcript))
       \/ \E s \in transcript, pause \in SentenceEnds :
              /\ s.start < pause.start /\ pause.start <= s.end
              /\ lines' \in InOrder(Spoken(transcript \ {s}) \union Pieces(s, pause))
    /\ transcript' = {}
    /\ step' = "chunk"
    /\ UNCHANGED <<reply, owned_start, parts, heard>>

\* The provider, ffmpeg or the limit of requests fails the step; so does a
\* transcript without segments.
TranscriptionFails ==
    /\ step \in {"transcribe", "split", "listen"} \/ (step = "sentences" /\ transcript = {})
    /\ step' = "failed"
    /\ parts' = {} /\ heard' = {}
    /\ UNCHANGED <<reply, owned_start, transcript, lines>>

TranscriptionStep ==
    \/ TranscribeWhole \/ OverCap \/ SplitByDuration \/ Listen \/ TranscribePart
    \/ Concat \/ SplitAtSentences \/ TranscriptionFails
=============================================================================
