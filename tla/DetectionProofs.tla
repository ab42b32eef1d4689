-------------------------- MODULE DetectionProofs ---------------------------
(***************************************************************************)
(* What Detection keeps for every audio, provider, model and setting: the  *)
(* types of its variables, and what is said, through the slices of an      *)
(* upload.  DetectionSafety goes on with what is detected and cut.         *)
(***************************************************************************)
EXTENDS Detection, WellFoundedInduction, TLAPS

USE DEF PC, Formats, NoResult, NewChunk, NewCall

-----------------------------------------------------------------------------
\* TYPES

LEMMA Constants ==
    /\ Duration \in Nat /\ Duration > 0
    /\ Utterances \subseteq [start : 0..Duration, end : 0..Duration]
    /\ PartSeconds \in Nat /\ PartSeconds > 0 /\ Overlap \in Nat /\ Drift \in Nat
    /\ Cited \subseteq SUBSET Interval /\ Cues \subseteq Interval
BY SegmentsAssumption, TranscriptionAssumption, DetectionAssumption

LEMMA WholeIsPart == Whole \in SplitPart
BY Constants DEF Whole, SplitPart, Time

\* What a provider answers are segments of the part it was given.
LEMMA RenderedType ==
    ASSUME NEW p \in SplitPart, NEW drift \in Int, NEW u \in Utterances, NEW v \in Utterances,
           NEW text \in SUBSET Utterances
    PROVE  Rendered(p, drift, u, v, text) \in TranscriptSegment
<1>1. p.content_start \in Int /\ p.content_end \in Int
  BY Constants DEF SplitPart, Time
<1>2. u.start \in Int /\ v.end \in Int
  BY Constants
<1> QED BY <1>1, <1>2 DEF Rendered, TranscriptSegment, Later, Earlier

LEMMA NormalizeType ==
    ASSUME NEW p \in SplitPart, NEW drift \in Int
    PROVE  Normalize(p, drift) \subseteq TranscriptSegment
<1> DEFINE said == Audible(p, drift)
<1>1. said \subseteq Utterances
  BY DEF Audible
<1>2. \A u \in said : Rendered(p, drift, u, u, {u}) \in TranscriptSegment
  BY <1>1, RenderedType
<1>3. \A u \in said : /\ Run(u, said) \subseteq Utterances
                      /\ First(Run(u, said)) \subseteq Utterances
                      /\ Last(Run(u, said)) \subseteq Utterances
  BY <1>1 DEF Run, First, Last
<1>4. \A u \in said : \A v \in First(Run(u, said)), w \in Last(Run(u, said)) :
          Rendered(p, drift, v, w, Run(u, said)) \in TranscriptSegment
  BY <1>3, RenderedType
<1>5. SegmentsFromWords(p, drift) \subseteq TranscriptSegment
  BY <1>4 DEF SegmentsFromWords
<1> QED BY <1>2, <1>5 DEF Normalize

LEMMA PartType ==
    ASSUME NEW start \in Time, start < Duration
    PROVE  /\ PartFrom(start) \in SplitPart
           /\ PartFrom(start).owned_end \in Time
BY Constants DEF PartFrom, SplitPart, Time, Earlier, Later

LEMMA SeqMono ==
    ASSUME NEW S, NEW T, S \subseteq T, NEW f \in Seq(S)
    PROVE  f \in Seq(T)
<1>1. f \in [1..Len(f) -> S] /\ Len(f) \in Nat
  OBVIOUS
<1>2. f \in [1..Len(f) -> T]
  BY <1>1
<1> QED BY <1>1, <1>2

LEMMA InOrderType ==
    ASSUME NEW S, NEW f \in InOrder(S)
    PROVE  f \in Seq(S)
<1>1. PICK n \in 1..MaxLines : f \in [1..n -> S]
  BY DEF InOrder
<1> QED BY <1>1, TranscriptionAssumption

LEMMA SpokenType ==
    ASSUME NEW S \in SUBSET TranscriptSegment
    PROVE  Spoken(S) \subseteq Interval
BY DEF Spoken, TranscriptSegment, Interval

LEMMA PiecesType ==
    ASSUME NEW s \in TranscriptSegment, NEW pause \in SentenceEnds
    PROVE  Pieces(s, pause) \subseteq Interval
<1>1. s.start \in Int /\ s.end \in Int /\ pause.start \in Int /\ pause.end \in Int
  BY TranscriptionAssumption DEF TranscriptSegment, Interval
<1> QED BY <1>1 DEF Pieces, Interval, Earlier, Later

\* The steps of transcription keep the types of their variables.
LEMMA TranscriptionType ==
    ASSUME TranscriptionTypeOK, TranscriptionStep
    PROVE  TranscriptionTypeOK' /\ step' \in PC
<1> USE DEF TranscriptionTypeOK, transcriptionVars
<1>1. CASE TranscribeWhole
  <2>1. transcript' \subseteq TranscriptSegment
    BY <1>1, WholeIsPart, NormalizeType DEF TranscribeWhole
  <2> QED BY <1>1, <2>1 DEF TranscribeWhole
<1>2. CASE OverCap
  BY <1>2 DEF OverCap
<1>3. CASE SplitByDuration
  <2>1. PartFrom(owned_start) \in SplitPart /\ PartFrom(owned_start).owned_end \in Time
    BY <1>3, PartType DEF SplitByDuration
  <2> QED BY <1>3, <2>1 DEF SplitByDuration
<1>4. CASE Listen
  BY <1>4 DEF Listen
<1>5. CASE TranscribePart
  <2>1. PICK p \in parts, drift \in (0 - Drift)..Drift :
            parts' = parts \ {p} /\ heard' = heard \union Normalize(p, drift)
    BY <1>5 DEF TranscribePart
  <2>2. p \in SplitPart /\ drift \in Int
    BY Constants, <2>1
  <2>3. Normalize(p, drift) \subseteq TranscriptSegment
    BY <2>2, NormalizeType
  <2> QED BY <1>5, <2>1, <2>3 DEF TranscribePart
<1>6. CASE Concat
  BY <1>6 DEF Concat, Owned
<1>7. CASE SplitAtSentences
  <2>1. lines' \in Seq(Interval)
    <3>1. CASE lines' \in InOrder(Spoken(transcript))
      <4>1. lines' \in Seq(Spoken(transcript))
        BY <3>1, InOrderType
      <4> QED BY <4>1, SpokenType, SeqMono
    <3>2. ASSUME NEW s \in transcript, NEW pause \in SentenceEnds,
                 lines' \in InOrder(Spoken(transcript \ {s}) \union Pieces(s, pause))
          PROVE  lines' \in Seq(Interval)
      <4>1. lines' \in Seq(Spoken(transcript \ {s}) \union Pieces(s, pause))
        BY <3>2, InOrderType
      <4>2. s \in TranscriptSegment /\ transcript \ {s} \in SUBSET TranscriptSegment
        OBVIOUS
      <4>3. Spoken(transcript \ {s}) \union Pieces(s, pause) \subseteq Interval
        BY <4>2, SpokenType, PiecesType
      <4> QED BY <4>1, <4>3, SeqMono
    <3> QED BY <1>7, <3>1, <3>2 DEF SplitAtSentences
  <2> QED BY <1>7, <2>1 DEF SplitAtSentences
<1>8. CASE TranscriptionFails
  BY <1>8 DEF TranscriptionFails
<1> QED BY <1>1, <1>2, <1>3, <1>4, <1>5, <1>6, <1>7, <1>8 DEF TranscriptionStep

-----------------------------------------------------------------------------
\* The operators of Segments stay within intervals.

LEMMA CandidatesType ==
    ASSUME NEW S \in SUBSET Interval, NEW L \in SUBSET Interval
    PROVE  Candidates(S, Boundaries(L)) \subseteq Interval
<1> DEFINE bounds == Boundaries(L)
           C == Clamp(S)
<1>1. C \subseteq Interval
  BY Constants DEF Clamp, Interval, Later, Earlier
<1>2. \A t \in Int : Rounded(t) \in Int
  BY SegmentsAssumption DEF Rounded
<1>3. bounds \subseteq Int
  BY <1>2 DEF Boundaries, Interval
<1>4. SnapToBoundaries(C, bounds) \subseteq Interval
  <2>1. \A t : Nearest(t, bounds) \subseteq bounds
    BY DEF Nearest, Near
  <2>2. \A r \in C : [start : Nearest(r.start, bounds), end : Nearest(r.end, bounds)] \subseteq Interval
    BY <1>3, <2>1 DEF Interval
  <2> HIDE DEF C, bounds
  <2> QED BY <1>1, <2>2 DEF SnapToBoundaries
<1> QED BY <1>4 DEF Candidates, FilterShort

LEMMA AbsorbType ==
    ASSUME NEW S \in SUBSET Interval, NEW s \in Interval
    PROVE  Absorb(S, s) \subseteq Interval
BY DEF Absorb, Interval, Later

LEMMA MergeType ==
    ASSUME NEW S \in SUBSET Interval, NEW s \in Interval
    PROVE  Merge(S, s) \subseteq Interval /\ BridgeOverCues(S, s, Cues) \subseteq Interval
BY AbsorbType DEF Merge, BridgeOverCues

LEMMA ExtendType ==
    ASSUME NEW S \in SUBSET Interval
    PROVE  ExtendToEdges(S, Cues) \subseteq Interval
<1>1. ExtendToStart(S, Cues) \subseteq Interval
  BY DEF ExtendToStart, Interval
<1>2. \A T \in SUBSET Interval : ExtendToEnd(T, Cues) \subseteq Interval
  BY Constants DEF ExtendToEnd, Interval
<1> QED BY <1>1, <1>2 DEF ExtendToEdges

LEMMA CutPointsType ==
    ASSUME NEW t \in Int, NEW outward, NEW L \in SUBSET Interval
    PROVE  CutPoints(t, WordGaps(L), outward) \subseteq Int
<1>1. WordGaps(L) \subseteq Interval
  BY Constants DEF WordGaps, Interval, First, Last
<1>2. \A g \in Interval : Target(g, t) \in Int
  BY SegmentsAssumption DEF Target, Interval, Earlier, Later
<1>3. Qualifying(t, WordGaps(L)) \subseteq Interval
  BY <1>1 DEF Qualifying
<1> QED BY <1>2, <1>3 DEF CutPoints

LEMMA RefineType ==
    ASSUME NEW s \in Interval, NEW start \in Int, NEW end \in Int, NEW S, NEW rest
    PROVE  Refine(s, start, end, S, rest) \in Interval
BY DEF Refine, Straight, Interval

-----------------------------------------------------------------------------
\* The steps of detection keep the types of their variables.

LEMMA ConcludeType ==
    ASSUME TypeOK, step = "ask",
           NEW result, result.segments \in SUBSET Interval, result.promo \in BOOLEAN,
           Conclude(result)
    PROVE  /\ step' \in PC
           /\ chunk' \in [from : Nat, upto : Nat]
           /\ answers' \subseteq Answer
           /\ todo' \subseteq Interval
<1> DEFINE said == answers \union {[from |-> chunk.from, upto |-> chunk.upto,
                                    segments |-> result.segments, promo |-> result.promo]}
<1>1. said \subseteq Answer /\ answers' = said
  BY Constants DEF TypeOK, DetectionTypeOK, Conclude, Answer
<1>2. Len(lines) \in Nat /\ Range(lines) \subseteq Interval
  BY DEF TypeOK, TranscriptionTypeOK, Range
<1>3. UNION {a.segments : a \in said} \in SUBSET Interval
  BY <1>1 DEF Answer
<1>4. Candidates(UNION {a.segments : a \in said}, Boundaries(Range(lines))) \subseteq Interval
  BY <1>2, <1>3, CandidatesType
<1> HIDE DEF said
<1>5. CASE \E next \in 0..Len(lines) : chunk' = [from |-> next, upto |-> next]
  BY <1>1, <1>2, <1>4, <1>5 DEF TypeOK, DetectionTypeOK, Conclude, said
<1>6. CASE chunk' = [from |-> 0, upto |-> 0]
  BY <1>1, <1>2, <1>4, <1>6 DEF TypeOK, DetectionTypeOK, Conclude, said
<1> QED BY <1>5, <1>6 DEF Conclude

LEMMA UnusableType ==
    ASSUME TypeOK, NEW salvaged, Unusable(salvaged),
           salvaged \in [segments : SUBSET Interval, promo : BOOLEAN, salvaged : BOOLEAN]
    PROVE  TypeOK'
<1> USE DEF TypeOK, DetectionTypeOK, TranscriptionTypeOK, transcriptionVars
<1>1. step = "ask" /\ UNCHANGED <<transcriptionVars, out, rows, corrections, decided, cursor>>
  BY DEF Unusable
<1>2. call.attempt \in 0..MALFORMED_RETRIES /\ MALFORMED_RETRIES \in Nat
  BY DetectionAssumption
<1>3. CASE ~LastAttempt /\ call' = [attempt |-> call.attempt + 1, format |-> "json_schema", salvaged |-> salvaged]
           /\ UNCHANGED <<step, chunk, answers, todo>>
  <2>1. call.attempt + 1 \in 0..MALFORMED_RETRIES
    BY <1>2, <1>3 DEF LastAttempt
  <2> QED BY <1>1, <1>3, <2>1
<1>4. CASE Conclude(salvaged) /\ call' = NewCall
  <2>1. /\ step' \in PC /\ chunk' \in [from : Nat, upto : Nat]
        /\ answers' \subseteq Answer /\ todo' \subseteq Interval
    BY <1>1, <1>4, ConcludeType
  <2> QED BY <1>1, <1>2, <1>4, <2>1
<1>5. CASE step' = "failed" /\ UNCHANGED <<chunk, call, answers, todo>>
  BY <1>1, <1>5
<1> QED BY <1>3, <1>4, <1>5 DEF Unusable

\* Asking the model.
LEMMA AskType ==
    ASSUME TypeOK, NextChunk \/ FormatRejected \/ ChatFails \/ Complete \/ Malformed \/ Truncated
    PROVE  TypeOK'
<1> USE DEF TypeOK, DetectionTypeOK, TranscriptionTypeOK, transcriptionVars, detectionVars
<1>1. CASE NextChunk
  <2>1. Len(lines) \in Nat /\ chunk.from \in Nat /\ MALFORMED_RETRIES \in Nat
    BY DetectionAssumption
  <2> QED BY <1>1, <2>1 DEF NextChunk
<1>2. CASE FormatRejected
  BY <1>2 DEF FormatRejected
<1>3. CASE ChatFails
  BY <1>3 DEF ChatFails
<1>4. CASE Complete
  <2>1. PICK result \in Results : Conclude(result)
    BY <1>4 DEF Complete
  <2>2. result.segments \in SUBSET Interval /\ result.promo \in BOOLEAN
    BY Constants DEF Results
  <2>3. /\ step' \in PC /\ chunk' \in [from : Nat, upto : Nat]
        /\ answers' \subseteq Answer /\ todo' \subseteq Interval
    BY <1>4, <2>1, <2>2, ConcludeType DEF Complete
  <2>4. NewCall.attempt \in 0..MALFORMED_RETRIES
    BY DetectionAssumption
  <2> QED BY <1>4, <2>3, <2>4 DEF Complete
<1>5. CASE Malformed
  BY <1>5, UnusableType DEF Malformed
<1>6. CASE Truncated
  <2>1. PICK r \in Results : Unusable([segments |-> r.segments, promo |-> r.promo, salvaged |-> TRUE])
    BY <1>6 DEF Truncated
  <2>2. r.segments \in SUBSET Interval /\ r.promo \in BOOLEAN
    BY Constants DEF Results
  <2> QED BY <2>1, <2>2, UnusableType
<1> QED BY <1>1, <1>2, <1>3, <1>4, <1>5, <1>6

\* Post-processing and the verdict.
LEMMA ProcessType ==
    ASSUME TypeOK, Merging \/ Bridging \/ Refining \/ Judge
    PROVE  TypeOK'
<1> USE DEF TypeOK, DetectionTypeOK, TranscriptionTypeOK, transcriptionVars
<1>1. CASE Merging
  <2>1. ASSUME NEW s \in First(todo), todo' = todo \ {s}, out' = Merge(out, s)
        PROVE  out' \subseteq Interval
    <3>1. s \in Interval
      BY <2>1 DEF First
    <3> QED BY <2>1, <3>1, MergeType
  <2>2. out' \subseteq Interval /\ todo' \subseteq Interval /\ step' \in PC
    BY <1>1, <2>1 DEF Merging
  <2> QED BY <1>1, <2>2 DEF Merging
<1>2. CASE Bridging
  <2>1. ASSUME NEW s \in First(todo), todo' = todo \ {s}, out' = BridgeOverCues(out, s, Cues)
        PROVE  out' \subseteq Interval
    <3>1. s \in Interval
      BY <2>1 DEF First
    <3> QED BY <2>1, <3>1, MergeType
  <2>2. ExtendToEdges(out, Cues) \subseteq Interval
    BY ExtendType
  <2>3. out' \subseteq Interval /\ todo' \subseteq Interval /\ step' \in PC
    BY <1>2, <2>1, <2>2 DEF Bridging
  <2> QED BY <1>2, <2>3 DEF Bridging
<1>3. CASE Refining
  <2>1. Range(lines) \in SUBSET Interval
    BY DEF Range
  <2>2. ASSUME NEW s \in First(todo),
               NEW start \in CutPoints(s.start, Gaps, 0 - 1), NEW end \in CutPoints(s.end, Gaps, 1)
        PROVE  Refine(s, start, end, out, todo \ {s}) \in Interval
    <3>1. s \in Interval /\ s.start \in Int /\ s.end \in Int
      BY <2>2 DEF First, Interval
    <3>2. start \in Int /\ end \in Int
      BY <2>1, <3>1, CutPointsType DEF Gaps
    <3> QED BY <3>1, <3>2, RefineType
  <2>3. CASE todo = {}
    BY <1>3, <2>3 DEF Refining, First
  <2>4. CASE todo # {}
    <3>1. PICK s \in First(todo) :
              \E start \in CutPoints(s.start, Gaps, 0 - 1), end \in CutPoints(s.end, Gaps, 1) :
                  /\ todo' = todo \ {s}
                  /\ out' = out \union {Refine(s, start, end, out, todo \ {s})}
      BY <1>3, <2>4 DEF Refining
    <3>2. PICK start \in CutPoints(s.start, Gaps, 0 - 1), end \in CutPoints(s.end, Gaps, 1) :
              /\ todo' = todo \ {s}
              /\ out' = out \union {Refine(s, start, end, out, todo \ {s})}
      BY <3>1
    <3>3. Refine(s, start, end, out, todo \ {s}) \in Interval
      BY <2>2
    <3>4. UNCHANGED step
      BY <1>3, <2>4 DEF Refining
    <3> HIDE DEF Refining
    <3>5. out' \subseteq Interval /\ todo' \subseteq Interval
      BY <3>2, <3>3
    <3> QED BY <1>3, <3>4, <3>5 DEF Refining
  <2> QED BY <2>3, <2>4
<1>4. CASE Judge
  <2>1. \A kept \in BOOLEAN, source \in {"llm", "promo"} : Rows(out, kept, source) \subseteq Row
    BY DEF Rows, Row, Interval
  <2>2. rows' \subseteq Row /\ step' \in PC
    BY <1>4, <2>1 DEF Judge
  <2> QED BY <1>4, <2>2 DEF Judge
<1> QED BY <1>1, <1>2, <1>3, <1>4

\* The user.
LEMMA UserType ==
    ASSUME TypeOK, UserStep
    PROVE  TypeOK'
<1> USE DEF TypeOK, DetectionTypeOK, TranscriptionTypeOK, transcriptionVars
<1>1. Correctable => corrections + 1 \in 0..MaxCorrections
  BY DetectionAssumption DEF Correctable
<1>2. CASE PatchSegment
  <2>1. rows' \subseteq Row
    BY <1>2 DEF PatchSegment, Row
  <2> QED BY <1>1, <1>2, <2>1 DEF PatchSegment
<1>3. CASE AddManualSegment
  <2>1. \A start, end \in ManualTimes, not_ad \in BOOLEAN :
            [start |-> start, end |-> end, kept |-> not_ad, source |-> "manual"] \in Row
    BY DetectionAssumption DEF Row
  <2>2. rows' \subseteq Row
    BY <1>3, <2>1 DEF AddManualSegment
  <2> QED BY <1>1, <1>3, <2>2 DEF AddManualSegment
<1>4. CASE DeleteSegment
  <2>1. rows' \subseteq Row
    BY <1>4 DEF DeleteSegment
  <2> QED BY <1>1, <1>4, <2>1 DEF DeleteSegment
<1>5. CASE Proceed
  BY <1>5 DEF Proceed
<1> QED BY <1>2, <1>3, <1>4, <1>5 DEF UserStep

\* The cut.
LEMMA CutType ==
    ASSUME TypeOK, BeginCut \/ KeepRanges
    PROVE  TypeOK'
<1> USE DEF TypeOK, DetectionTypeOK, TranscriptionTypeOK, transcriptionVars
<1>1. CASE BeginCut
  <2>1. ToCut \subseteq Interval
    BY DEF ToCut, Row, Interval
  <2>2. [start |-> 0, end |-> Duration] \in Interval
    BY Constants DEF Interval
  <2>3. out' \subseteq Interval /\ todo' \subseteq Interval /\ step' \in PC /\ cursor' \in Int
    BY <1>1, <2>1, <2>2 DEF BeginCut
  <2> QED BY <1>1, <2>3 DEF BeginCut
<1>2. CASE KeepRanges
  <2>1. [start |-> cursor, end |-> Duration] \in Interval
    BY Constants DEF Interval
  <2>2. ASSUME NEW s \in First(todo)
        PROVE  KeepBefore(out, cursor, s) \subseteq Interval /\ Later(cursor, s.end) \in Int
    <3>1. s \in Interval
      BY <2>2 DEF First
    <3> QED BY <3>1 DEF KeepBefore, Interval, Later
  <2>3. out' \subseteq Interval /\ todo' \subseteq Interval /\ step' \in PC /\ cursor' \in Int
    BY <1>2, <2>1, <2>2 DEF KeepRanges
  <2> QED BY <1>2, <2>3 DEF KeepRanges
<1> QED BY <1>1, <1>2

LEMMA InitType == Init => TypeOK
<1> SUFFICES ASSUME Init PROVE TypeOK
  OBVIOUS
<1>1. TranscriptionTypeOK /\ step \in PC
  BY Constants DEF Init, TranscriptionInit, TranscriptionTypeOK, Time
<1>2. 0 \in 0..MALFORMED_RETRIES /\ 0 \in 0..MaxCorrections
  BY DetectionAssumption
<1>3. /\ NoResult \in [segments : SUBSET Interval, promo : BOOLEAN, salvaged : BOOLEAN]
      /\ "json_schema" \in Formats /\ NewChunk \in [from : Nat, upto : Nat]
  OBVIOUS
<1> HIDE DEF NoResult, Formats
<1>4. NewCall \in [attempt : 0..MALFORMED_RETRIES, format : Formats,
                   salvaged : [segments : SUBSET Interval, promo : BOOLEAN, salvaged : BOOLEAN]]
  BY <1>2, <1>3
<1> HIDE DEF NewCall, NewChunk
<1>5. /\ chunk = NewChunk /\ call = NewCall /\ corrections = 0 /\ cursor = 0 /\ decided = FALSE
      /\ answers = {} /\ todo = {} /\ out = {} /\ rows = {}
  BY DEF Init, DetectionInit
<1>6. /\ chunk \in [from : Nat, upto : Nat]
      /\ call \in [attempt : 0..MALFORMED_RETRIES, format : Formats,
                   salvaged : [segments : SUBSET Interval, promo : BOOLEAN, salvaged : BOOLEAN]]
  BY <1>3, <1>4, <1>5
<1>7. /\ answers \subseteq Answer /\ todo \subseteq Interval /\ out \subseteq Interval
      /\ rows \subseteq Row /\ cursor \in Int
  BY <1>5
<1>8. corrections \in 0..MaxCorrections /\ decided \in BOOLEAN
  BY <1>2, <1>5
<1>9. DetectionTypeOK
  BY <1>1, <1>6, <1>7, <1>8 DEF DetectionTypeOK
<1> QED BY <1>1, <1>9 DEF TypeOK

LEMMA NextType == TypeOK /\ [Next]_vars => TypeOK'
<1> SUFFICES ASSUME TypeOK, [Next]_vars PROVE TypeOK'
  OBVIOUS
<1>1. CASE TranscriptionStep /\ UNCHANGED detectionVars
  <2>1. TranscriptionTypeOK' /\ step' \in PC
    BY <1>1, TranscriptionType DEF TypeOK
  <2> QED BY <1>1, <2>1 DEF TypeOK, DetectionTypeOK, detectionVars
<1>2. CASE UNCHANGED vars
  BY <1>2 DEF TypeOK, DetectionTypeOK, TranscriptionTypeOK, vars, transcriptionVars, detectionVars
<1> QED BY <1>1, <1>2, AskType, ProcessType, UserType, CutType DEF Next, RunStep, Ended

\* Every variable holds what it is declared to hold, for any audio, any
\* settings and whatever the provider, the model and the user answer: slices
\* stay within the audio, attempts within the retries, rows are rows.
THEOREM TypeCorrect == Spec => []TypeOK
<1>1. Init => TypeOK
  BY InitType
<1>2. TypeOK /\ [Next]_vars => TypeOK'
  BY NextType
<1> QED BY <1>1, <1>2, PTL DEF Spec

-----------------------------------------------------------------------------
\* WHO SAYS WHAT: THE RUNS OF ONE SPEAKER

LEMMA LeastNumber ==
    ASSUME NEW T \in SUBSET Nat, T # {}
    PROVE  \E x \in T : \A y \in T : x <= y
<1> DEFINE less == {p \in Nat \X Nat : p[1] < p[2]}
<1>1. OpToRel(<, Nat) = less
  BY DEF OpToRel
<1>2. IsWellFoundedOn(less, Nat)
  BY <1>1, NatLessThanWellFounded
<1>3. \A x, y \in Nat : y < x => <<y, x>> \in less
  OBVIOUS
<1> HIDE DEF less
<1>4. PICK x \in T : \A y \in T : ~(<<y, x>> \in less)
  BY <1>2, WFMin
<1>5. \A y \in T : x <= y
  <2> SUFFICES ASSUME NEW y \in T PROVE x <= y
    OBVIOUS
  <2>1. x \in Nat /\ y \in Nat /\ ~(<<y, x>> \in less)
    BY <1>4
  <2>2. ~(y < x)
    BY <1>3, <2>1
  <2> QED BY <2>1, <2>2
<1> QED BY <1>5

\* Utterances are in order, and no two begin at once.
LEMMA UtterancesOrdered ==
    /\ \A u, v \in Utterances : Sooner(u, v) \/ Sooner(v, u)
    /\ \A u, v \in Utterances : Sooner(u, v) /\ Sooner(v, u) => u = v
    /\ \A u, v, w \in Utterances : Sooner(u, v) /\ Sooner(v, w) => Sooner(u, w)
    /\ \A u, v \in Utterances : u.start <= v.start => Sooner(u, v)
<1>1. \A u \in Utterances : u.start \in Int /\ u.end \in Int /\ u.start < u.end
  BY Constants, TranscriptionAssumption
<1>2. \A u, v \in Utterances : u.start = v.start => u = v
  BY <1>1, TranscriptionAssumption
<1> QED BY <1>1, <1>2 DEF Sooner

\* Any of them have a first and a last.
LEMMA FirstAndLast ==
    ASSUME NEW S \in SUBSET Utterances, S # {}
    PROVE  \E v, w \in S : First(S) = {v} /\ Last(S) = {w}
<1>1. Duration \in Nat /\ \A u \in S : u.start \in 0..Duration
  BY Constants
<1>2. PICK v \in S : \A u \in S : v.start <= u.start
  <2> DEFINE T == {u.start : u \in S}
  <2>1. T \in SUBSET Nat /\ T # {}
    BY <1>1
  <2> HIDE DEF T
  <2>2. PICK x \in T : \A y \in T : x <= y
    BY <2>1, LeastNumber
  <2> QED BY <2>2 DEF T
<1>3. PICK w \in S : \A u \in S : u.start <= w.start
  <2> DEFINE T == {Duration - u.start : u \in S}
  <2>1. T \in SUBSET Nat /\ T # {}
    BY <1>1
  <2> HIDE DEF T
  <2>2. PICK x \in T : \A y \in T : x <= y
    BY <2>1, LeastNumber
  <2>3. PICK w \in S : x = Duration - w.start
    BY DEF T
  <2>4. \A u \in S : Duration - w.start <= Duration - u.start
    BY <2>2, <2>3 DEF T
  <2> QED BY <1>1, <2>4
<1>4. First(S) = {v}
  BY <1>2, UtterancesOrdered DEF First
<1>5. Last(S) = {w}
  BY <1>3, UtterancesOrdered DEF Last
<1> QED BY <1>4, <1>5

\* Runs of one speaker do not overlap: they are the same or have nothing in
\* common.
LEMMA RunsApart ==
    ASSUME NEW u \in Utterances
    PROVE  /\ u \in Run(u, Utterances)
           /\ \A v \in Run(u, Utterances) : Run(v, Utterances) = Run(u, Utterances)
<1> DEFINE R(v) == Run(v, Utterances)
<1>1. \A v, w \in Utterances : /\ Between(v, w) \subseteq Utterances
                               /\ w \in R(v) <=> \A x \in Between(v, w) : SpeakerOf[x] = SpeakerOf[v]
  BY DEF Run, Between
<1>2. \A v, w \in Utterances : Between(v, w) = Between(w, v) /\ w \in Between(v, w)
  BY UtterancesOrdered DEF Between
<1>3. \A x \in Between(u, u) : x = u
  BY UtterancesOrdered DEF Between
<1>4. \A v, w, x \in Utterances : Between(v, w) \subseteq Between(x, v) \union Between(x, w)
  BY UtterancesOrdered DEF Between
<1>5. \A v \in Utterances : R(v) \subseteq Utterances
  BY DEF Run
<1> HIDE DEF R
<1>6. \A v, w \in Utterances : w \in R(v) => SpeakerOf[w] = SpeakerOf[v] /\ v \in R(w)
  BY <1>1, <1>2
<1>7. \A x, v, w \in Utterances : v \in R(x) /\ w \in R(x) => w \in R(v)
  <2> SUFFICES ASSUME NEW x \in Utterances, NEW v \in Utterances, NEW w \in Utterances,
                      v \in R(x), w \in R(x)
               PROVE  w \in R(v)
    OBVIOUS
  <2>1. SpeakerOf[v] = SpeakerOf[x]
    BY <1>6
  <2>2. \A y \in Between(x, v) \union Between(x, w) : SpeakerOf[y] = SpeakerOf[x]
    BY <1>1
  <2> QED BY <1>1, <1>4, <2>1, <2>2
<1>8. u \in R(u)
  BY <1>1, <1>3
<1>9. ASSUME NEW v \in R(u)
      PROVE  R(v) = R(u)
  <2>1. v \in Utterances /\ u \in R(v)
    BY <1>5, <1>6
  <2>2. R(u) \subseteq R(v)
    BY <1>5, <1>7, <2>1
  <2>3. R(v) \subseteq R(u)
    BY <1>5, <1>7, <2>1
  <2> QED BY <2>2, <2>3
<1> QED BY <1>8, <1>9 DEF R

\* A transcription in one piece has each utterance once, whatever the
\* provider times.
LEMMA WholeOnce ==
    ASSUME NEW u \in Utterances, reply \in {"segments", "words"}
    PROVE  \E s \in Normalize(Whole, 0) : {h \in Normalize(Whole, 0) : u \in h.text} = {s}
<1>1. Audible(Whole, 0) = Utterances
  <2>1. \A v \in Utterances : v.start \in 0..Duration /\ v.end \in 0..Duration /\ v.start < v.end
    BY Constants, TranscriptionAssumption
  <2> QED BY Constants, <2>1 DEF Audible, Whole
<1>2. \A v, w, text : Rendered(Whole, 0, v, w, text).text = text
  BY DEF Rendered
<1>3. CASE reply = "words"
  <2> DEFINE R == Run(u, Utterances)
  <2>1. Normalize(Whole, 0) =
            UNION {{Rendered(Whole, 0, v, w, Run(x, Utterances)) :
                        v \in First(Run(x, Utterances)), w \in Last(Run(x, Utterances))} : x \in Utterances}
    BY <1>1, <1>3 DEF Normalize, SegmentsFromWords
  <2>2. R \subseteq Utterances /\ u \in R /\ \A v \in R : Run(v, Utterances) = R
    BY RunsApart DEF Run
  <2>3. \A x \in Utterances : u \in Run(x, Utterances) => Run(x, Utterances) = R
    BY RunsApart
  <2> HIDE DEF R
  <2>4. PICK v, w \in R : First(R) = {v} /\ Last(R) = {w}
    BY <2>2, FirstAndLast
  <2> DEFINE s == Rendered(Whole, 0, v, w, R)
  <2>5. s \in Normalize(Whole, 0)
    BY <2>1, <2>4 DEF R
  <2>6. ASSUME NEW h \in Normalize(Whole, 0), u \in h.text
        PROVE  h = s
    <3>1. PICK x \in Utterances :
              h \in {Rendered(Whole, 0, a, b, Run(x, Utterances)) :
                         a \in First(Run(x, Utterances)), b \in Last(Run(x, Utterances))}
      BY <2>1, <2>6
    <3>2. PICK a \in First(Run(x, Utterances)), b \in Last(Run(x, Utterances)) :
              h = Rendered(Whole, 0, a, b, Run(x, Utterances))
      BY <3>1
    <3>3. Run(x, Utterances) = R
      BY <1>2, <2>3, <2>6, <3>2
    <3> QED BY <2>4, <3>2, <3>3
  <2>7. u \in s.text
    BY <1>2, <2>2
  <2> HIDE DEF s
  <2> QED BY <2>5, <2>6, <2>7
<1>4. CASE reply = "segments"
  <2>1. Normalize(Whole, 0) = {Rendered(Whole, 0, v, v, {v}) : v \in Utterances}
    BY <1>1, <1>4 DEF Normalize
  <2> DEFINE r(v) == Rendered(Whole, 0, v, v, {v})
  <2>2. \A v : r(v).text = {v}
    BY <1>2
  <2>3. Normalize(Whole, 0) = {r(v) : v \in Utterances}
    BY <2>1
  <2> HIDE DEF r
  <2>4. r(u) \in Normalize(Whole, 0) /\ u \in r(u).text
    BY <2>2, <2>3
  <2>5. \A h \in Normalize(Whole, 0) : u \in h.text => h = r(u)
    BY <2>2, <2>3
  <2> QED BY <2>4, <2>5
<1> QED BY <1>3, <1>4

-----------------------------------------------------------------------------
\* THE SLICES OF AN UPLOAD

Block(k) == k * PartSeconds

LEMMA Blocks ==
    /\ \A k \in Nat : Block(k) \in Nat /\ k <= Block(k) /\ Block(k + 1) = Block(k) + PartSeconds
    /\ \A j, k \in Nat : j < k => Block(j) + PartSeconds <= Block(k)
    /\ Block(0) = 0
<1>1. \A k \in Nat : Block(k) \in Nat /\ k <= Block(k) /\ Block(k + 1) = Block(k) + PartSeconds
  BY Constants DEF Block
<1>2. ASSUME NEW j \in Nat, NEW k \in Nat, j < k
      PROVE  Block(j) + PartSeconds <= Block(k)
  <2>1. PICK m \in Nat : k = j + 1 + m
    <3>1. k - j - 1 \in Nat /\ k = j + 1 + (k - j - 1)
      BY <1>2
    <3> QED BY <3>1
  <2>2. k * PartSeconds = j * PartSeconds + PartSeconds + m * PartSeconds
    BY Constants, <2>1
  <2>3. m * PartSeconds >= 0
    BY Constants
  <2>4. j * PartSeconds \in Int /\ m * PartSeconds \in Int
    BY Constants
  <2> QED BY Constants, <2>2, <2>3, <2>4 DEF Block
<1>3. Block(0) = 0
  BY Constants DEF Block
<1> QED BY <1>1, <1>2, <1>3

LEMMA BlocksCover ==
    ASSUME NEW k \in Nat, NEW n \in Nat, n <= Block(k) + PartSeconds,
           \A t \in 0..(Block(k) - 1) : \E j \in Nat : Block(j) <= t /\ t < Block(j) + PartSeconds
    PROVE  \A t \in 0..(n - 1) : \E j \in Nat : Block(j) <= t /\ t < Block(j) + PartSeconds
<1> SUFFICES ASSUME NEW t \in 0..(n - 1)
             PROVE  \E j \in Nat : Block(j) <= t /\ t < Block(j) + PartSeconds
  OBVIOUS
<1>1. Block(k) \in Nat /\ PartSeconds \in Nat
  BY Blocks, Constants
<1>2. CASE t < Block(k)
  BY <1>1, <1>2
<1>3. CASE t >= Block(k)
  BY <1>1, <1>3
<1> QED BY <1>1, <1>2, <1>3

LEMMA PartFields ==
    ASSUME NEW start \in Nat, start < Duration
    PROVE  LET p == PartFrom(start) IN
           /\ p.owned_start = start
           /\ p.owned_end \in Nat /\ p.owned_end <= Duration /\ p.owned_end <= start + PartSeconds
           /\ p.owned_end = start + PartSeconds \/ p.owned_end = Duration
           /\ p.content_start \in Nat /\ p.content_start <= start
           /\ p.content_start = start => start = 0
           /\ p.content_end \in Nat /\ p.owned_end <= p.content_end
<1>1. Overlap > 0
  BY TranscriptionAssumption
<1> QED BY <1>1, Constants DEF PartFrom, Earlier, Later

\* The slices made so far.
Made == {PartFrom(Block(k)) : k \in {k \in Nat : Block(k) < owned_start}}

\* Slices have been made up to owned_start, a whole number of them unless the
\* end is reached, and every moment up to there is in one of them.
MadeSoFar ==
    /\ owned_start = Duration \/ \E k \in Nat : owned_start = Block(k)
    /\ \A t \in 0..(owned_start - 1) : \E k \in Nat : Block(k) <= t /\ t < Block(k) + PartSeconds

\* Until the lines are there: the slices still to be transcribed, and of each
\* of the others what the provider answered, once.
SlicesInv ==
    /\ step = "transcribe" => owned_start = 0 /\ parts = {} /\ heard = {}
    /\ step = "split" => heard = {} /\ parts = Made /\ MadeSoFar
    /\ step = "listen" =>
           /\ owned_start = Duration /\ MadeSoFar
           /\ parts \subseteq Made
           /\ \A h \in heard : h.part \in Made \ parts
           /\ \A p \in Made \ parts : \E drift \in (0 - Drift)..Drift :
                  {h \in heard : h.part = p} = Normalize(p, drift)
    /\ step = "sentences" =>
           \/ owned_start = 0 /\ transcript = Normalize(Whole, 0)
           \/ /\ owned_start = Duration /\ MadeSoFar
              /\ \A h \in transcript : h.part \in Made
              /\ \A p \in Made : \E drift \in (0 - Drift)..Drift :
                     {h \in transcript : h.part = p} = Owned(Normalize(p, drift))

LEMMA PartOfNormalize ==
    ASSUME NEW p, NEW drift, NEW h \in Normalize(p, drift)
    PROVE  h.part = p
<1>1. \A v, w, text : Rendered(p, drift, v, w, text).part = p
  BY DEF Rendered
<1>2. CASE reply = "words"
  <2>1. h \in SegmentsFromWords(p, drift)
    BY <1>2 DEF Normalize
  <2> QED BY <1>1, <2>1 DEF SegmentsFromWords
<1>3. CASE reply # "words"
  BY <1>1, <1>3 DEF Normalize
<1> QED BY <1>2, <1>3

\* One more slice.
LEMMA MadeGrows ==
    ASSUME TypeOK, MadeSoFar, SplitByDuration
    PROVE  Made' = Made \union {PartFrom(owned_start)} /\ MadeSoFar'
<1>1. owned_start \in Nat /\ owned_start < Duration
  BY Constants DEF SplitByDuration, TypeOK, TranscriptionTypeOK, Time
<1>2. PICK k \in Nat : owned_start = Block(k)
  BY <1>1 DEF MadeSoFar
<1>3. /\ owned_start' \in Nat /\ owned_start < owned_start'
      /\ owned_start' <= Block(k) + PartSeconds
      /\ owned_start' = Block(k) + PartSeconds \/ owned_start' = Duration
  <2>1. owned_start' = Earlier(owned_start + PartSeconds, Duration)
    BY DEF SplitByDuration, PartFrom
  <2> QED BY <1>1, <1>2, <2>1, Constants DEF Earlier
<1>4. \A j \in Nat : Block(j) < owned_start <=> j < k
  <2> SUFFICES ASSUME NEW j \in Nat PROVE Block(j) < owned_start <=> j < k
    OBVIOUS
  <2>1. Block(j) \in Nat /\ Block(k) \in Nat
    BY Blocks
  <2>2. CASE j < k
    <3>1. Block(j) + PartSeconds <= Block(k)
      BY <2>2, Blocks
    <3> QED BY <1>2, <2>1, <2>2, <3>1, Constants
  <2>3. CASE j = k
    BY <1>2, <2>1, <2>3
  <2>4. CASE k < j
    <3>1. Block(k) + PartSeconds <= Block(j)
      BY <2>4, Blocks
    <3> QED BY <1>2, <2>1, <2>4, <3>1, Constants
  <2> QED BY <2>2, <2>3, <2>4
<1>5. \A j \in Nat : Block(j) < owned_start' <=> j < k \/ j = k
  <2> SUFFICES ASSUME NEW j \in Nat PROVE Block(j) < owned_start' <=> j < k \/ j = k
    OBVIOUS
  <2>1. Block(j) \in Nat /\ Block(k) \in Nat
    BY Blocks
  <2>2. CASE j < k
    BY <1>2, <1>3, <1>4, <2>1, <2>2
  <2>3. CASE j = k
    BY <1>2, <1>3, <2>3
  <2>4. CASE k < j
    <3>1. Block(k) + PartSeconds <= Block(j)
      BY <2>4, Blocks
    <3> QED BY <1>3, <2>1, <2>4, <3>1, Constants
  <2> QED BY <2>2, <2>3, <2>4
<1>6. Made' = Made \union {PartFrom(Block(k))}
  BY <1>4, <1>5 DEF Made
<1>7. owned_start' = Duration \/ \E j \in Nat : owned_start' = Block(j)
  <2>1. k + 1 \in Nat /\ Block(k + 1) = Block(k) + PartSeconds
    BY Blocks
  <2> QED BY <1>3, <2>1
<1>8. \A t \in 0..(owned_start - 1) : \E j \in Nat : Block(j) <= t /\ t < Block(j) + PartSeconds
  BY DEF MadeSoFar
<1>9. \A t \in 0..(owned_start' - 1) : \E j \in Nat : Block(j) <= t /\ t < Block(j) + PartSeconds
  BY <1>1, <1>2, <1>3, <1>8, BlocksCover
<1> QED BY <1>2, <1>6, <1>7, <1>9 DEF MadeSoFar

LEMMA SlicesNext == TypeOK /\ SlicesInv /\ [Next]_vars => SlicesInv'
<1> SUFFICES ASSUME TypeOK, SlicesInv, [Next]_vars PROVE SlicesInv'
  OBVIOUS
<1>1. ASSUME UNCHANGED <<reply, owned_start>>
      PROVE  /\ Made' = Made /\ MadeSoFar' <=> MadeSoFar
             /\ \A p, drift : Normalize(p, drift)' = Normalize(p, drift)
  BY <1>1 DEF Made, MadeSoFar, Normalize
<1>2. CASE TranscribeWhole
  BY <1>2 DEF TranscribeWhole, SlicesInv, Normalize
<1>3. CASE OverCap
  <2>1. owned_start = 0 /\ heard = {} /\ parts = {} /\ step' = "split"
        /\ UNCHANGED <<reply, owned_start, parts, heard>>
    BY <1>3 DEF OverCap, SlicesInv, transcriptionVars
  <2>2. Made = {} /\ MadeSoFar
    <3>1. \A k \in Nat : ~(Block(k) < owned_start)
      BY <2>1, Blocks
    <3>2. owned_start = Block(0) /\ 0 \in Nat /\ 0..(owned_start - 1) = {}
      BY <2>1, Blocks
    <3> QED BY <3>1, <3>2 DEF Made, MadeSoFar
  <2> QED BY <1>1, <2>1, <2>2 DEF SlicesInv
<1>4. CASE SplitByDuration
  <2>1. step = "split" /\ step' = "split" /\ parts' = parts \union {PartFrom(owned_start)}
        /\ heard' = heard
    BY <1>4 DEF SplitByDuration
  <2>2. heard = {} /\ parts = Made /\ MadeSoFar
    BY <2>1 DEF SlicesInv
  <2>3. Made' = Made \union {PartFrom(owned_start)} /\ MadeSoFar'
    BY <1>4, <2>2, MadeGrows
  <2> QED BY <2>1, <2>2, <2>3 DEF SlicesInv
<1>5. CASE Listen
  <2>1. step = "split" /\ owned_start >= Duration /\ step' = "listen"
        /\ UNCHANGED <<reply, owned_start, parts, heard>>
    BY <1>5 DEF Listen, transcriptionVars
  <2>2. owned_start = Duration
    BY <2>1, Constants DEF TypeOK, TranscriptionTypeOK, Time
  <2>3. heard = {} /\ parts = Made /\ MadeSoFar
    BY <2>1 DEF SlicesInv
  <2> QED BY <1>1, <2>1, <2>2, <2>3 DEF SlicesInv
<1>6. CASE TranscribePart
  <2>1. PICK p \in parts, drift \in (0 - Drift)..Drift :
            parts' = parts \ {p} /\ heard' = heard \union Normalize(p, drift)
    BY <1>6 DEF TranscribePart
  <2>2. step = "listen" /\ step' = "listen" /\ UNCHANGED <<reply, owned_start>>
    BY <1>6 DEF TranscribePart
  <2>3. /\ owned_start = Duration /\ MadeSoFar
        /\ parts \subseteq Made
        /\ \A h \in heard : h.part \in Made \ parts
        /\ \A q \in Made \ parts : \E e \in (0 - Drift)..Drift :
               {h \in heard : h.part = q} = Normalize(q, e)
    BY <2>2 DEF SlicesInv
  <2>4. \A h \in Normalize(p, drift) : h.part = p
    BY PartOfNormalize
  <2>5. Made' = Made /\ MadeSoFar' /\ \A q, e : Normalize(q, e)' = Normalize(q, e)
    BY <1>1, <2>2, <2>3
  <2>6. parts' \subseteq Made /\ \A h \in heard' : h.part \in Made \ parts'
    BY <2>1, <2>3, <2>4
  <2>7. ASSUME NEW q \in Made \ parts'
        PROVE  \E e \in (0 - Drift)..Drift : {h \in heard' : h.part = q} = Normalize(q, e)
    <3>1. CASE q = p
      <4>1. {h \in heard' : h.part = p} = Normalize(p, drift)
        BY <2>1, <2>3, <2>4
      <4> QED BY <3>1, <4>1
    <3>2. CASE q # p
      <4>1. {h \in heard' : h.part = q} = {h \in heard : h.part = q} /\ q \in Made \ parts
        BY <2>1, <2>4, <3>2
      <4> QED BY <2>3, <4>1
    <3> QED BY <3>1, <3>2
  <2>8. owned_start' = Duration
    BY <2>2, <2>3
  <2> QED BY <2>2, <2>5, <2>6, <2>7, <2>8 DEF SlicesInv
<1>7. CASE Concat
  <2>1. step = "listen" /\ parts = {} /\ transcript' = Owned(heard) /\ step' = "sentences"
        /\ UNCHANGED <<reply, owned_start>>
    BY <1>7 DEF Concat
  <2>2. /\ owned_start = Duration /\ MadeSoFar
        /\ \A h \in heard : h.part \in Made
        /\ \A p \in Made : \E e \in (0 - Drift)..Drift :
               {h \in heard : h.part = p} = Normalize(p, e)
    BY <2>1 DEF SlicesInv
  <2>3. Made' = Made /\ MadeSoFar' /\ \A p, e : Normalize(p, e)' = Normalize(p, e)
    BY <1>1, <2>1, <2>2
  <2>4. \A p : {h \in Owned(heard) : h.part = p} = Owned({h \in heard : h.part = p})
    BY DEF Owned
  <2>5. \A S : Owned(S)' = Owned(S)
    BY DEF Owned
  <2>6. \A h \in transcript' : h.part \in Made
    BY <2>1, <2>2 DEF Owned
  <2>7. \A p \in Made : \E e \in (0 - Drift)..Drift :
            {h \in transcript' : h.part = p} = Owned(Normalize(p, e))
    BY <2>1, <2>2, <2>4
  <2>8. owned_start' = Duration
    BY <2>1, <2>2
  <2> HIDE DEF Owned
  <2>9. \A p \in Made' : \E e \in (0 - Drift)..Drift :
            {h \in transcript' : h.part = p} = Owned(Normalize(p, e)')
    BY <2>3, <2>7
  <2> QED BY <2>1, <2>3, <2>6, <2>8, <2>9 DEF SlicesInv, Owned
<1>8. CASE step' \notin {"transcribe", "split", "listen", "sentences"}
  BY <1>8 DEF SlicesInv
<1>9. CASE UNCHANGED vars
  BY <1>1, <1>9 DEF vars, transcriptionVars, SlicesInv, Owned
<1>10. CASE TranscriptionStep /\ UNCHANGED detectionVars
  BY <1>2, <1>3, <1>4, <1>5, <1>6, <1>7, <1>8, <1>10
     DEF TranscriptionStep, SplitAtSentences, TranscriptionFails
<1>11. CASE NextChunk \/ FormatRejected \/ ChatFails \/ Complete \/ Malformed \/ Truncated
  BY <1>8, <1>11 DEF NextChunk, FormatRejected, ChatFails, Complete, Malformed, Truncated, Unusable, Conclude
<1>12. CASE Merging \/ Bridging \/ Refining \/ Judge \/ BeginCut \/ KeepRanges
  BY <1>8, <1>12 DEF Merging, Bridging, Refining, Judge, BeginCut, KeepRanges
<1>13. CASE UserStep
  BY <1>8, <1>13 DEF UserStep, PatchSegment, AddManualSegment, DeleteSegment, Proceed, Correctable
<1> QED BY <1>9, <1>10, <1>11, <1>12, <1>13 DEF Next, RunStep, Ended

\* Which slice owns an utterance that is well inside does not depend on the
\* state of a slice's clock.
LEMMA SameSide ==
    ASSUME NEW u \in Utterances, WellInside(u), NEW e \in (0 - Drift)..Drift,
           NEW j \in Nat, j > 0, Block(j) <= Duration
    PROVE  Block(j) <= u.start + e <=> Block(j) <= u.start
<1>1. j \in 1..Duration /\ Block(j) \in Nat
  BY Blocks, Constants
<1>2. u.start + Drift < Block(j) \/ u.start - Drift >= Block(j)
  BY <1>1 DEF WellInside, Block
<1> QED BY <1>1, <1>2, Constants

LEMMA SlicesOnce ==
    ASSUME SlicesInv, step = "sentences", reply = "segments", owned_start = Duration,
           NEW u \in Utterances, WellInside(u)
    PROVE  \E s \in transcript : Copies(u) = {s}
<1>1. u.start \in Nat /\ u.end \in Nat /\ u.start < u.end /\ u.end <= Duration
      /\ Drift < u.end /\ u.start + Drift < Duration
  BY Constants, TranscriptionAssumption DEF WellInside
<1>2. /\ MadeSoFar
      /\ \A h \in transcript : h.part \in Made
      /\ \A p \in Made : \E drift \in (0 - Drift)..Drift :
             {h \in transcript : h.part = p} = Owned(Normalize(p, drift))
  BY Constants DEF SlicesInv
<1>3. PICK k \in Nat : Block(k) <= u.start /\ u.start < Block(k) + PartSeconds
  <2>1. u.start \in 0..(owned_start - 1)
    BY <1>1, Constants
  <2> QED BY <1>2, <2>1 DEF MadeSoFar
<1>4. Block(k) \in Nat /\ Block(k) < Duration
  BY <1>1, <1>3, Blocks, Constants
<1> DEFINE p == PartFrom(Block(k))
<1>5. p \in Made
  BY <1>4 DEF Made
<1>6. PICK d \in (0 - Drift)..Drift : {h \in transcript : h.part = p} = Owned(Normalize(p, d))
  BY <1>2, <1>5
<1>7. Normalize(p, d) = {Rendered(p, d, v, v, {v}) : v \in Audible(p, d)}
  BY DEF Normalize
<1> DEFINE s == Rendered(p, d, u, u, {u})
<1>8. s.start = Later(p.content_start, u.start + d) /\ s.text = {u} /\ s.part = p
  BY DEF Rendered
<1>9. /\ p.owned_start = Block(k)
      /\ p.owned_end \in Nat /\ p.owned_end <= Duration /\ p.owned_end <= Block(k) + PartSeconds
      /\ p.owned_end = Block(k) + PartSeconds \/ p.owned_end = Duration
      /\ p.content_start \in Nat /\ p.content_start <= Block(k)
      /\ p.content_end \in Nat /\ p.owned_end <= p.content_end
      /\ p.owned_end > Block(k)
  <2> HIDE DEF p
  <2>1. PartFrom(Block(k)).owned_end > Block(k)
    BY <1>4, Constants DEF PartFrom, Earlier
  <2> QED BY <1>4, <2>1, PartFields DEF p
<1>10. u.start + d < p.owned_end
  <2>1. CASE p.owned_end = Duration
    BY <1>1, <2>1, Constants
  <2>2. CASE p.owned_end = Block(k) + PartSeconds
    <3>1. k + 1 \in Nat /\ k + 1 > 0 /\ Block(k + 1) = p.owned_end
      BY <2>2, Blocks
    <3>2. Block(k + 1) <= u.start + d <=> Block(k + 1) <= u.start
      BY <1>9, <3>1, SameSide
    <3> QED BY <1>1, <1>3, <1>9, <2>2, <3>1, <3>2, Constants
  <2> QED BY <1>9, <2>1, <2>2
<1>11. k = 0 \/ Block(k) <= u.start + d
  <2>1. CASE k > 0
    <3>1. Block(k) <= u.start + d <=> Block(k) <= u.start
      BY <1>4, <2>1, SameSide, Constants
    <3> QED BY <1>3, <3>1
  <2> QED BY <2>1
<1>12. u \in Audible(p, d)
  <2> HIDE DEF p
  <2>1. u.end + d > p.content_start
    <3>1. CASE k = 0
      <4>1. Block(k) = 0
        BY <3>1, Blocks
      <4> QED BY <1>1, <1>9, <4>1, Constants
    <3>2. CASE Block(k) <= u.start + d
      BY <1>1, <1>4, <1>9, <3>2, Constants
    <3> QED BY <1>11, <3>1, <3>2
  <2>2. u.start + d < p.content_end
    BY <1>1, <1>9, <1>10, Constants
  <2> QED BY <2>1, <2>2 DEF Audible
<1>13. p.owned_start <= s.start /\ s.start < p.owned_end
  <2> HIDE DEF p, s
  <2>1. CASE k = 0
    <3>1. Block(k) = 0
      BY <2>1, Blocks
    <3> QED BY <1>1, <1>8, <1>9, <1>10, <3>1, Constants DEF Later
  <2>2. CASE Block(k) <= u.start + d
    BY <1>1, <1>4, <1>8, <1>9, <1>10, <2>2, Constants DEF Later
  <2> QED BY <1>11, <2>1, <2>2
<1>14. s \in transcript /\ u \in s.text
  <2>1. s \in Normalize(p, d)
    BY <1>7, <1>12
  <2> HIDE DEF p, s
  <2>2. s \in Owned(Normalize(p, d))
    BY <1>8, <1>13, <2>1 DEF Owned
  <2> QED BY <1>6, <1>8, <2>2
<1>15. ASSUME NEW h \in transcript, u \in h.text
       PROVE  h = s
  <2>1. PICK j \in Nat : Block(j) < Duration /\ h.part = PartFrom(Block(j))
    BY <1>2 DEF Made
  <2> DEFINE q == PartFrom(Block(j))
  <2>2. PICK e \in (0 - Drift)..Drift : {g \in transcript : g.part = q} = Owned(Normalize(q, e))
    BY <1>2, <2>1
  <2>3. h \in Owned(Normalize(q, e))
    BY <2>1, <2>2
  <2>4. h.start = Later(q.content_start, u.start + e) /\ q.owned_start <= h.start /\ h.start < q.owned_end
    <3>1. Normalize(q, e) = {Rendered(q, e, v, v, {v}) : v \in Audible(q, e)}
      BY DEF Normalize
    <3> HIDE DEF q
    <3>2. PICK v \in Audible(q, e) : h = Rendered(q, e, v, v, {v})
      BY <2>3, <3>1 DEF Owned
    <3>3. v = u
      BY <1>15, <3>2 DEF Rendered
    <3> QED BY <2>1, <2>3, <3>2, <3>3 DEF Owned, Rendered, q
  <2>5. /\ q.owned_start = Block(j)
        /\ q.owned_end \in Nat /\ q.owned_end <= Duration
        /\ q.owned_end = Block(j) + PartSeconds \/ (q.owned_end = Duration /\ q.owned_end <= Block(j) + PartSeconds)
        /\ q.content_start \in Nat /\ q.content_start <= Block(j)
        /\ q.content_start = Block(j) => Block(j) = 0
        /\ Block(j) \in Nat
    <3>1. Block(j) \in Nat
      BY Blocks
    <3> HIDE DEF q
    <3> QED BY <2>1, <3>1, PartFields DEF q
  <2> HIDE DEF q
  <2>6. u.start < Block(j) + PartSeconds
    <3>1. u.start + e <= h.start /\ u.start + e < q.owned_end
      BY <1>1, <2>4, <2>5, Constants DEF Later
    <3>2. CASE q.owned_end = Duration /\ q.owned_end <= Block(j) + PartSeconds
      BY <1>1, <2>5, <3>2, Constants
    <3>3. CASE q.owned_end = Block(j) + PartSeconds
      <4>1. j + 1 \in Nat /\ j + 1 > 0 /\ Block(j + 1) = q.owned_end
        BY <3>3, Blocks
      <4>2. Block(j + 1) <= u.start + e <=> Block(j + 1) <= u.start
        BY <2>5, <4>1, SameSide
      <4> QED BY <1>1, <2>5, <3>1, <3>3, <4>1, <4>2, Constants
    <3> QED BY <2>5, <3>2, <3>3
  <2>7. Block(j) <= u.start
    <3>1. CASE Block(j) = 0
      BY <1>1, <3>1
    <3>2. CASE Block(j) # 0
      <4>1. j > 0
        BY <3>2, Blocks
      <4>2. Block(j) <= u.start + e
        BY <1>1, <2>4, <2>5, <3>2, Constants DEF Later
      <4>3. Block(j) <= u.start + e <=> Block(j) <= u.start
        BY <2>1, <2>5, <4>1, SameSide, Constants
      <4> QED BY <4>2, <4>3
    <3> QED BY <3>1, <3>2
  <2>8. j = k
    <3>1. ~(j < k)
      <4>1. j < k => Block(j) + PartSeconds <= Block(k)
        BY Blocks
      <4> QED BY <1>1, <1>3, <1>4, <2>5, <2>6, <4>1, Constants
    <3>2. ~(k < j)
      <4>1. k < j => Block(k) + PartSeconds <= Block(j)
        BY Blocks
      <4> QED BY <1>1, <1>3, <1>4, <2>5, <2>7, <4>1, Constants
    <3> QED BY <3>1, <3>2
  <2>9. h \in Owned(Normalize(p, d))
    BY <1>6, <2>1, <2>8
  <2>10. PICK v \in Audible(p, d) : h = Rendered(p, d, v, v, {v})
    BY <1>7, <2>9 DEF Owned
  <2>11. v = u
    BY <1>15, <2>10 DEF Rendered
  <2> QED BY <2>10, <2>11
<1> HIDE DEF s
<1> QED BY <1>14, <1>15 DEF Copies

\* However an upload is sliced and whatever state each slice's clock is in,
\* what is said well inside is in the transcript exactly once; and so is all
\* that is said when the audio is transcribed in one piece.
THEOREM EachUtteranceOnce == Spec => []UtterancesOnce
<1>1. Init => SlicesInv
  BY DEF Init, TranscriptionInit, SlicesInv
<1>2. TypeOK /\ SlicesInv /\ [Next]_vars => SlicesInv'
  BY SlicesNext
<1>3. TypeOK /\ SlicesInv => UtterancesOnce
  <2> SUFFICES ASSUME TypeOK, SlicesInv, step = "sentences",
                      reply = "segments" \/ owned_start = 0,
                      NEW u \in Utterances, WellInside(u)
               PROVE  \E s \in transcript : Copies(u) = {s}
    BY DEF UtterancesOnce
  <2>1. CASE owned_start = 0
    <3>1. transcript = Normalize(Whole, 0) /\ reply \in {"segments", "words"}
      BY <2>1, Constants DEF SlicesInv, TypeOK, TranscriptionTypeOK
    <3> QED BY <3>1, WholeOnce DEF Copies
  <2>2. CASE owned_start # 0
    <3>1. owned_start = Duration /\ reply = "segments"
      BY <2>2 DEF SlicesInv
    <3> QED BY <3>1, SlicesOnce
  <2> QED BY <2>1, <2>2
<1> QED BY <1>1, <1>2, <1>3, TypeCorrect, PTL DEF Spec
=============================================================================
