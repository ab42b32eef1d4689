-------------------------- MODULE DetectionSafety ---------------------------
(***************************************************************************)
(* Safety of Detection for every audio, transcript, model and setting: the *)
(* coverage of the lines by the chunks, the shape of what is detected,     *)
(* where cuts begin and end, how much is cut, and what is left of the      *)
(* audio.                                                                  *)
(***************************************************************************)
EXTENDS DetectionProofs, FiniteSetTheorems

-----------------------------------------------------------------------------
\* CHUNKS

\* What is in front of a chunk has been judged, and a chunk that is being
\* judged is not empty.
ChunkInv ==
    /\ step \in {"transcribe", "split", "listen", "sentences"} => chunk = NewChunk
    /\ step \in {"chunk", "ask"} =>
           \A i \in 1..chunk.from : \E a \in answers : a.from < i /\ i <= a.upto
    /\ step = "ask" => chunk.upto \in (chunk.from + 1)..Len(lines)
    /\ EveryLineIsSeen

\* The answer to a chunk covers it, and the next chunk begins within it.
LEMMA ConcludeSees ==
    ASSUME TypeOK, ChunkInv, step = "ask", UNCHANGED transcriptionVars,
           NEW result, Conclude(result)
    PROVE  ChunkInv'
<1> DEFINE new  == [from |-> chunk.from, upto |-> chunk.upto,
                    segments |-> result.segments, promo |-> result.promo]
           said == answers \union {new}
<1>1. /\ chunk.from \in Nat /\ chunk.upto \in Nat /\ Len(lines) \in Nat
      /\ chunk.upto \in (chunk.from + 1)..Len(lines)
  BY DEF TypeOK, DetectionTypeOK, TranscriptionTypeOK, ChunkInv
<1>2. lines' = lines /\ answers' = said
  BY Zenon DEF transcriptionVars, Conclude
<1>3. new.from = chunk.from /\ new.upto = chunk.upto /\ new \in said /\ answers \subseteq said
  OBVIOUS
<1> HIDE DEF said, new
<1>4. \A i \in 1..chunk.upto : \E a \in said : a.from < i /\ i <= a.upto
  <2> SUFFICES ASSUME NEW i \in 1..chunk.upto
               PROVE  \E a \in said : a.from < i /\ i <= a.upto
    OBVIOUS
  <2>1. CASE i <= chunk.from
    <3>1. i \in 1..chunk.from
      BY <1>1, <2>1
    <3> QED BY <1>3, <3>1 DEF ChunkInv
  <2>2. CASE i > chunk.from
    BY <1>1, <1>3, <2>2
  <2> QED BY <1>1, <2>1, <2>2
<1>5. CASE /\ \E next \in 0..Len(lines) : /\ StepsBack(chunk.from, chunk.upto, next)
                                          /\ chunk' = [from |-> next, upto |-> next]
           /\ step' = "chunk"
  <2>1. PICK next \in 0..Len(lines) : /\ StepsBack(chunk.from, chunk.upto, next)
                                      /\ chunk' = [from |-> next, upto |-> next]
    BY <1>5
  <2>2. next \in (chunk.from + 1)..chunk.upto /\ chunk'.from = next
    BY <2>1 DEF StepsBack
  <2>3. \A i \in 1..chunk'.from : i \in 1..chunk.upto
    BY <1>1, <2>2
  <2> QED BY <1>2, <1>4, <1>5, <2>3 DEF ChunkInv, EveryLineIsSeen
<1>6. CASE /\ chunk.upto >= Len(lines) /\ step' = "merge"
  <2>1. \A i \in 1..Len(lines) : i \in 1..chunk.upto
    BY <1>1, <1>6
  <2> QED BY <1>2, <1>4, <1>6, <2>1 DEF ChunkInv, EveryLineIsSeen
<1> QED BY <1>5, <1>6 DEF Conclude

LEMMA UnusableSees ==
    ASSUME TypeOK, ChunkInv, NEW salvaged, Unusable(salvaged)
    PROVE  ChunkInv'
<1>1. step = "ask" /\ UNCHANGED transcriptionVars
  BY DEF Unusable
<1>2. CASE Conclude(salvaged)
  BY <1>1, <1>2, ConcludeSees
<1>3. CASE UNCHANGED <<step, chunk, answers, todo>>
  BY <1>1, <1>3 DEF ChunkInv, EveryLineIsSeen, transcriptionVars
<1>4. CASE step' = "failed"
  BY <1>4 DEF ChunkInv, EveryLineIsSeen
<1> QED BY <1>2, <1>3, <1>4 DEF Unusable

LEMMA ChunkStep == TypeOK /\ ChunkInv /\ [Next]_vars => ChunkInv'
<1> SUFFICES ASSUME TypeOK, ChunkInv, [Next]_vars PROVE ChunkInv'
  OBVIOUS
<1> USE DEF ChunkInv, EveryLineIsSeen
<1>1. CASE TranscriptionStep /\ UNCHANGED detectionVars
  <2> USE DEF detectionVars
  <2>1. CASE SplitAtSentences
    <3>1. step' = "chunk" /\ chunk' = NewChunk
      BY <1>1, <2>1 DEF SplitAtSentences
    <3>2. \A i \in 1..chunk'.from : FALSE
      BY <3>1 DEF NewChunk
    <3> QED BY <3>1, <3>2
  <2>2. CASE TranscribeWhole \/ OverCap \/ SplitByDuration \/ Listen \/ TranscribePart \/ Concat
    <3>1. /\ step \in {"transcribe", "split", "listen", "sentences"}
          /\ step' \in {"transcribe", "split", "listen", "sentences"}
      BY <2>2 DEF TranscribeWhole, OverCap, SplitByDuration, Listen, TranscribePart, Concat
    <3> QED BY <1>1, <3>1
  <2>3. CASE TranscriptionFails
    BY <2>3 DEF TranscriptionFails
  <2> QED BY <1>1, <2>1, <2>2, <2>3 DEF TranscriptionStep
<1>2. CASE NextChunk
  <2>1. PICK upto \in (chunk.from + 1)..Len(lines) : chunk' = [chunk EXCEPT !.upto = upto]
    BY <1>2 DEF NextChunk
  <2>2. chunk'.from = chunk.from /\ chunk'.upto = upto
    BY <2>1 DEF TypeOK, DetectionTypeOK
  <2> QED BY <1>2, <2>1, <2>2 DEF NextChunk, transcriptionVars
<1>3. CASE FormatRejected
  BY <1>3 DEF FormatRejected, transcriptionVars
<1>4. CASE ChatFails
  BY <1>4 DEF ChatFails
<1>5. CASE Complete
  <2>1. step = "ask" /\ UNCHANGED transcriptionVars /\ \E result \in Results : Conclude(result)
    BY <1>5 DEF Complete
  <2> QED BY <2>1, ConcludeSees
<1>6. CASE Malformed
  BY <1>6, UnusableSees DEF Malformed
<1>7. CASE Truncated
  <2>1. PICK r \in Results : Unusable([segments |-> r.segments, promo |-> r.promo, salvaged |-> TRUE])
    BY <1>7 DEF Truncated
  <2> QED BY <2>1, UnusableSees
<1>8. CASE Merging \/ Bridging \/ Refining
  <2>1. /\ step \in {"merge", "bridge", "refine"}
        /\ step' \in {"merge", "bridge", "refine", "judge"}
        /\ UNCHANGED <<transcriptionVars, answers>>
    BY <1>8 DEF Merging, Bridging, Refining
  <2> QED BY <2>1 DEF transcriptionVars
<1>9. CASE Judge \/ BeginCut \/ KeepRanges \/ UserStep
  <2>1. step' \in {"stored", "review", "skipped", "keep", "done", "failed"}
    BY <1>9 DEF Judge, BeginCut, KeepRanges, UserStep, PatchSegment, AddManualSegment,
                DeleteSegment, Proceed, Correctable
  <2> QED BY <2>1
<1>10. CASE UNCHANGED vars
  BY <1>10 DEF vars, transcriptionVars, detectionVars
<1> QED BY <1>1, <1>2, <1>3, <1>4, <1>5, <1>6, <1>7, <1>8, <1>9, <1>10 DEF Next, RunStep, Ended

LEMMA ChunksCorrect == Spec => []ChunkInv
<1>1. Init => ChunkInv
  BY DEF Init, TranscriptionInit, DetectionInit, ChunkInv, EveryLineIsSeen
<1>2. TypeOK /\ ChunkInv /\ [Next]_vars => ChunkInv'
  BY ChunkStep
<1> QED BY <1>1, <1>2, TypeCorrect, PTL DEF Spec

\* The model has been asked about every line before post-processing begins,
\* however the transcript is cut into chunks and whatever is asked again.
THEOREM EveryLineSeen == Spec => []EveryLineIsSeen
<1>1. ChunkInv => EveryLineIsSeen
  BY DEF ChunkInv
<1> QED BY <1>1, ChunksCorrect, PTL

\* An episode is left out of the feed by itself only if every line was in a
\* chunk that the model called promotional.
THEOREM SkippedPromo == Spec => SkippedIsPromo
<1>1. ChunkInv /\ [Next]_vars =>
          [step = "judge" /\ step' = "skipped" =>
              \A i \in 1..Len(lines) : \E a \in answers : a.promo /\ a.from < i /\ i <= a.upto]_vars
  <2> SUFFICES ASSUME ChunkInv, Next, step = "judge", step' = "skipped", NEW i \in 1..Len(lines)
               PROVE  \E a \in answers : a.promo /\ a.from < i /\ i <= a.upto
    OBVIOUS
  <2>1. Judge
    BY DEF Next, RunStep, UserStep, Ended, vars, TranscriptionStep, TranscribeWhole, OverCap,
           SplitByDuration, Listen, TranscribePart, Concat, SplitAtSentences, TranscriptionFails,
           NextChunk, FormatRejected, ChatFails, Complete, Malformed, Truncated, Unusable, Merging,
           Bridging, Refining, BeginCut, KeepRanges, PatchSegment, AddManualSegment, DeleteSegment,
           Proceed, Correctable
  <2>2. WholeEpisodePromo
    BY <2>1 DEF Judge
  <2>3. \E a \in answers : a.from < i /\ i <= a.upto
    BY DEF ChunkInv, EveryLineIsSeen
  <2> QED BY <2>2, <2>3 DEF WholeEpisodePromo, AllPromo
<1> QED BY <1>1, ChunksCorrect, PTL DEF Spec, SkippedIsPromo

-----------------------------------------------------------------------------
\* WHAT IS KEPT

LEMMA InCovered == \A S, x : x \in Covered(S) <=> \E s \in S : x \in s.start .. (s.end - 1)
BY DEF Covered, Ticks

\* While the ranges to keep are made: what has been passed is either kept or
\* to be cut, nothing is both, and no cut that has been looked at goes on.
KeepInv ==
    /\ step = "keep" =>
           /\ todo \subseteq ToCut
           /\ cursor >= 0
           /\ \A d \in ToCut \ todo : d.end <= cursor
           /\ \A x \in Covered(out) : x \notin Covered(ToCut)
           /\ \A x \in 0 .. (cursor - 1) : x \in Covered(out) \/ x \in Covered(ToCut)
    /\ step = "done" => Audio = (0 .. (Duration - 1)) \ Covered(ToCut)

LEMMA ToCutType == TypeOK => ToCut \subseteq Interval
BY DEF ToCut, TypeOK, DetectionTypeOK, Row, Interval

\* Rows and what is cut of them cover the same.
LEMMA CoveredRows == TypeOK => Covered({r \in rows : ~r.kept}) = Covered(ToCut)
<1> SUFFICES ASSUME TypeOK PROVE Covered({r \in rows : ~r.kept}) = Covered(ToCut)
  OBVIOUS
<1> DEFINE cut  == {r \in rows : ~r.kept}
           A    == Covered(cut)
           B    == Covered(ToCut)
           I(r) == [start |-> r.start, end |-> r.end]
<1>1. \A r : I(r).start = r.start /\ I(r).end = r.end
  OBVIOUS
<1>2. ToCut = {I(r) : r \in cut}
  BY DEF ToCut
<1> HIDE DEF cut, I
<1>3. \A x : (\E r \in cut : x \in r.start .. (r.end - 1)) <=> (\E s \in ToCut : x \in s.start .. (s.end - 1))
  BY <1>1, <1>2
<1>4. \A x : x \in A <=> x \in B
  BY <1>3, InCovered
<1> HIDE DEF A, B
<1>5. A = B
  BY <1>4
<1> QED BY <1>5 DEF A, B, cut

\* A round of keep_ranges adds what lies between the cursor and the next cut.
LEMMA KeepRound ==
    ASSUME TypeOK, KeepInv, step = "keep", NEW s \in First(todo),
           todo' = todo \ {s}, out' = KeepBefore(out, cursor, s),
           cursor' = Later(cursor, s.end), UNCHANGED <<step, rows>>
    PROVE  KeepInv'
<1>1. /\ ToCut' = ToCut /\ ToCut \subseteq Interval /\ cursor \in Int
      /\ s \in ToCut /\ s.start \in Int /\ s.end \in Int
      /\ \A d \in todo : d.start \in Int /\ s.start <= d.start
  <2>1. ToCut' = ToCut
    BY DEF ToCut
  <2>2. todo \subseteq Interval /\ s \in todo /\ todo \subseteq ToCut /\ cursor \in Int
    BY DEF TypeOK, DetectionTypeOK, First, KeepInv
  <2>3. \A d \in Interval : d.start \in Int /\ d.end \in Int
    BY DEF Interval
  <2>4. \A d \in todo : s.start <= d.start
    BY <2>2, <2>3 DEF First, Sooner
  <2> QED BY <2>1, <2>2, <2>3, <2>4, ToCutType
<1>2. /\ todo' \subseteq ToCut
      /\ cursor' >= 0 /\ cursor' \in Int
      /\ \A d \in ToCut \ todo' : d.end <= cursor'
  <2>1. cursor' \in Int /\ cursor' >= cursor /\ cursor' >= s.end
    BY <1>1 DEF Later
  <2>2. \A d \in ToCut : d.end \in Int
    BY <1>1 DEF Interval
  <2>3. \A d \in ToCut \ todo' : d = s \/ d \in ToCut \ todo
    OBVIOUS
  <2> QED BY <1>1, <2>1, <2>2, <2>3 DEF KeepInv
<1>3. \A x : x \in Covered(out') <=> x \in Covered(out) \/ x \in cursor .. (s.start - 1)
  <2> SUFFICES ASSUME NEW x
               PROVE  x \in Covered(out') <=> x \in Covered(out) \/ x \in cursor .. (s.start - 1)
    OBVIOUS
  <2>1. CASE s.start > cursor
    <3> DEFINE new == [start |-> cursor, end |-> s.start]
    <3>1. out' = out \union {new} /\ new.start = cursor /\ new.end = s.start
      BY <2>1 DEF KeepBefore
    <3> HIDE DEF new
    <3>2. (\E r \in out' : x \in r.start .. (r.end - 1))
             <=> (\E r \in out : x \in r.start .. (r.end - 1)) \/ x \in cursor .. (s.start - 1)
      BY <3>1
    <3> QED BY <3>2, InCovered
  <2>2. CASE ~(s.start > cursor)
    BY <1>1, <2>2 DEF KeepBefore
  <2> QED BY <2>1, <2>2
<1>4. \A x \in cursor .. (s.start - 1) : x \notin Covered(ToCut)
  <2> SUFFICES ASSUME NEW x \in cursor .. (s.start - 1), NEW d \in ToCut, x \in d.start .. (d.end - 1)
               PROVE  FALSE
    BY InCovered
  <2>1. d.start \in Int /\ d.end \in Int
    BY <1>1 DEF Interval
  <2>2. CASE d \in todo
    BY <1>1, <2>1, <2>2
  <2>3. CASE d \notin todo
    BY <1>1, <2>1, <2>3 DEF KeepInv
  <2> QED BY <2>2, <2>3
<1>5. \A x \in Covered(out') : x \notin Covered(ToCut)
  BY <1>3, <1>4 DEF KeepInv
<1>6. \A x \in 0 .. (cursor' - 1) : x \in Covered(out') \/ x \in Covered(ToCut)
  <2> SUFFICES ASSUME NEW x \in 0 .. (cursor' - 1)
               PROVE  x \in Covered(out') \/ x \in Covered(ToCut)
    OBVIOUS
  <2>1. CASE x \in 0 .. (cursor - 1)
    BY <1>3, <2>1 DEF KeepInv
  <2>2. CASE x \in cursor .. (s.start - 1)
    BY <1>3, <2>2
  <2>3. CASE x \in s.start .. (s.end - 1)
    BY <1>1, <2>3, InCovered
  <2>4. x \in 0 .. (cursor - 1) \/ x \in cursor .. (s.start - 1) \/ x \in s.start .. (s.end - 1)
    BY <1>1, <1>2 DEF Later
  <2> QED BY <2>1, <2>2, <2>3, <2>4
<1> QED BY <1>1, <1>2, <1>5, <1>6 DEF KeepInv

\* After the last cut the rest is kept.
LEMMA KeepTail ==
    ASSUME TypeOK, KeepInv, step = "keep", todo = {}, rows' = rows,
           out' = IF cursor < Duration THEN out \union {[start |-> cursor, end |-> Duration]} ELSE out,
           step' = "done"
    PROVE  KeepInv'
<1>1. /\ ToCut' = ToCut /\ ToCut \subseteq Interval /\ cursor \in Int /\ cursor >= 0
      /\ Duration \in Nat
  BY ToCutType, SegmentsAssumption DEF ToCut, TypeOK, DetectionTypeOK, KeepInv
<1>2. \A x : x \in Covered(out') <=> x \in Covered(out) \/ x \in cursor .. (Duration - 1)
  <2> SUFFICES ASSUME NEW x
               PROVE  x \in Covered(out') <=> x \in Covered(out) \/ x \in cursor .. (Duration - 1)
    OBVIOUS
  <2>1. CASE cursor < Duration
    <3> DEFINE new == [start |-> cursor, end |-> Duration]
    <3>1. out' = out \union {new} /\ new.start = cursor /\ new.end = Duration
      BY <2>1
    <3> HIDE DEF new
    <3>2. (\E r \in out' : x \in r.start .. (r.end - 1))
             <=> (\E r \in out : x \in r.start .. (r.end - 1)) \/ x \in cursor .. (Duration - 1)
      BY <3>1
    <3> QED BY <3>2, InCovered
  <2>2. CASE ~(cursor < Duration)
    BY <1>1, <2>2
  <2> QED BY <2>1, <2>2
<1>3. \A x \in cursor .. (Duration - 1) : x \notin Covered(ToCut)
  <2> SUFFICES ASSUME NEW x \in cursor .. (Duration - 1), NEW d \in ToCut, x \in d.start .. (d.end - 1)
               PROVE  FALSE
    BY InCovered
  <2> QED BY <1>1 DEF KeepInv, Interval
<1>4. \A x \in 0 .. (Duration - 1) : x \in Covered(out') <=> x \notin Covered(ToCut)
  <2> SUFFICES ASSUME NEW x \in 0 .. (Duration - 1)
               PROVE  x \in Covered(out') <=> x \notin Covered(ToCut)
    OBVIOUS
  <2>1. CASE x \in 0 .. (cursor - 1)
    <3>1. x \notin cursor .. (Duration - 1)
      BY <1>1, <2>1
    <3>2. x \in Covered(out') <=> x \in Covered(out)
      BY <1>2, <3>1
    <3> QED BY <2>1, <3>2 DEF KeepInv
  <2>2. CASE x \in cursor .. (Duration - 1)
    BY <1>2, <1>3, <2>2
  <2> QED BY <1>1, <2>1, <2>2
<1>5. Audio' = (0 .. (Duration - 1)) \ Covered(ToCut)
  BY <1>4 DEF Audio
<1> QED BY <1>1, <1>5 DEF KeepInv

LEMMA BeginKeep ==
    ASSUME TypeOK, BeginCut
    PROVE  KeepInv'
<1>1. ToCut' = ToCut /\ Duration \in Nat
  BY SegmentsAssumption DEF BeginCut, ToCut
<1>2. CASE ToCut = {} /\ out' = {[start |-> 0, end |-> Duration]} /\ step' = "done"
  <2> DEFINE whole == [start |-> 0, end |-> Duration]
  <2>1. whole.start = 0 /\ whole.end = Duration /\ out' = {whole}
    BY <1>2
  <2> HIDE DEF whole
  <2>2. \A x : x \in Covered(out') <=> x \in 0 .. (Duration - 1)
    BY <2>1, InCovered
  <2>3. \A x : x \notin Covered(ToCut)
    BY <1>2, InCovered
  <2>4. Audio' = (0 .. (Duration - 1)) \ Covered(ToCut)
    BY <2>2, <2>3 DEF Audio
  <2> QED BY <1>1, <1>2, <2>4 DEF KeepInv
<1>3. CASE out' = {} /\ step' = "keep"
  <2>1. todo' = ToCut /\ cursor' = 0
    BY DEF BeginCut
  <2>2. \A x : x \notin Covered(out')
    BY <1>3, InCovered
  <2>3. \A x \in 0 .. (cursor' - 1) : FALSE
    BY <2>1
  <2> QED BY <1>1, <1>3, <2>1, <2>2, <2>3 DEF KeepInv
<1> QED BY <1>2, <1>3 DEF BeginCut

LEMMA KeepStep == TypeOK /\ KeepInv /\ [Next]_vars => KeepInv'
<1> SUFFICES ASSUME TypeOK, KeepInv, [Next]_vars PROVE KeepInv'
  OBVIOUS
<1>1. CASE BeginCut
  BY <1>1, BeginKeep
<1>2. CASE KeepRanges
  <2>1. ASSUME NEW s \in First(todo), todo' = todo \ {s}, out' = KeepBefore(out, cursor, s),
               cursor' = Later(cursor, s.end), UNCHANGED step
        PROVE  KeepInv'
    BY <1>2, <2>1, KeepRound DEF KeepRanges
  <2>2. CASE step' = "failed"
    BY <2>2 DEF KeepInv
  <2>3. CASE /\ todo = {} /\ step' = "done"
             /\ out' = IF cursor < Duration THEN out \union {[start |-> cursor, end |-> Duration]} ELSE out
    BY <1>2, <2>3, KeepTail DEF KeepRanges
  <2> QED BY <1>2, <2>1, <2>2, <2>3 DEF KeepRanges
<1>3. CASE ~BeginCut /\ ~KeepRanges /\ ~(UNCHANGED vars)
  <2>1. step' \notin {"keep", "done"}
    BY <1>3 DEF Next, RunStep, UserStep, Ended, TranscriptionStep, TranscribeWhole, OverCap,
           SplitByDuration, Listen, TranscribePart, Concat, SplitAtSentences, TranscriptionFails,
           NextChunk, FormatRejected, ChatFails, Complete, Malformed, Truncated, Unusable, Conclude, Merging,
           Bridging, Refining, Judge, PatchSegment, AddManualSegment, DeleteSegment,
           Proceed, Correctable
  <2> QED BY <2>1 DEF KeepInv
<1>4. CASE UNCHANGED vars
  BY <1>4 DEF vars, transcriptionVars, detectionVars, KeepInv, ToCut, Audio
<1> QED BY <1>1, <1>2, <1>3, <1>4

LEMMA KeepCorrect == Spec => []KeepInv
<1>1. Init => KeepInv
  BY DEF Init, TranscriptionInit, KeepInv
<1>2. TypeOK /\ KeepInv /\ [Next]_vars => KeepInv'
  BY KeepStep
<1> QED BY <1>1, <1>2, TypeCorrect, PTL DEF Spec

\* What is served is the audio without the rows to be cut, exactly, for any
\* rows: unsorted, overlapping, empty, beyond the ends, corrected or not.
THEOREM KeptCorrect == Spec => []KeptIsTheRest
<1>1. TypeOK /\ KeepInv => KeptIsTheRest
  BY CoveredRows DEF KeepInv, KeptIsTheRest
<1> QED BY <1>1, TypeCorrect, KeepCorrect, PTL

-----------------------------------------------------------------------------
\* WHAT IS DETECTED

Proper(S)   == \A s \in S : s.start < s.end
Separate(S) == \A s, t \in S : s # t => s.end <= t.start \/ t.end <= s.start
HasLast(S)  == S = {} \/ Last(S) # {}

\* The loops of post-processing go over proper segments from left to right.
\* Merging makes them separate, the later rounds keep them so; that what has
\* been produced has a last one is what the loops compare with.
ApartInv ==
    /\ step \in {"transcribe", "split", "listen", "sentences", "chunk", "ask"} => out = {}
    /\ step \in {"merge", "bridge", "refine"} =>
           Proper(out) /\ Proper(todo) /\ Separate(out) /\ HasLast(out)
    /\ step = "merge" => \A o \in out, t \in todo : o.start <= t.start
    /\ step \in {"bridge", "refine"} =>
           Separate(todo) /\ \A o \in out, t \in todo : o.end <= t.start
    /\ DetectedAreApart

LEMMA IntervalNumbers == \A s \in Interval : s.start \in Int /\ s.end \in Int
BY DEF Interval

\* Everything but the last segment lies before it.
LEMMA BeforeLast ==
    ASSUME NEW S \in SUBSET Interval, Proper(S), Separate(S), NEW l \in Last(S),
           NEW o \in S, o # l
    PROVE  o.end <= l.start
BY IntervalNumbers DEF Proper, Separate, Last, Sooner

LEMMA OneLast ==
    ASSUME NEW S \in SUBSET Interval, NEW l \in Last(S), NEW k \in Last(S)
    PROVE  l = k
<1>1. l \in Interval /\ k \in Interval /\ l.start = k.start /\ l.end = k.end
  BY IntervalNumbers DEF Last, Sooner
<1> QED BY <1>1 DEF Interval

LEMMA OneFirst ==
    ASSUME NEW S \in SUBSET Interval, NEW l \in First(S), NEW k \in First(S)
    PROVE  l = k
<1>1. l \in Interval /\ k \in Interval /\ l.start = k.start /\ l.end = k.end
  BY IntervalNumbers DEF First, Sooner
<1> QED BY <1>1 DEF Interval

\* A segment behind all others becomes the last one.
LEMMA AddLast ==
    ASSUME NEW S \in SUBSET Interval, Proper(S), Separate(S),
           NEW s \in Interval, s.start < s.end, \A o \in S : o.end <= s.start
    PROVE  Proper(S \union {s}) /\ Separate(S \union {s}) /\ HasLast(S \union {s})
<1>1. Proper(S \union {s}) /\ Separate(S \union {s})
  BY DEF Proper, Separate
<1>2. s \in Last(S \union {s})
  BY IntervalNumbers DEF Last, Sooner, Proper
<1> QED BY <1>1, <1>2 DEF HasLast

\* The last segment may grow to the right.
LEMMA AbsorbKeeps ==
    ASSUME NEW S \in SUBSET Interval, Proper(S), Separate(S),
           NEW l \in Last(S), NEW s \in Interval
    PROVE  /\ Proper(Absorb(S, s)) /\ Separate(Absorb(S, s)) /\ HasLast(Absorb(S, s))
           /\ \A a \in Absorb(S, s) : \E o \in S :
                  a.start = o.start /\ (a.end = o.end \/ (o = l /\ a.end = Later(l.end, s.end)))
<1> DEFINE k == [l EXCEPT !.end = Later(l.end, s.end)]
<1>1. /\ k \in Interval /\ k.start = l.start /\ k.end = Later(l.end, s.end)
      /\ k.end \in Int /\ k.end >= l.end /\ l \in S
  BY IntervalNumbers DEF Interval, Later, Last
<1>2. Absorb(S, s) = (S \ {l}) \union {k}
  <2>1. \A o \in S : o \in Last(S) <=> o = l
    BY OneLast
  <2> QED BY <2>1, <1>1 DEF Absorb
<1> HIDE DEF k
<1>3. \A o \in S \ {l} : o.end <= k.start /\ o \in Interval
  BY <1>1, BeforeLast
<1>4. Proper(S \ {l}) /\ Separate(S \ {l})
  BY DEF Proper, Separate
<1>5. k.start < k.end
  BY <1>1, IntervalNumbers DEF Proper
<1>6. S \ {l} \in SUBSET Interval
  OBVIOUS
<1>7. Proper(Absorb(S, s)) /\ Separate(Absorb(S, s)) /\ HasLast(Absorb(S, s))
  BY <1>1, <1>2, <1>3, <1>4, <1>5, <1>6, AddLast
<1>8. \A a \in Absorb(S, s) : \E o \in S :
          a.start = o.start /\ (a.end = o.end \/ (o = l /\ a.end = Later(l.end, s.end)))
  BY <1>1, <1>2
<1> QED BY <1>7, <1>8

LEMMA MergeKeeps ==
    ASSUME NEW S \in SUBSET Interval, NEW T \in SUBSET Interval,
           Proper(S), Proper(T), Separate(S), HasLast(S),
           \A o \in S, t \in T : o.start <= t.start,
           NEW s \in First(T)
    PROVE  /\ Proper(Merge(S, s)) /\ Separate(Merge(S, s)) /\ HasLast(Merge(S, s))
           /\ \A o \in Merge(S, s), t \in T \ {s} : o.start <= t.start
<1>1. s \in T /\ s \in Interval /\ s.start < s.end /\ \A t \in T : s.start <= t.start
  BY IntervalNumbers DEF First, Sooner, Proper
<1>2. CASE \E l \in Last(S) : s.start <= l.end + MergeGap
  <2>1. PICK l \in Last(S) : s.start <= l.end + MergeGap
    BY <1>2
  <2>2. Merge(S, s) = Absorb(S, s)
    BY <1>2 DEF Merge
  <2> QED BY <1>1, <2>2, AbsorbKeeps
<1>3. CASE ~(\E l \in Last(S) : s.start <= l.end + MergeGap)
  <2>1. Merge(S, s) = S \union {s}
    BY <1>3 DEF Merge
  <2>2. \A o \in S : o.end <= s.start
    <3> SUFFICES ASSUME NEW o \in S PROVE o.end <= s.start
      OBVIOUS
    <3>1. PICK l \in Last(S) : TRUE
      BY DEF HasLast
    <3>2. l \in S /\ l \in Interval /\ o \in Interval /\ MergeGap \in Nat
      BY SegmentsAssumption DEF Last
    <3>3. l.end < s.start /\ l.start < l.end
      BY <1>1, <1>3, <3>1, <3>2, IntervalNumbers DEF Proper
    <3>4. o = l \/ o.end <= l.start
      BY <3>1, BeforeLast
    <3> QED BY <1>1, <3>2, <3>3, <3>4, IntervalNumbers
  <2> QED BY <1>1, <2>1, <2>2, AddLast
<1> QED BY <1>2, <1>3

LEMMA BridgeKeeps ==
    ASSUME NEW S \in SUBSET Interval, NEW T \in SUBSET Interval, NEW cues,
           Proper(S), Proper(T), Separate(S), Separate(T), HasLast(S),
           \A o \in S, t \in T : o.end <= t.start,
           NEW s \in First(T)
    PROVE  /\ Proper(BridgeOverCues(S, s, cues)) /\ Separate(BridgeOverCues(S, s, cues))
           /\ HasLast(BridgeOverCues(S, s, cues))
           /\ \A o \in BridgeOverCues(S, s, cues), t \in T \ {s} : o.end <= t.start
<1>1. s \in T /\ s \in Interval /\ s.start < s.end
  BY DEF First, Proper
<1>2. \A t \in T \ {s} : s.end <= t.start
  <2> SUFFICES ASSUME NEW t \in T \ {s} PROVE s.end <= t.start
    OBVIOUS
  <2>1. s.start <= t.start /\ t.start < t.end /\ t \in Interval
    BY IntervalNumbers DEF First, Sooner, Proper
  <2> QED BY <1>1, <2>1, IntervalNumbers DEF Separate
<1>3. CASE \E l \in Last(S) : Spans(l.end, s.start, BridgeGap, cues)
  <2>1. PICK l \in Last(S) : Spans(l.end, s.start, BridgeGap, cues)
    BY <1>3
  <2>2. BridgeOverCues(S, s, cues) = Absorb(S, s)
    BY <1>3 DEF BridgeOverCues
  <2>3. l \in S /\ l \in Interval
    BY DEF Last
  <2>4. \A t \in T \ {s} : Later(l.end, s.end) <= t.start
    BY <1>2, <2>3 DEF Later
  <2>5. \A a \in Absorb(S, s) : \E o \in S : a.end = o.end \/ a.end = Later(l.end, s.end)
    BY <1>1, AbsorbKeeps
  <2> QED BY <1>1, <2>2, <2>4, <2>5, AbsorbKeeps
<1>4. CASE ~(\E l \in Last(S) : Spans(l.end, s.start, BridgeGap, cues))
  <2>1. BridgeOverCues(S, s, cues) = S \union {s}
    BY <1>4 DEF BridgeOverCues
  <2>2. \A o \in S : o.end <= s.start
    BY <1>1
  <2> QED BY <1>1, <1>2, <2>1, <2>2, AddLast
<1> QED BY <1>3, <1>4

\* The first segment may grow to the left, and the last one to the right.
LEMMA ExtendStartKeeps ==
    ASSUME NEW S \in SUBSET Interval, NEW cues, Proper(S), Separate(S)
    PROVE  /\ ExtendToStart(S, cues) \in SUBSET Interval
           /\ Proper(ExtendToStart(S, cues)) /\ Separate(ExtendToStart(S, cues))
<1> DEFINE grows(s) == s \in First(S) /\ Spans(0, s.start, EdgeExtension, cues)
           e(s) == IF grows(s) THEN [s EXCEPT !.start = 0] ELSE s
<1>1. \A s \in S : /\ e(s) \in Interval /\ e(s).end = s.end
                   /\ e(s).start = IF grows(s) THEN 0 ELSE s.start
  BY DEF Interval
<1>2. \A s \in S : grows(s) => 0 < s.start /\ s \in First(S)
  BY DEF Spans
<1>3. ExtendToStart(S, cues) = {e(s) : s \in S}
  BY DEF ExtendToStart
<1> HIDE DEF e, grows
<1>4. \A s \in S : e(s).start <= s.start
  BY <1>1, <1>2, IntervalNumbers
<1>5. \A s, t \in S : s # t => e(s).end <= e(t).start \/ e(t).end <= e(s).start
  <2> SUFFICES ASSUME NEW s \in S, NEW t \in S, s # t, s.end <= t.start
               PROVE  e(s).end <= e(t).start
    BY DEF Separate
  <2>1. ~grows(t)
    <3> SUFFICES ASSUME t \in First(S) PROVE FALSE
      BY <1>2
    <3>1. t.start <= s.start
      BY IntervalNumbers DEF First, Sooner
    <3> QED BY <3>1, IntervalNumbers DEF Proper
  <2> QED BY <1>1, <2>1
<1>6. \A s \in S : e(s).start < e(s).end
  BY <1>1, <1>4, IntervalNumbers DEF Proper
<1> QED BY <1>1, <1>3, <1>5, <1>6 DEF Proper, Separate

LEMMA ExtendEndKeeps ==
    ASSUME NEW S \in SUBSET Interval, NEW cues, Proper(S), Separate(S)
    PROVE  Proper(ExtendToEnd(S, cues)) /\ Separate(ExtendToEnd(S, cues))
<1> DEFINE grows(s) == s \in Last(S) /\ Spans(s.end, Duration, EdgeExtension, cues)
           e(s) == IF grows(s) THEN [s EXCEPT !.end = Duration] ELSE s
<1>1. \A s \in S : /\ e(s).start = s.start
                   /\ e(s).end = IF grows(s) THEN Duration ELSE s.end
  BY DEF Interval
<1>2. \A s \in S : grows(s) => s.end < Duration /\ s \in Last(S)
  BY DEF Spans
<1>3. ExtendToEnd(S, cues) = {e(s) : s \in S}
  BY DEF ExtendToEnd
<1> HIDE DEF e, grows
<1>4. Duration \in Int /\ \A s \in S : e(s).end >= s.end
  BY <1>1, <1>2, IntervalNumbers, SegmentsAssumption
<1>5. \A s, t \in S : s # t => e(s).end <= e(t).start \/ e(t).end <= e(s).start
  <2> SUFFICES ASSUME NEW s \in S, NEW t \in S, s # t, s.end <= t.start
               PROVE  e(s).end <= e(t).start
    BY DEF Separate
  <2>1. ~grows(s)
    <3> SUFFICES ASSUME s \in Last(S) PROVE FALSE
      BY <1>2
    <3>1. t.end <= s.start
      BY BeforeLast
    <3>2. s.start < s.end /\ t.start < t.end
      BY DEF Proper
    <3> QED BY <3>1, <3>2, IntervalNumbers
  <2> QED BY <1>1, <2>1
<1>6. \A s \in S : e(s).start < e(s).end
  BY <1>1, <1>4, IntervalNumbers DEF Proper
<1> QED BY <1>1, <1>3, <1>5, <1>6 DEF Proper, Separate

\* A refined segment stays between its neighbours.
LEMMA RefineKeeps ==
    ASSUME NEW S \in SUBSET Interval, NEW T \in SUBSET Interval, NEW start \in Int, NEW end \in Int,
           Proper(S), Proper(T), Separate(S), Separate(T), HasLast(S),
           \A o \in S, t \in T : o.end <= t.start,
           NEW s \in First(T),
           Refine(s, start, end, S, T \ {s}) \in Interval
    PROVE  LET r == Refine(s, start, end, S, T \ {s}) IN
           /\ Proper(S \union {r}) /\ Separate(S \union {r}) /\ HasLast(S \union {r})
           /\ \A o \in S \union {r}, t \in T \ {s} : o.end <= t.start
<1> DEFINE m == Straight(s, start, end)
           a == IF \E l \in Last(S) : m.start < l.end THEN s.start ELSE m.start
           b == IF \E n \in T \ {s} : m.end > n.start THEN s.end ELSE m.end
           r == Refine(s, start, end, S, T \ {s})
<1>1. s \in T /\ s \in Interval /\ s.start < s.end /\ s.start \in Int /\ s.end \in Int
  BY IntervalNumbers DEF First, Proper
<1>2. \A t \in T \ {s} : s.end <= t.start
  <2> SUFFICES ASSUME NEW t \in T \ {s} PROVE s.end <= t.start
    OBVIOUS
  <2>1. s.start <= t.start /\ t.start < t.end /\ t \in Interval
    BY IntervalNumbers DEF First, Sooner, Proper
  <2> QED BY <1>1, <2>1, IntervalNumbers DEF Separate
<1>3. m.start \in Int /\ m.end \in Int /\ m.start < m.end
  BY <1>1 DEF Straight
<1>4. r = Straight(s, a, b)
  BY DEF Refine
<1> HIDE DEF m, r
<1>5. a \in Int /\ \A l \in Last(S) : l.end <= a
  <2>1. \A l \in Last(S) : l \in S /\ l.end <= s.start /\ l.end \in Int
    BY <1>1, IntervalNumbers DEF Last
  <2> QED BY <1>1, <1>3, <2>1
<1>6. b \in Int /\ \A t \in T \ {s} : b <= t.start
  BY <1>1, <1>2, <1>3, IntervalNumbers
<1> HIDE DEF a, b
<1>7. \/ r.start = s.start /\ r.end = s.end
      \/ r.start = a /\ r.end = b /\ a < b
  BY <1>4, <1>5, <1>6 DEF Straight
<1>8. r.start < r.end /\ \A t \in T \ {s} : r.end <= t.start
  BY <1>1, <1>2, <1>6, <1>7
<1>9. \A o \in S : o.end <= r.start
  <2> SUFFICES ASSUME NEW o \in S PROVE o.end <= r.start
    OBVIOUS
  <2>1. o.end <= s.start
    BY <1>1
  <2>2. PICK l \in Last(S) : TRUE
    BY DEF HasLast
  <2>3. l \in S /\ l.end <= a /\ l.start < l.end /\ l.end \in Int /\ l.start \in Int /\ o.end \in Int
    BY <1>5, <2>2, IntervalNumbers DEF Last, Proper
  <2>4. o = l \/ o.end <= l.start
    BY <2>2, BeforeLast
  <2>5. o.end <= a
    BY <1>5, <2>3, <2>4
  <2> QED BY <1>7, <2>1, <2>5
<1>10. r \in Interval
  BY DEF r
<1>11. Proper(S \union {r}) /\ Separate(S \union {r}) /\ HasLast(S \union {r})
  BY <1>8, <1>9, <1>10, AddLast
<1>12. \A o \in S \union {r}, t \in T \ {s} : o.end <= t.start
  BY <1>8
<1> QED BY <1>11, <1>12 DEF r

LEMMA CandidatesProper == \A S, bounds : Proper(Candidates(S, bounds))
BY DEF Proper, Candidates, FilterShort, SnapToBoundaries, Clamp

LEMMA EmptyApart == Proper({}) /\ Separate({}) /\ HasLast({})
BY DEF Proper, Separate, HasLast

LEMMA ConcludeApart ==
    ASSUME TypeOK, ApartInv, step = "ask", out' = out, NEW result, Conclude(result)
    PROVE  ApartInv'
<1>1. out' = {}
  BY DEF ApartInv
<1>2. CASE step' = "chunk"
  BY <1>1, <1>2 DEF ApartInv, DetectedAreApart
<1>3. CASE step' = "merge"
  <2>1. Proper(todo')
    BY <1>3, CandidatesProper DEF Conclude
  <2> QED BY <1>1, <1>3, <2>1, EmptyApart DEF ApartInv, DetectedAreApart
<1> QED BY <1>2, <1>3 DEF Conclude

LEMMA UnusableApart ==
    ASSUME TypeOK, ApartInv, NEW salvaged, Unusable(salvaged)
    PROVE  ApartInv'
<1>1. step = "ask" /\ out' = out
  BY DEF Unusable
<1>2. CASE Conclude(salvaged)
  BY <1>1, <1>2, ConcludeApart
<1>3. CASE UNCHANGED <<step, chunk, answers, todo>>
  BY <1>1, <1>3 DEF ApartInv, DetectedAreApart
<1>4. CASE step' = "failed"
  BY <1>4 DEF ApartInv, DetectedAreApart
<1> QED BY <1>2, <1>3, <1>4 DEF Unusable

\* The rounds and the changes of phase between them.
LEMMA ProcessApart ==
    ASSUME TypeOK, ApartInv, Merging \/ Bridging \/ Refining
    PROVE  ApartInv'
<1>1. out \in SUBSET Interval /\ todo \in SUBSET Interval
  BY DEF TypeOK, DetectionTypeOK
<1>2. CASE Merging
  <2>1. /\ step = "merge" /\ Proper(out) /\ Proper(todo) /\ Separate(out) /\ HasLast(out)
        /\ \A o \in out, t \in todo : o.start <= t.start
    BY <1>2 DEF Merging, ApartInv
  <2>2. ASSUME NEW s \in First(todo), todo' = todo \ {s}, out' = Merge(out, s), step' = step
        PROVE  ApartInv'
    <3>1. Proper(out') /\ Separate(out') /\ HasLast(out')
      BY <1>1, <2>1, <2>2, MergeKeeps
    <3>2. \A o \in out', t \in todo' : o.start <= t.start
      BY <1>1, <2>1, <2>2, MergeKeeps
    <3>3. Proper(todo')
      BY <2>1, <2>2 DEF Proper
    <3> QED BY <2>1, <2>2, <3>1, <3>2, <3>3 DEF ApartInv, DetectedAreApart
  <2>3. CASE todo' = out /\ out' = {} /\ step' \in {"bridge", "refine"}
    BY <2>1, <2>3, EmptyApart DEF ApartInv, DetectedAreApart
  <2> QED BY <1>2, <2>2, <2>3 DEF Merging
<1>3. CASE Bridging
  <2>1. /\ step = "bridge" /\ Proper(out) /\ Proper(todo) /\ Separate(out) /\ HasLast(out)
        /\ Separate(todo) /\ \A o \in out, t \in todo : o.end <= t.start
    BY <1>3 DEF Bridging, ApartInv
  <2>2. ASSUME NEW s \in First(todo), todo' = todo \ {s}, out' = BridgeOverCues(out, s, Cues), step' = step
        PROVE  ApartInv'
    <3>1. Proper(out') /\ Separate(out') /\ HasLast(out')
      BY <1>1, <2>1, <2>2, BridgeKeeps
    <3>2. \A o \in out', t \in todo' : o.end <= t.start
      BY <1>1, <2>1, <2>2, BridgeKeeps
    <3>3. Proper(todo') /\ Separate(todo')
      BY <2>1, <2>2 DEF Proper, Separate
    <3> QED BY <2>1, <2>2, <3>1, <3>2, <3>3 DEF ApartInv, DetectedAreApart
  <2>3. CASE todo' = ExtendToEdges(out, Cues) /\ out' = {} /\ step' = "refine"
    <3>1. Proper(todo') /\ Separate(todo')
      BY <1>1, <2>1, <2>3, ExtendStartKeeps, ExtendEndKeeps DEF ExtendToEdges
    <3> QED BY <2>3, <3>1, EmptyApart DEF ApartInv, DetectedAreApart
  <2> QED BY <1>3, <2>2, <2>3 DEF Bridging
<1>4. CASE Refining
  <2>1. /\ step = "refine" /\ Proper(out) /\ Proper(todo) /\ Separate(out) /\ HasLast(out)
        /\ Separate(todo) /\ \A o \in out, t \in todo : o.end <= t.start
    BY <1>4 DEF Refining, ApartInv
  <2>2. ASSUME NEW s \in First(todo), NEW start \in CutPoints(s.start, Gaps, 0 - 1),
               NEW end \in CutPoints(s.end, Gaps, 1), todo' = todo \ {s},
               out' = out \union {Refine(s, start, end, out, todo \ {s})}, step' = step
        PROVE  ApartInv'
    <3> DEFINE r == Refine(s, start, end, out, todo \ {s})
    <3>1. s \in Interval /\ s.start \in Int /\ s.end \in Int
      BY <1>1, IntervalNumbers DEF First
    <3>2. Range(lines) \in SUBSET Interval
      BY DEF Range, TypeOK, TranscriptionTypeOK
    <3>3. start \in Int /\ end \in Int
      BY <2>2, <3>1, <3>2, CutPointsType DEF Gaps
    <3>4. r \in Interval
      BY <1>1, <3>1, <3>3, RefineType
    <3>5. /\ Proper(out \union {r}) /\ Separate(out \union {r}) /\ HasLast(out \union {r})
          /\ \A o \in out \union {r}, t \in todo \ {s} : o.end <= t.start
      BY <1>1, <2>1, <3>3, <3>4, RefineKeeps
    <3>6. Proper(todo') /\ Separate(todo')
      BY <2>1, <2>2 DEF Proper, Separate
    <3> QED BY <2>1, <2>2, <3>5, <3>6 DEF ApartInv, DetectedAreApart
  <2>3. CASE out' = out /\ step' = "judge"
    BY <2>1, <2>3 DEF ApartInv, DetectedAreApart, Separate
  <2> QED BY <1>4, <2>2, <2>3 DEF Refining
<1> QED BY <1>2, <1>3, <1>4

LEMMA ApartStep == TypeOK /\ ApartInv /\ [Next]_vars => ApartInv'
<1> SUFFICES ASSUME TypeOK, ApartInv, [Next]_vars PROVE ApartInv'
  OBVIOUS
<1>1. CASE TranscriptionStep /\ UNCHANGED detectionVars
  <2>1. /\ step \in {"transcribe", "split", "listen", "sentences"}
        /\ step' \in {"transcribe", "split", "listen", "sentences", "chunk", "failed"}
    BY <1>1 DEF TranscriptionStep, TranscribeWhole, OverCap, SplitByDuration, Listen, TranscribePart,
                Concat, SplitAtSentences, TranscriptionFails
  <2> QED BY <1>1, <2>1 DEF ApartInv, DetectedAreApart, detectionVars
<1>2. CASE NextChunk \/ FormatRejected
  <2>1. step \in {"chunk", "ask"} /\ step' \in {"chunk", "ask"} /\ out' = out
    BY <1>2 DEF NextChunk, FormatRejected
  <2> QED BY <2>1 DEF ApartInv, DetectedAreApart
<1>3. CASE ChatFails \/ Judge \/ BeginCut \/ KeepRanges \/ UserStep
  <2>1. step' \in {"stored", "review", "skipped", "keep", "done", "failed"}
    BY <1>3 DEF ChatFails, Judge, BeginCut, KeepRanges, UserStep, PatchSegment, AddManualSegment,
                DeleteSegment, Proceed, Correctable
  <2> QED BY <2>1 DEF ApartInv, DetectedAreApart
<1>4. CASE Complete
  <2>1. step = "ask" /\ out' = out /\ \E result \in Results : Conclude(result)
    BY <1>4 DEF Complete
  <2> QED BY <2>1, ConcludeApart
<1>5. CASE Malformed
  BY <1>5, UnusableApart DEF Malformed
<1>6. CASE Truncated
  <2>1. PICK r \in Results : Unusable([segments |-> r.segments, promo |-> r.promo, salvaged |-> TRUE])
    BY <1>6 DEF Truncated
  <2> QED BY <2>1, UnusableApart
<1>7. CASE Merging \/ Bridging \/ Refining
  BY <1>7, ProcessApart
<1>8. CASE UNCHANGED vars
  BY <1>8 DEF vars, detectionVars, ApartInv, DetectedAreApart
<1> QED BY <1>1, <1>2, <1>3, <1>4, <1>5, <1>6, <1>7, <1>8 DEF Next, RunStep, Ended

\* What is judged and stored does not overlap, whatever the model cites, for
\* any cues, pauses and settings: the durations add up to what is cut.
THEOREM DetectedApart == Spec => []DetectedAreApart
<1>1. Init => ApartInv
  BY DEF Init, TranscriptionInit, DetectionInit, ApartInv, DetectedAreApart
<1>2. TypeOK /\ ApartInv /\ [Next]_vars => ApartInv'
  BY ApartStep
<1>3. ApartInv => DetectedAreApart
  BY DEF ApartInv
<1> QED BY <1>1, <1>2, <1>3, TypeCorrect, PTL DEF Spec

-----------------------------------------------------------------------------
\* WHERE CUTS BEGIN AND END

CitedStarts == {c.start : c \in UNION {a.segments : a \in answers}}
CitedEnds   == {c.end   : c \in UNION {a.segments : a \in answers}}

\* t is within d of one of these times, which are clamped to the audio.
NearTo(t, times, d) == \E c \in times : Apart(t, Later(0, Earlier(c, Duration))) <= d

\* Snapped to where the model said.
Snapped(s) == NearTo(s.start, CitedStarts, SnapTolerance) /\ NearTo(s.end, CitedEnds, SnapTolerance)

\* ... or extended to the edge of the episode.
SnappedOrEdge(s) ==
    /\ NearTo(s.start, CitedStarts, SnapTolerance) \/ s.start = 0
    /\ NearTo(s.end, CitedEnds, SnapTolerance) \/ s.end = Duration

\* ... and refined.
CutIsCited(s) ==
    /\ Within(s.start, CitedStarts) \/ Apart(s.start, 0) <= RefineWindow
    /\ Within(s.end, CitedEnds) \/ Apart(s.end, Duration) <= RefineWindow

\* What the rounds keep of this, phase by phase.
CitedInv ==
    /\ step \in {"transcribe", "split", "listen", "sentences", "chunk", "ask"} => out = {}
    /\ step \in {"merge", "bridge"} => \A s \in todo \union out : Snapped(s)
    /\ step = "refine" => /\ \A s \in todo : SnappedOrEdge(s)
                          /\ \A s \in out : CutIsCited(s)
    /\ step = "judge" => \A s \in out : CutIsCited(s)

\* A candidate is snapped to what was cited.
LEMMA CandidatesSnapped ==
    ASSUME NEW S \in SUBSET Interval, NEW L \in SUBSET Interval,
           NEW s \in Candidates(S, Boundaries(L))
    PROVE  /\ NearTo(s.start, {c.start : c \in S}, SnapTolerance)
           /\ NearTo(s.end, {c.end : c \in S}, SnapTolerance)
<1> DEFINE bounds == Boundaries(L)
           clamped(t) == Later(0, Earlier(t, Duration))
<1>1. Duration \in Nat /\ SnapTolerance \in Nat
  BY SegmentsAssumption
<1>2. \A t \in Int : clamped(t) \in Int
  BY <1>1 DEF Later, Earlier
<1>3. bounds \subseteq Int
  BY SegmentsAssumption DEF Boundaries, Interval, Rounded
<1>4. \A a, b \in Int : Apart(a, b) = Apart(b, a) /\ Apart(a, a) = 0
  BY DEF Apart
<1> HIDE DEF bounds, clamped
<1>5. \A r \in Clamp(S) : \E c \in S : r.start = clamped(c.start) /\ r.end = clamped(c.end)
  BY DEF Clamp, clamped
<1>6. s \in SnapToBoundaries(Clamp(S), bounds)
  BY DEF Candidates, FilterShort, bounds
<1>7. PICK r \in Clamp(S) :
          /\ s.start = r.start \/ s.start \in Nearest(r.start, bounds)
          /\ s.end = r.end \/ s.end \in Nearest(r.end, bounds)
  <2>1. CASE bounds = {}
    BY <1>6, <2>1 DEF SnapToBoundaries
  <2>2. CASE bounds # {}
    <3>1. PICK r \in Clamp(S) : s \in [start : Nearest(r.start, bounds), end : Nearest(r.end, bounds)]
      BY <1>6, <2>2 DEF SnapToBoundaries
    <3> QED BY <3>1
  <2> QED BY <2>1, <2>2
<1>8. PICK c \in S : r.start = clamped(c.start) /\ r.end = clamped(c.end)
  BY <1>5
<1>9. c.start \in Int /\ c.end \in Int /\ r.start \in Int /\ r.end \in Int
  BY <1>2, <1>8 DEF Interval
<1>10. \A b, t : b \in Nearest(t, bounds) => b \in Int /\ Apart(b, t) <= SnapTolerance
  BY <1>3 DEF Nearest, Near
<1>11. Apart(s.start, r.start) <= SnapTolerance /\ Apart(s.end, r.end) <= SnapTolerance
  BY <1>1, <1>4, <1>7, <1>9, <1>10
<1> QED BY <1>8, <1>11 DEF NearTo, clamped

\* A boundary moves by no more than the window.
LEMMA CutPointsNear ==
    ASSUME NEW t \in Int, NEW outward, NEW L \in SUBSET Interval,
           NEW x \in CutPoints(t, WordGaps(L), outward)
    PROVE  x \in Int /\ t - RefineWindow <= x /\ x <= t + RefineWindow
<1>1. RefineWindow \in Nat
  BY SegmentsAssumption
<1>2. WordGaps(L) \subseteq Interval
  BY Constants DEF WordGaps, Interval, First, Last
<1>3. \A g \in Interval : /\ Target(g, t) \in Int
                          /\ t - RefineWindow <= Target(g, t) /\ Target(g, t) <= t + RefineWindow
  BY <1>1 DEF Target, Interval, Earlier, Later
<1>4. x = t \/ \E g \in Qualifying(t, WordGaps(L)) : x = Target(g, t)
  BY DEF CutPoints
<1> QED BY <1>1, <1>2, <1>3, <1>4 DEF Qualifying

\* Growing over another segment takes no time that neither had.
LEMMA AbsorbFrom ==
    ASSUME NEW S \in SUBSET Interval, NEW s \in Interval, NEW a \in Absorb(S, s)
    PROVE  \E l \in S : a.start = l.start /\ (a.end = l.end \/ a.end = s.end)
BY DEF Absorb, Later, Interval

LEMMA MergeSnapped ==
    ASSUME NEW S \in SUBSET Interval, NEW s \in Interval, Snapped(s), \A o \in S : Snapped(o)
    PROVE  /\ \A o \in Merge(S, s) : Snapped(o)
           /\ \A o \in BridgeOverCues(S, s, Cues) : Snapped(o)
<1>1. \A a \in Absorb(S, s) : Snapped(a)
  <2> SUFFICES ASSUME NEW a \in Absorb(S, s) PROVE Snapped(a)
    OBVIOUS
  <2>1. PICK l \in S : a.start = l.start /\ (a.end = l.end \/ a.end = s.end)
    BY AbsorbFrom
  <2> QED BY <2>1 DEF Snapped
<1> QED BY <1>1 DEF Merge, BridgeOverCues

LEMMA ExtendSnapped ==
    ASSUME NEW S \in SUBSET Interval, \A o \in S : Snapped(o)
    PROVE  \A o \in ExtendToEdges(S, Cues) : SnappedOrEdge(o)
<1> DEFINE T == ExtendToStart(S, Cues)
<1>1. \A t \in T : t \in Interval /\ \E o \in S : (t.start = o.start \/ t.start = 0) /\ t.end = o.end
  BY DEF ExtendToStart, Interval
<1> HIDE DEF T
<1>2. \A e \in ExtendToEnd(T, Cues) : \E t \in T : e.start = t.start /\ (e.end = t.end \/ e.end = Duration)
  BY <1>1 DEF ExtendToEnd, Interval
<1>3. SUFFICES ASSUME NEW e \in ExtendToEnd(T, Cues) PROVE SnappedOrEdge(e)
  BY DEF ExtendToEdges, T
<1>4. PICK t \in T : e.start = t.start /\ (e.end = t.end \/ e.end = Duration)
  BY <1>2
<1>5. PICK o \in S : (t.start = o.start \/ t.start = 0) /\ t.end = o.end
  BY <1>1
<1> QED BY <1>4, <1>5 DEF Snapped, SnappedOrEdge

LEMMA RefineCited ==
    ASSUME NEW s \in Interval, SnappedOrEdge(s), CitedStarts \subseteq Int, CitedEnds \subseteq Int,
           NEW start \in Int, s.start - RefineWindow <= start, start <= s.start + RefineWindow,
           NEW end \in Int, s.end - RefineWindow <= end, end <= s.end + RefineWindow,
           NEW S, NEW rest
    PROVE  CutIsCited(Refine(s, start, end, S, rest))
<1> DEFINE r == Refine(s, start, end, S, rest)
<1>1. Duration \in Nat /\ SnapTolerance \in Nat /\ RefineWindow \in Nat
  BY SegmentsAssumption
<1>2. s.start \in Int /\ s.end \in Int
  BY DEF Interval
<1>3. (r.start = s.start \/ r.start = start) /\ (r.end = s.end \/ r.end = end)
  BY DEF Refine, Straight
<1> HIDE DEF r
<1>4. /\ r.start \in Int /\ s.start - RefineWindow <= r.start /\ r.start <= s.start + RefineWindow
      /\ r.end \in Int /\ s.end - RefineWindow <= r.end /\ r.end <= s.end + RefineWindow
  BY <1>1, <1>2, <1>3
<1>5. \A x, y, c \in Int : x - RefineWindow <= y /\ y <= x + RefineWindow /\ Apart(x, c) <= SnapTolerance
                               => Apart(y, c) <= SnapTolerance + RefineWindow
  BY <1>1 DEF Apart
<1>6. \A c \in Int : Later(0, Earlier(c, Duration)) \in Int
  BY <1>1 DEF Later, Earlier
<1>7. \A x, y \in Int, times \in SUBSET Int :
          x - RefineWindow <= y /\ y <= x + RefineWindow /\ NearTo(x, times, SnapTolerance) => Within(y, times)
  BY <1>5, <1>6 DEF NearTo, Within
<1>8. Within(r.start, CitedStarts) \/ Apart(r.start, 0) <= RefineWindow
  <2>1. s.start = 0 => Apart(r.start, 0) <= RefineWindow
    BY <1>1, <1>4 DEF Apart
  <2> QED BY <1>2, <1>4, <1>7, <2>1 DEF SnappedOrEdge
<1>9. Within(r.end, CitedEnds) \/ Apart(r.end, Duration) <= RefineWindow
  <2>1. s.end = Duration => Apart(r.end, Duration) <= RefineWindow
    BY <1>1, <1>4 DEF Apart
  <2> QED BY <1>2, <1>4, <1>7, <2>1 DEF SnappedOrEdge
<1> QED BY <1>8, <1>9 DEF CutIsCited, r

LEMMA ConcludeCited ==
    ASSUME TypeOK, CitedInv, step = "ask", out' = out, UNCHANGED lines,
           NEW result, result.segments \in SUBSET Interval, result.promo \in BOOLEAN,
           Conclude(result)
    PROVE  CitedInv'
<1>1. out' = {}
  BY DEF CitedInv
<1>2. CASE step' = "chunk"
  BY <1>1, <1>2 DEF CitedInv
<1>3. CASE step' = "merge"
  <2> DEFINE S == UNION {a.segments : a \in answers'}
  <2>1. todo' = Candidates(S, Boundaries(Range(lines)))
    BY <1>3 DEF Conclude
  <2>2. answers' \subseteq Answer
    BY ConcludeType
  <2>3. S \in SUBSET Interval /\ Range(lines) \in SUBSET Interval
    BY <2>2 DEF Answer, Range, TypeOK, TranscriptionTypeOK
  <2>4. CitedStarts' = {c.start : c \in S} /\ CitedEnds' = {c.end : c \in S}
    BY DEF CitedStarts, CitedEnds
  <2> HIDE DEF S
  <2>5. \A s \in todo' : Snapped(s)'
    BY <2>1, <2>3, <2>4, CandidatesSnapped DEF Snapped
  <2> QED BY <1>1, <1>3, <2>5 DEF CitedInv
<1> QED BY <1>2, <1>3 DEF Conclude

LEMMA UnusableCited ==
    ASSUME TypeOK, CitedInv, NEW salvaged, Unusable(salvaged),
           salvaged.segments \in SUBSET Interval, salvaged.promo \in BOOLEAN
    PROVE  CitedInv'
<1>1. step = "ask" /\ out' = out /\ lines' = lines
  BY DEF Unusable, transcriptionVars
<1>2. CASE Conclude(salvaged)
  BY <1>1, <1>2, ConcludeCited
<1>3. CASE UNCHANGED <<step, chunk, answers, todo>>
  BY <1>1, <1>3 DEF CitedInv
<1>4. CASE step' = "failed"
  BY <1>4 DEF CitedInv
<1> QED BY <1>2, <1>3, <1>4 DEF Unusable

LEMMA ProcessCited ==
    ASSUME TypeOK, CitedInv, Merging \/ Bridging \/ Refining
    PROVE  CitedInv'
<1>1. out \in SUBSET Interval /\ todo \in SUBSET Interval /\ answers \subseteq Answer
      /\ Range(lines) \in SUBSET Interval
  BY DEF TypeOK, DetectionTypeOK, TranscriptionTypeOK, Range
<1>2. answers' = answers
  BY DEF Merging, Bridging, Refining
<1>3. CitedStarts \subseteq Int /\ CitedEnds \subseteq Int
  BY <1>1 DEF CitedStarts, CitedEnds, Answer, Interval
<1>4. \A s : Snapped(s)' = Snapped(s) /\ SnappedOrEdge(s)' = SnappedOrEdge(s) /\ CutIsCited(s)' = CutIsCited(s)
  BY <1>2 DEF Snapped, SnappedOrEdge, CutIsCited, CitedStarts, CitedEnds
<1>5. \A s : Snapped(s) => SnappedOrEdge(s)
  BY DEF Snapped, SnappedOrEdge
<1>6. CASE Merging
  <2>1. step = "merge" /\ \A s \in todo \union out : Snapped(s)
    BY <1>6 DEF Merging, CitedInv
  <2>2. ASSUME NEW s \in First(todo), todo' = todo \ {s}, out' = Merge(out, s), step' = step
        PROVE  CitedInv'
    <3>1. s \in todo /\ s \in Interval
      BY <1>1 DEF First
    <3>2. \A o \in out' : Snapped(o)
      BY <1>1, <2>1, <2>2, <3>1, MergeSnapped
    <3> QED BY <1>4, <2>1, <2>2, <3>2 DEF CitedInv
  <2>3. CASE todo' = out /\ out' = {} /\ step' \in {"bridge", "refine"}
    BY <1>4, <1>5, <2>1, <2>3 DEF CitedInv
  <2> QED BY <1>6, <2>2, <2>3 DEF Merging
<1>7. CASE Bridging
  <2>1. step = "bridge" /\ \A s \in todo \union out : Snapped(s)
    BY <1>7 DEF Bridging, CitedInv
  <2>2. ASSUME NEW s \in First(todo), todo' = todo \ {s}, out' = BridgeOverCues(out, s, Cues), step' = step
        PROVE  CitedInv'
    <3>1. s \in todo /\ s \in Interval
      BY <1>1 DEF First
    <3>2. \A o \in out' : Snapped(o)
      BY <1>1, <2>1, <2>2, <3>1, MergeSnapped
    <3> QED BY <1>4, <2>1, <2>2, <3>2 DEF CitedInv
  <2>3. CASE todo' = ExtendToEdges(out, Cues) /\ out' = {} /\ step' = "refine"
    <3>1. \A s \in todo' : SnappedOrEdge(s)
      BY <1>1, <2>1, <2>3, ExtendSnapped
    <3> QED BY <1>4, <2>3, <3>1 DEF CitedInv
  <2> QED BY <1>7, <2>2, <2>3 DEF Bridging
<1>8. CASE Refining
  <2>1. step = "refine" /\ (\A s \in todo : SnappedOrEdge(s)) /\ \A s \in out : CutIsCited(s)
    BY <1>8 DEF Refining, CitedInv
  <2>2. ASSUME NEW s \in First(todo), NEW start \in CutPoints(s.start, Gaps, 0 - 1),
               NEW end \in CutPoints(s.end, Gaps, 1), todo' = todo \ {s},
               out' = out \union {Refine(s, start, end, out, todo \ {s})}, step' = step
        PROVE  CitedInv'
    <3> DEFINE r == Refine(s, start, end, out, todo \ {s})
    <3>1. s \in todo /\ s \in Interval /\ s.start \in Int /\ s.end \in Int
      BY <1>1 DEF First, Interval
    <3>2. /\ start \in Int /\ s.start - RefineWindow <= start /\ start <= s.start + RefineWindow
          /\ end \in Int /\ s.end - RefineWindow <= end /\ end <= s.end + RefineWindow
      BY <1>1, <2>2, <3>1, CutPointsNear DEF Gaps
    <3>3. CutIsCited(r)
      BY <1>3, <2>1, <3>1, <3>2, RefineCited
    <3> HIDE DEF r
    <3> QED BY <1>4, <2>1, <2>2, <3>3 DEF CitedInv, r
  <2>3. CASE out' = out /\ todo' = todo /\ step' = "judge"
    BY <1>4, <2>1, <2>3 DEF CitedInv
  <2> QED BY <1>8, <2>2, <2>3 DEF Refining
<1> QED BY <1>6, <1>7, <1>8

LEMMA CitedStep == TypeOK /\ CitedInv /\ [Next]_vars => CitedInv'
<1> SUFFICES ASSUME TypeOK, CitedInv, [Next]_vars PROVE CitedInv'
  OBVIOUS
<1>1. CASE TranscriptionStep /\ UNCHANGED detectionVars
  <2>1. /\ step \in {"transcribe", "split", "listen", "sentences"}
        /\ step' \in {"transcribe", "split", "listen", "sentences", "chunk", "failed"}
    BY <1>1 DEF TranscriptionStep, TranscribeWhole, OverCap, SplitByDuration, Listen, TranscribePart,
                Concat, SplitAtSentences, TranscriptionFails
  <2> QED BY <1>1, <2>1 DEF CitedInv, detectionVars
<1>2. CASE NextChunk \/ FormatRejected
  <2>1. step \in {"chunk", "ask"} /\ step' \in {"chunk", "ask"} /\ out' = out
    BY <1>2 DEF NextChunk, FormatRejected
  <2> QED BY <2>1 DEF CitedInv
<1>3. CASE ChatFails \/ Judge \/ BeginCut \/ KeepRanges \/ UserStep
  <2>1. step' \in {"stored", "review", "skipped", "keep", "done", "failed"}
    BY <1>3 DEF ChatFails, Judge, BeginCut, KeepRanges, UserStep, PatchSegment, AddManualSegment,
                DeleteSegment, Proceed, Correctable
  <2> QED BY <2>1 DEF CitedInv
<1>4. CASE Complete
  <2>1. step = "ask" /\ out' = out /\ lines' = lines
    BY <1>4 DEF Complete, transcriptionVars
  <2>2. PICK result \in Results : Conclude(result)
    BY <1>4 DEF Complete
  <2>3. result.segments \in SUBSET Interval /\ result.promo \in BOOLEAN
    BY Constants DEF Results
  <2> QED BY <2>1, <2>2, <2>3, ConcludeCited
<1>5. CASE Malformed
  <2>1. call.salvaged.segments \in SUBSET Interval /\ call.salvaged.promo \in BOOLEAN
    BY DEF TypeOK, DetectionTypeOK
  <2> QED BY <1>5, <2>1, UnusableCited DEF Malformed
<1>6. CASE Truncated
  <2>1. PICK r \in Results : Unusable([segments |-> r.segments, promo |-> r.promo, salvaged |-> TRUE])
    BY <1>6 DEF Truncated
  <2>2. r.segments \in SUBSET Interval /\ r.promo \in BOOLEAN
    BY Constants DEF Results
  <2> QED BY <2>1, <2>2, UnusableCited
<1>7. CASE Merging \/ Bridging \/ Refining
  BY <1>7, ProcessCited
<1>8. CASE UNCHANGED vars
  <2>1. UNCHANGED <<step, answers, todo, out>>
    BY <1>8 DEF vars, detectionVars
  <2>2. \A s : Snapped(s)' = Snapped(s) /\ SnappedOrEdge(s)' = SnappedOrEdge(s) /\ CutIsCited(s)' = CutIsCited(s)
    BY <2>1 DEF Snapped, SnappedOrEdge, CutIsCited, CitedStarts, CitedEnds
  <2> QED BY <2>1, <2>2 DEF CitedInv
<1> QED BY <1>1, <1>2, <1>3, <1>4, <1>5, <1>6, <1>7, <1>8 DEF Next, RunStep, Ended

\* Every cut begins and ends where the model said that an ad does, or at an
\* edge of the episode, as far as snapping and refinement may move it: for
\* any transcript, cues, pauses and settings, through merging, bridging and
\* extension, which make no time up.
THEOREM CutsCited == Spec => []CutsAreCited
<1>1. Init => CitedInv
  BY DEF Init, TranscriptionInit, DetectionInit, CitedInv
<1>2. TypeOK /\ CitedInv /\ [Next]_vars => CitedInv'
  BY CitedStep
<1>3. TypeOK /\ CitedInv => CutsAreCited
  <2>1. \A t \in Int : Apart(t, 0) <= RefineWindow => t <= RefineWindow
    BY SegmentsAssumption DEF Apart
  <2>2. TypeOK => \A s \in out : s.start \in Int
    BY DEF TypeOK, DetectionTypeOK, Interval
  <2> QED BY <2>1, <2>2 DEF CitedInv, CutsAreCited, CutIsCited, CitedStarts, CitedEnds
<1> QED BY <1>1, <1>2, <1>3, TypeCorrect, PTL DEF Spec

-----------------------------------------------------------------------------
\* HOW MUCH IS CUT

\* Overlaps or not, the durations of segments add up to at least the time
\* that they cover.
LEMMA CoveredAtMostRemoved ==
    ASSUME NEW low \in Int, NEW high \in Int, NEW S \in SUBSET [start : low .. high, end : low .. high]
    PROVE  /\ IsFiniteSet(Covered(S)) /\ Removed(S) \in Nat
           /\ Cardinality(Covered(S)) <= Removed(S)
<1> DEFINE B == low .. high
           pairs == UNION {{s} \X Ticks(s) : s \in S}
           tick == [p \in pairs |-> p[2]]
           seg == [p \in B \X B |-> [start |-> p[1], end |-> p[2]]]
<1>1. IsFiniteSet(B) /\ IsFiniteSet(B \X B)
  BY FS_Interval, FS_Product
<1>2. IsFiniteSet([start : B, end : B])
  <2>1. seg \in Surjection(B \X B, [start : B, end : B])
    <3>1. seg \in [B \X B -> [start : B, end : B]]
      OBVIOUS
    <3>2. \A s \in [start : B, end : B] : \E p \in B \X B : seg[p] = s
      <4> SUFFICES ASSUME NEW s \in [start : B, end : B]
                   PROVE  \E p \in B \X B : seg[p] = s
        OBVIOUS
      <4>1. <<s.start, s.end>> \in B \X B /\ seg[<<s.start, s.end>>] = s
        OBVIOUS
      <4> QED BY <4>1
    <3> QED BY <3>1, <3>2 DEF Surjection
  <2> HIDE DEF seg, B
  <2> QED BY <1>1, <2>1, FS_Surjection
<1>3. IsFiniteSet([start : B, end : B] \X B)
  BY <1>1, <1>2, FS_Product
<1>4. pairs \subseteq [start : B, end : B] \X B
  BY DEF Ticks
<1>5. IsFiniteSet(pairs)
  <2> HIDE DEF pairs
  <2> QED BY <1>3, <1>4, FS_Subset
<1>6. tick \in Surjection(pairs, Covered(S))
  <2>1. \A p \in pairs : \E s \in S : p = <<s, p[2]>> /\ p[2] \in Ticks(s)
    OBVIOUS
  <2>2. \A s \in S : \A x \in Ticks(s) : <<s, x>> \in pairs
    OBVIOUS
  <2> HIDE DEF pairs
  <2>3. tick \in [pairs -> Covered(S)]
    BY <2>1 DEF Covered
  <2>4. \A x \in Covered(S) : \E p \in pairs : tick[p] = x
    <3> SUFFICES ASSUME NEW s \in S, NEW x \in Ticks(s) PROVE \E p \in pairs : tick[p] = x
      BY DEF Covered
    <3>1. tick[<<s, x>>] = x
      BY <2>2
    <3> QED BY <2>2, <3>1
  <2> QED BY <2>3, <2>4 DEF Surjection
<1>7. /\ IsFiniteSet(Covered(S)) /\ Cardinality(pairs) \in Nat
      /\ Cardinality(Covered(S)) <= Cardinality(pairs)
  <2> HIDE DEF pairs, tick
  <2> QED BY <1>5, <1>6, FS_Surjection, FS_CardinalityType
<1> QED BY <1>7 DEF Removed

\* What is left of the audio and what is taken from it add up to all of it.
LEMMA RestOfAudio ==
    ASSUME NEW S
    PROVE  /\ IsFiniteSet((0 .. (Duration - 1)) \cap S)
           /\ Cardinality((0 .. (Duration - 1)) \ S) = Duration - Cardinality((0 .. (Duration - 1)) \cap S)
           /\ Cardinality((0 .. (Duration - 1)) \cap S) \in Nat
<1> DEFINE A == 0 .. (Duration - 1)
<1>1. IsFiniteSet(A) /\ Cardinality(A) = Duration
  BY SegmentsAssumption, FS_Interval
<1> HIDE DEF A
<1>2. IsFiniteSet(A \cap S) /\ Cardinality(A \ S) = Duration - Cardinality(A \cap S)
  BY <1>1, FS_Difference, FS_Subset
<1>3. Cardinality(A \cap S) \in Nat
  BY <1>2, FS_CardinalityType
<1> QED BY <1>2, <1>3 DEF A

\* Once stored, what a person has not touched takes no more than half.
HalfInv ==
    step \in {"stored", "keep", "done"} /\ ~decided =>
        2 * Cardinality((0 .. (Duration - 1)) \cap Covered(ToCut)) <= Duration

\* What is judged lies about the audio: what was cited is clamped to it, and
\* snapping and refinement go only so far.
LEMMA JudgedIsBounded ==
    ASSUME TypeOK, CitedInv, step = "judge"
    PROVE  \E low, high \in Int : out \in SUBSET [start : low .. high, end : low .. high]
<1> DEFINE reach == SnapTolerance + RefineWindow
           low   == 0 - reach
           high  == Duration + reach
<1>1. Duration \in Nat /\ RefineWindow \in Nat /\ reach \in Nat /\ RefineWindow <= reach
  BY SegmentsAssumption
<1>2. out \subseteq Interval /\ answers \subseteq Answer
  BY DEF TypeOK, DetectionTypeOK
<1>3. CitedStarts \subseteq Int /\ CitedEnds \subseteq Int
  BY <1>2 DEF CitedStarts, CitedEnds, Answer, Interval
<1>4. \A c \in Int : Later(0, Earlier(c, Duration)) \in 0 .. Duration
  BY <1>1 DEF Later, Earlier
<1> HIDE DEF reach
<1>5. \A t \in Int, c \in 0 .. Duration : Apart(t, c) <= reach => t \in low .. high
  BY <1>1 DEF Apart
<1>6. \A t \in Int, times \in SUBSET Int : Within(t, times) => t \in low .. high
  BY <1>1, <1>4, <1>5 DEF Within, reach
<1>7. \A t \in Int, c \in 0 .. Duration : Apart(t, c) <= RefineWindow => t \in low .. high
  BY <1>1, <1>5 DEF Apart
<1>8. 0 \in 0 .. Duration /\ Duration \in 0 .. Duration
  BY <1>1
<1>9. \A s \in out : s.start \in low .. high /\ s.end \in low .. high
  BY <1>2, <1>3, <1>6, <1>7, <1>8 DEF CitedInv, CutIsCited, Interval
<1>10. low \in Int /\ high \in Int
  BY <1>1
<1> HIDE DEF low, high
<1>11. out \in SUBSET [start : low .. high, end : low .. high]
  BY <1>2, <1>9 DEF Interval
<1> QED BY <1>10, <1>11

\* The rows that are stored cover what was judged, or nothing.
LEMMA RowsCover ==
    ASSUME NEW S \in SUBSET Interval, NEW kept \in BOOLEAN, NEW source, rows' = Rows(S, kept, source)
    PROVE  ToCut' = IF kept THEN {} ELSE S
<1> DEFINE R(s) == [start |-> s.start, end |-> s.end, kept |-> kept, source |-> source]
<1>1. rows' = {R(s) : s \in S}
  BY DEF Rows
<1>2. \A s : R(s).kept = kept /\ R(s).start = s.start /\ R(s).end = s.end
  OBVIOUS
<1>3. \A s \in S : s = [start |-> s.start, end |-> s.end]
  BY DEF Interval
<1>4. ToCut' = {[start |-> r.start, end |-> r.end] : r \in {r \in rows' : ~r.kept}}
  BY DEF ToCut
<1> HIDE DEF R
<1>5. CASE kept
  BY <1>1, <1>2, <1>4, <1>5
<1>6. CASE ~kept
  <2>1. {r \in rows' : ~r.kept} = {R(s) : s \in S}
    BY <1>1, <1>2, <1>6
  <2>2. \A s \in S : [start |-> R(s).start, end |-> R(s).end] = s
    BY <1>2, <1>3
  <2>3. ToCut' = {[start |-> r.start, end |-> r.end] : r \in {R(s) : s \in S}}
    BY <1>4, <2>1
  <2>4. ToCut' = S
    BY <2>2, <2>3
  <2> QED BY <1>6, <2>4
<1> QED BY <1>5, <1>6

LEMMA JudgeHalf ==
    ASSUME TypeOK, CitedInv, Judge
    PROVE  HalfInv'
<1> DEFINE A == 0 .. (Duration - 1)
<1>1. Duration \in Nat /\ step = "judge" /\ out \in SUBSET Interval
  BY SegmentsAssumption DEF Judge, TypeOK, DetectionTypeOK
<1>2. PICK low \in Int, high \in Int : out \in SUBSET [start : low .. high, end : low .. high]
  BY <1>1, JudgedIsBounded
<1>3. /\ IsFiniteSet(Covered(out)) /\ Removed(out) \in Nat
      /\ Cardinality(Covered(out)) <= Removed(out)
  BY <1>2, CoveredAtMostRemoved
<1>4. CASE rows' = Rows(out, TRUE, "promo")
  <2>1. ToCut' = {}
    BY <1>1, <1>4, RowsCover
  <2>2. A \cap Covered(ToCut') = {}
    BY <2>1 DEF Covered
  <2>3. Cardinality(A \cap Covered(ToCut')) = 0
    BY <2>2, FS_EmptySet
  <2> QED BY <1>1, <2>3 DEF HalfInv
<1>5. CASE step' = "review"
  BY <1>5 DEF HalfInv
<1>6. CASE ~OverLimit /\ rows' = Rows(out, FALSE, "llm")
  <2>1. ToCut' = out
    BY <1>1, <1>6, RowsCover
  <2>2. Cardinality(A \cap Covered(out)) <= Cardinality(Covered(out))
    BY <1>3, FS_Subset
  <2>3. Cardinality(A \cap Covered(out)) \in Nat /\ Cardinality(Covered(out)) \in Nat
    BY <1>3, RestOfAudio, FS_CardinalityType
  <2>4. 100 * Removed(out) <= 50 * Duration
    BY <1>1, <1>3, <1>6 DEF OverLimit, MAX_REMOVED_PCT
  <2>5. 2 * Cardinality(A \cap Covered(out)) <= Duration
    BY <1>1, <1>3, <2>2, <2>3, <2>4
  <2> QED BY <2>1, <2>5 DEF HalfInv
<1> QED BY <1>4, <1>5, <1>6 DEF Judge

LEMMA HalfStep == TypeOK /\ CitedInv /\ HalfInv /\ [Next]_vars => HalfInv'
<1> SUFFICES ASSUME TypeOK, CitedInv, HalfInv, [Next]_vars PROVE HalfInv'
  OBVIOUS
<1>1. CASE Judge
  BY <1>1, JudgeHalf
<1>2. CASE UserStep
  <2>1. decided' = TRUE
    BY <1>2 DEF UserStep, PatchSegment, AddManualSegment, DeleteSegment, Proceed
  <2> QED BY <2>1 DEF HalfInv
<1>3. CASE BeginCut \/ KeepRanges
  <2>1. step \in {"stored", "keep"} /\ UNCHANGED <<rows, decided>>
    BY <1>3 DEF BeginCut, KeepRanges
  <2>2. ToCut' = ToCut
    BY <2>1 DEF ToCut
  <2> QED BY <2>1, <2>2 DEF HalfInv
<1>4. CASE UNCHANGED vars
  BY <1>4 DEF vars, detectionVars, HalfInv, ToCut
<1>5. CASE \/ TranscriptionStep /\ UNCHANGED detectionVars
           \/ NextChunk \/ FormatRejected \/ ChatFails \/ Complete \/ Malformed \/ Truncated
           \/ Merging \/ Bridging \/ Refining
  <2>1. step' \notin {"stored", "keep", "done"}
    BY <1>5 DEF TranscriptionStep, TranscribeWhole, OverCap, SplitByDuration, Listen, TranscribePart,
                Concat, SplitAtSentences, TranscriptionFails, NextChunk, FormatRejected, ChatFails,
                Complete, Malformed, Truncated, Unusable, Conclude, Merging, Bridging, Refining
  <2> QED BY <2>1 DEF HalfInv
<1> QED BY <1>1, <1>2, <1>3, <1>4, <1>5 DEF Next, RunStep, Ended

\* Without a person's word no more than half of the audio is removed, whatever
\* the model cites: the limit is on the sum of the durations, which is at
\* least the time that they cover.
THEOREM HalfKept == Spec => []HalfIsKept
<1>1. Init => HalfInv /\ CitedInv
  BY DEF Init, TranscriptionInit, DetectionInit, HalfInv, CitedInv
<1>2. TypeOK /\ CitedInv /\ HalfInv /\ [Next]_vars => CitedInv' /\ HalfInv'
  BY CitedStep, HalfStep
<1>3. KeepInv /\ HalfInv => HalfIsKept
  <2> SUFFICES ASSUME KeepInv, HalfInv, step = "done", ~decided
               PROVE  2 * Cardinality(Audio) >= Duration
    BY DEF HalfIsKept
  <2>1. Audio = (0 .. (Duration - 1)) \ Covered(ToCut)
    BY DEF KeepInv
  <2>2. 2 * Cardinality((0 .. (Duration - 1)) \cap Covered(ToCut)) <= Duration
    BY DEF HalfInv
  <2> DEFINE C == Covered(ToCut)
  <2>3. /\ Cardinality((0 .. (Duration - 1)) \ C) = Duration - Cardinality((0 .. (Duration - 1)) \cap C)
        /\ Cardinality((0 .. (Duration - 1)) \cap C) \in Nat
    BY RestOfAudio
  <2> QED BY <2>1, <2>2, <2>3, SegmentsAssumption
<1> QED BY <1>1, <1>2, <1>3, TypeCorrect, KeepCorrect, PTL DEF Spec
=============================================================================
