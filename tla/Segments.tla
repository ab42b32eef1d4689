------------------------------ MODULE Segments ------------------------------
(***************************************************************************)
(* Stretches of an episode's timeline and what is done to them: the pure   *)
(* functions of backend/hushcast/detection/segments.py and refine.py, and  *)
(* the set of legal boundaries of detection/prompts.py.                    *)
(*                                                                         *)
(* Time is counted in ticks.  A list that the code sorts before it looks   *)
(* at it is a set here, and a loop over such a list takes First of what is *)
(* left: the operators below are one round of each loop, Detection goes    *)
(* round.  Category and reason of a segment decide nothing and are left    *)
(* out.                                                                    *)
(***************************************************************************)
EXTENDS Integers, FiniteSets, FiniteSetsExt

CONSTANTS
    Duration,       \* of the audio
    Grain,          \* ticks in a tenth of a second, to which boundaries are rounded
    SnapTolerance, MinDuration, MergeGap,           \* the detection settings
    BridgeGap, EdgeExtension, CueSlack,             \* ... for audio cues
    RefineWindow, RefineMinGap                      \* ... for word gaps

ASSUME SegmentsAssumption ==
    /\ Duration \in Nat \ {0}
    /\ Grain \in Nat /\ Grain % 2 = 1
    /\ SnapTolerance \in Nat /\ MinDuration \in Nat /\ MergeGap \in Nat
    /\ BridgeGap \in Nat /\ EdgeExtension \in Nat /\ CueSlack \in Nat
    /\ RefineWindow \in Nat /\ RefineMinGap \in Nat

Interval      == [start : Int, end : Int]
Earlier(a, b) == IF a <= b THEN a ELSE b
Later(a, b)   == IF a <= b THEN b ELSE a
Apart(a, b)   == IF a <= b THEN b - a ELSE a - b
Length(s)     == s.end - s.start
Ticks(s)      == s.start .. (s.end - 1)
Covered(S)    == UNION {Ticks(s) : s \in S}

\* sorted(S, key=lambda s: (s.start, s.end)): its first and its last, each a
\* set that has one element unless S is empty.
Sooner(s, t) == s.start < t.start \/ (s.start = t.start /\ s.end <= t.end)
First(S)     == {s \in S : \A t \in S : Sooner(s, t)}
Last(S)      == {s \in S : \A t \in S : Sooner(t, s)}

-----------------------------------------------------------------------------
\* From what the model cited to candidates, one by one

Clamp(S) ==
    {s \in {[start |-> Later(0, Earlier(r.start, Duration)),
             end   |-> Later(0, Earlier(r.end, Duration))] : r \in S} : s.end > s.start}

\* round(t, 1); Grain is odd, so no two tenths are equally near.
Rounded(t)        == Grain * ((2 * t + Grain) \div (2 * Grain))
Boundaries(lines) == {Rounded(s.start) : s \in lines} \union {Rounded(s.end) : s \in lines}

\* Within tolerance and nearest; of two equally near the later one wins.
Near(t, bounds)    == {b \in bounds : Apart(b, t) <= SnapTolerance}
Nearest(t, bounds) ==
    {b \in Near(t, bounds) : \A c \in Near(t, bounds) :
         Apart(b, t) < Apart(c, t) \/ (Apart(b, t) = Apart(c, t) /\ c <= b)}

SnapToBoundaries(S, bounds) ==
    IF bounds = {} THEN S
    ELSE {s \in UNION {[start : Nearest(r.start, bounds), end : Nearest(r.end, bounds)] : r \in S} :
              s.end > s.start}

FilterShort(S) == {s \in S : Length(s) >= MinDuration}

\* postprocess up to the first loop
Candidates(S, bounds) == FilterShort(SnapToBoundaries(Clamp(S), bounds))

-----------------------------------------------------------------------------
\* One round of each loop: "out" is what it has produced, s what it looks at.

\* The last segment of out grows over s.
Absorb(out, s) ==
    {IF l \in Last(out) THEN [l EXCEPT !.end = Later(@, s.end)] ELSE l : l \in out}

Merge(out, s) ==
    IF \E l \in Last(out) : s.start <= l.end + MergeGap THEN Absorb(out, s) ELSE out \union {s}

\* _uncovered
Uncovered(from, to, cues) == Cardinality((from .. (to - 1)) \ Covered(cues))
Spans(from, to, longest, cues) ==
    /\ from < to
    /\ to - from <= longest
    /\ Uncovered(from, to, cues) <= CueSlack

BridgeOverCues(out, s, cues) ==
    IF \E l \in Last(out) : Spans(l.end, s.start, BridgeGap, cues)
    THEN Absorb(out, s) ELSE out \union {s}

\* extend_to_edges: the first segment, then the last, which may be the same.
ExtendToStart(S, cues) ==
    {IF s \in First(S) /\ Spans(0, s.start, EdgeExtension, cues)
     THEN [s EXCEPT !.start = 0] ELSE s : s \in S}
ExtendToEnd(S, cues) ==
    {IF s \in Last(S) /\ Spans(s.end, Duration, EdgeExtension, cues)
     THEN [s EXCEPT !.end = Duration] ELSE s : s \in S}
ExtendToEdges(S, cues) == ExtendToEnd(ExtendToStart(S, cues), cues)

\* keep_ranges: "cursor" is how far the segments seen so far reach.
KeepBefore(ranges, cursor, s) ==
    IF s.start > cursor THEN ranges \union {[start |-> cursor, end |-> s.start]} ELSE ranges

-----------------------------------------------------------------------------
\* refine.py

\* word_gaps: the silences between consecutive words and at the edges.
Consecutive(w, v, words) ==
    /\ w # v /\ Sooner(w, v)
    /\ \A u \in words \ {w, v} : Sooner(u, w) \/ Sooner(v, u)
WordGaps(words) ==
    {g \in {[start |-> 0, end |-> w.start] : w \in First(words)}
           \union {[start |-> p[1].end, end |-> p[2].start] :
                      p \in {p \in words \X words : Consecutive(p[1], p[2], words)}}
           \union {[start |-> w.end, end |-> Duration] : w \in Last(words)} :
        g.start < g.end}

\* _best_gap.  A gap's score is its width times a decay in the distance, which
\* is steeper outward; of the score the model keeps that a gap at least as
\* wide and as near, and not more outward, is never passed over for one that
\* is narrower or farther.
Distance(g, t) == IF t < g.start THEN g.start - t ELSE IF t > g.end THEN t - g.end ELSE 0
Target(g, t)   == Earlier(Later((g.start + g.end) \div 2, t - RefineWindow), t + RefineWindow)
IsOutward(g, t, outward) == (Target(g, t) - t) * outward > 0

Qualifying(t, gaps) ==
    {g \in gaps : Length(g) >= RefineMinGap /\ Distance(g, t) <= RefineWindow}
Beats(g, h, t, outward) ==
    /\ Length(g) >= Length(h) /\ Distance(g, t) <= Distance(h, t)
    /\ IsOutward(g, t, outward) => IsOutward(h, t, outward)
    /\ Length(g) > Length(h) \/ Distance(g, t) < Distance(h, t)

\* Mutant: a wide gap draws the cut to its middle, however far that is.
UnboundedCutPoints(t, gaps, outward) ==
    IF RefineWindow = 0 \/ Qualifying(t, gaps) = {} THEN {t}
    ELSE {(g.start + g.end) \div 2 : g \in Qualifying(t, gaps)}

\* Where the boundary t may go; it stays when no gap qualifies.
CutPoints(t, gaps, outward) ==
    IF RefineWindow = 0 \/ Qualifying(t, gaps) = {} THEN {t}
    ELSE {Target(g, t) : g \in {g \in Qualifying(t, gaps) :
                                   ~ \E h \in Qualifying(t, gaps) : Beats(h, g, t, outward)}}

Straight(s, start, end) == IF end <= start THEN s ELSE [start |-> start, end |-> end]

\* Mutant: neighbours are not looked at.
RefineAlone(s, start, end, out, rest) == Straight(s, start, end)

\* One round of refine_boundaries: s moves to start and end, unless that would
\* invert it, or cross the refined segment before or the original one after it.
Refine(s, start, end, out, rest) ==
    LET m == Straight(s, start, end)
        a == IF \E l \in Last(out) : m.start < l.end THEN s.start ELSE m.start
        b == IF \E n \in rest      : m.end > n.start THEN s.end ELSE m.end
    IN Straight(s, a, b)

-----------------------------------------------------------------------------
\* removed_pct's sum of the durations: a tick counts once for each segment it
\* is in.
Removed(S) == Cardinality(UNION {{s} \X Ticks(s) : s \in S})
=============================================================================
