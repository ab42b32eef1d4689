---------------------------- MODULE MCDetection -----------------------------
(***************************************************************************)
(* Detection for TLC: what is said in a short episode, and when.           *)
(***************************************************************************)
EXTENDS Detection

Segment(start, end) == [start |-> start, end |-> end]

Said     == {Segment(0, 10), Segment(12, 19), Segment(27, 34), Segment(36, 48)}
Speakers == [u \in Said |-> IF u.start < 30 THEN "host" ELSE "sponsor"]

\* No speakers are told apart.
Monologue == [u \in Said |-> "none"]

\* One pause that is heard between two words, one guess, and a last word that is
\* heard after the end of its segment.
Pauses == {Segment(40, 42), Segment(5, 5), Segment(18, 20)}

\* A sting before what is said last, and one after it.
Stings == {Segment(34, 36), Segment(48, 51)}

\* What the model may cite: the lines, one of them beyond the end of the audio,
\* several of them, all, and what nobody said.
Replies == {{}, {Segment(0, 9), Segment(12, 18), Segment(20, 22)}, {Segment(12, 34)},
            {Segment(36, 60)}, {Segment(0, 60)}}

\* What a user may enter is not bounded by the episode.
Entered == {-1, 14, 60}
=============================================================================
