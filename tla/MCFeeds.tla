------------------------------ MODULE MCFeeds -------------------------------
(***************************************************************************)
(* Feeds for TLC: what the source publishes.                               *)
(***************************************************************************)
EXTENDS Feeds

\* A source that publishes an item.
Growing   == << <<"a">>, <<"b", "a">> >>

\* A source that lists one item twice in its second document.
Repeating == << <<"a">>, <<"a", "b", "b">> >>
=============================================================================
