------------------------------ MODULE MCEventList ------------------------------
(* Small instances of EventList for TLC.                                    *)
EXTENDS EventList, TLC

CONSTANTS e1, e2, all, some

\* Searching for less leaves the last event.
SearchMatches == all :> <<e1, e2>> @@ some :> <<e2>>

\* Bookmarks are listed in the order of the search for everything.
InOrder == [S \in SUBSET Events |-> SelectSeq(<<e1, e2>>, LAMBDA e : e \in S)]

\* One toggle in a search, two in the bookmarks.
TwoInBookmarks == FALSE :> 1 @@ TRUE :> 2

\* Any event of a search is toggled elsewhere, the first of the bookmarks.
AnyInSearch == FALSE :> {e1, e2} @@ TRUE :> {e1}
=============================================================================
