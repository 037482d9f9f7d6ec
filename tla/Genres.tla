-------------------------------- MODULE Genres --------------------------------
(***************************************************************************)
(* The genres of GenreModel and the two lists they are chosen from: the    *)
(* filter popover of the search screen, which also lists the places, and   *)
(* the genre picker of the event form.                                     *)
(*                                                                         *)
(* The model keeps the genres of the last answer and hands each answer to  *)
(* the tables that are bound.  A table marks the rows that were tapped and *)
(* sends what is marked on; when its rows are replaced, or the filter      *)
(* appears again, the marks can go, and nobody is told.                    *)
(***************************************************************************)
EXTENDS Integers

CONSTANTS
  Genres,     (* the genres there can be                                  *)
  Places,     (* offline and online                                       *)
  Slots       (* bound: requests for the genres in flight at once         *)

ASSUME ItemsAssumption == Genres \intersect Places = {}

VARIABLES
  catalog,    (* server: the genres there are                             *)
  fetches,    (* requests for the genres, by slot                         *)
  genres,     (* GenreModel.genres                                        *)
  screen,     (* search, filter, form, picker, or dead: UIKit has raised  *)
  bound,      (* lists whose view is loaded, that is, bound to genres     *)
  marks,      (* list -> its selected rows                                *)
  chosen,     (* filter: SearchViewStream.filter; picker: selectedOption  *)
  answered,   (* history: an answer with genres has come                  *)
  lost        (* history: lists whose marks went without a tap            *)

vars == <<catalog, fetches, genres, screen, bound, marks, chosen, answered, lost>>
lists == <<bound, marks, chosen, lost>>

List == {"filter", "picker"}
Item == Genres \union Places

Request(state, list) == [state |-> state, list |-> list]
Idle == Request("idle", {})
Sent == Request("sent", {})

AllRows(l) == genres \union Places                                    \* mutant
\* What a list shows: sections of genres and, in the filter, of places.
Rows(l) == IF l = "filter" THEN genres \union Places ELSE genres
Section(x) == IF x \in Places THEN Places ELSE Genres

NoMarks == [l \in List |-> {}]
AllSent == [s \in Slots |-> Sent]

\* GenreModel fetches when it is made, the list of events when it appears.
Init ==
  /\ catalog \in SUBSET Genres
  /\ fetches = AllSent /\ genres = {} /\ answered = FALSE
  /\ screen = "search"
  /\ bound = {} /\ lost = {} /\ marks = NoMarks /\ chosen = NoMarks

\* The user starts the app again when it has died.
Restart ==
  /\ screen = "dead" /\ screen' = "search"
  /\ fetches' = AllSent /\ genres' = {} /\ answered' = FALSE
  /\ bound' = {} /\ lost' = {} /\ marks' = NoMarks /\ chosen' = NoMarks
  /\ UNCHANGED catalog

-----------------------------------------------------------------------------
(* The server and its answers                                              *)

Change == /\ catalog' \in SUBSET Genres
          /\ UNCHANGED <<fetches, genres, screen, lists, answered>>

Serve(s) ==
  /\ fetches[s] = Sent
  /\ fetches' = [fetches EXCEPT ![s] = Request("answered", catalog)]
  /\ UNCHANGED <<catalog, genres, screen, lists, answered>>

\* The rows of a bound list are replaced.  In a window the difference is
\* animated and marks stay with their rows; elsewhere the table is reloaded.
Remarked(l, list) ==
  IF screen = l THEN marks[l] \intersect (list \union Places) ELSE {}

Take(list) ==
  /\ genres' = list /\ answered' = TRUE
  /\ marks' = [l \in List |-> IF l \in bound THEN Remarked(l, list) ELSE marks[l]]
  /\ lost' = lost \union {l \in bound : Remarked(l, list) # marks[l]}

TakesAny(list) == TRUE                                                \* mutant
\* An answer without genres, or that does not decode, tells nobody anything.
Takes(list) == list # {}

Answer(s) ==
  /\ fetches[s].state = "answered" /\ screen # "dead"
  /\ fetches' = [fetches EXCEPT ![s] = Idle]
  /\ IF Takes(fetches[s].list)
       THEN Take(fetches[s].list)
       ELSE UNCHANGED <<genres, marks, lost, answered>>
  /\ UNCHANGED <<catalog, screen, bound, chosen>>

Fail(s) ==
  /\ fetches[s] = Sent
  /\ fetches' = [fetches EXCEPT ![s] = Idle]
  /\ UNCHANGED <<catalog, genres, screen, lists, answered>>

Fetch == \E s \in Slots : /\ fetches[s] = Idle
                          /\ fetches' = [fetches EXCEPT ![s] = Sent]

-----------------------------------------------------------------------------
(* Screens                                                                 *)

\* clearsSelectionOnViewWillAppear: the filter is a table view controller, which
\* by default clears what its table has selected; the picker is not.
Reshown(l) == IF l = "filter" THEN {} ELSE marks[l]

\* A list binds its table when it is shown first, and scrolls to the first row
\* of its first section, that of the genres, whenever it appears.
Show(l) ==
  /\ bound' = bound \union {l}
  /\ marks' = [marks EXCEPT ![l] = Reshown(l)]
  /\ lost' = lost \union {k \in {l} : Reshown(k) # marks[k]}
  /\ screen' = IF genres = {} THEN "dead" ELSE l

TapFilter ==
  /\ screen = "search" /\ Show("filter")
  /\ UNCHANGED <<catalog, fetches, genres, chosen, answered>>

CloseFilter ==
  /\ screen = "filter" /\ screen' = "search"
  /\ UNCHANGED <<catalog, fetches, genres, lists, answered>>

\* Each form has a picker of its own.
OpenForm ==
  /\ screen = "search" /\ screen' = "form"
  /\ bound' = bound \ {"picker"} /\ lost' = lost \ {"picker"}
  /\ marks' = [marks EXCEPT !["picker"] = {}]
  /\ chosen' = [chosen EXCEPT !["picker"] = {}]
  /\ UNCHANGED <<catalog, fetches, genres, answered>>

TapGenre ==
  /\ screen = "form" /\ Show("picker")
  /\ Fetch
  /\ UNCHANGED <<catalog, genres, chosen, answered>>

\* The back button, or a confirmation, which waits until something is chosen
ClosePicker ==
  /\ screen = "picker" /\ screen' = "form"
  /\ UNCHANGED <<catalog, fetches, genres, lists, answered>>

\* The search screen appears again, after the form or after another screen.
Reappear ==
  /\ screen \in {"search", "form"} /\ screen' = "search"
  /\ Fetch
  /\ UNCHANGED <<catalog, genres, lists, answered>>

-----------------------------------------------------------------------------
(* Taps on rows                                                            *)

AddMark(l, x) == marks[l] \union {x}                                  \* mutant
\* willSelectRowAt unmarks the rest of the section.
Mark(l, x) == (marks[l] \ Section(x)) \union {x}

\* All that is marked is sent on, so that what is not marked any more goes.
Send(l, new) ==
  /\ marks' = [marks EXCEPT ![l] = new]
  /\ chosen' = [chosen EXCEPT ![l] = new]
  /\ lost' = lost \ {l}

Select(l, x) ==
  /\ screen = l /\ x \in Rows(l) \ marks[l]
  /\ Send(l, Mark(l, x))
  /\ UNCHANGED <<catalog, fetches, genres, screen, bound, answered>>

\* The picker refuses.
Deselect(x) ==
  /\ screen = "filter" /\ x \in marks["filter"]
  /\ Send("filter", marks["filter"] \ {x})
  /\ UNCHANGED <<catalog, fetches, genres, screen, bound, answered>>

Next ==
  \/ Change \/ Restart
  \/ \E s \in Slots : Serve(s) \/ Answer(s) \/ Fail(s)
  \/ TapFilter \/ CloseFilter \/ OpenForm \/ TapGenre \/ ClosePicker \/ Reappear
  \/ \E x \in Item : Deselect(x) \/ \E l \in List : Select(l, x)

Spec == Init /\ [][Next]_vars

-----------------------------------------------------------------------------
(* Properties                                                              *)

(* Types.  Only rows that a list shows are marked.                         *)
TypeOK ==
  /\ catalog \subseteq Genres /\ genres \subseteq Genres
  /\ fetches \in [Slots -> [state : {"idle", "sent", "answered"}, list : SUBSET Genres]]
  /\ screen \in List \union {"search", "form", "dead"}
  /\ bound \subseteq List /\ lost \subseteq bound /\ answered \in BOOLEAN
  /\ marks \in [List -> SUBSET Item] /\ chosen \in [List -> SUBSET Item]
  /\ marks["filter"] \subseteq genres \union Places
  /\ marks["picker"] \subseteq genres

(* What a list marks is one genre, or one genre and one place, and is what *)
(* the search or the form uses, whatever answers came in between.  The     *)
(* search or the form uses more only after rows were replaced or the       *)
(* filter appeared again without its marks, and the next tap ends that.    *)
MarkedIsChosen ==
  \A l \in List :
    /\ marks[l] \subseteq chosen[l]
    /\ l \notin lost => chosen[l] = marks[l]
    /\ \A x, y \in chosen[l] : Section(x) = Section(y) => x = y

(* A list that scrolls to a first row it does not have ends the program    *)
(* only before the first answer: no later answer takes the genres away.    *)
DiesBeforeFirstAnswer == screen = "dead" => ~answered
=============================================================================
