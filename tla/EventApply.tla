------------------------------ MODULE EventApply ------------------------------
(***************************************************************************)
(* Applying for an event: the detail screen, the sheet with the chosen     *)
(* prefectures, and the list they are chosen from.                         *)
(*                                                                         *)
(* An event list owns one detail screen, which owns one sheet, which owns  *)
(* one list of options; they serve event after event and are never reset.  *)
(* Each keeps its own idea of the current event and of the chosen options, *)
(* and learns of the others' by requests whose answers may be late.        *)
(***************************************************************************)
EXTENDS Integers, Bags, Functions

CONSTANTS
  Events,       (* events of the list                                     *)
  Prefectures,  (* the prefectures one can apply for                      *)
  None,         (* no event yet                                           *)
  MaxLoads,     (* bound: detail requests of each kind the option list    *)
                (* has in flight                                          *)
  MaxSent       (* bound: apply and cancel requests not yet answered      *)

ASSUME EventsAssumption == None \notin Events /\ Prefectures # {}
ASSUME BoundsAssumption == MaxLoads \in Nat /\ MaxSent \in Nat

VARIABLES
  joined,     (* server: the prefectures the user has applied for         *)
  screen,     (* the top screen: list, detail, sheet, options or dead     *)
  detail,     (* EventDetailViewStream.currentEvent                       *)
  asked,      (* events whose details were asked for by the detail screen *)
  sheet,      (* EventApplyViewStream: event, picked, old; and optionFlag *)
              (* of its view controller                                   *)
  options,    (* EventOptionSelectViewStream: event and joined of its     *)
              (* currenEvent, and its selectedOption                      *)
  selected,   (* the selected rows of the option table                    *)
  prefs,      (* the prefectures relay is filled                          *)
  fetching,   (* a request for the prefectures is in flight               *)
  loads,      (* bag of detail requests of the option list                *)
  sent,       (* bag of apply and cancel requests on their way            *)
  answers,    (* bag of the events whose apply or cancel was answered     *)
  calm,       (* history: nothing was in flight when the sheet opened,    *)
              (* and its first answer came before anything was confirmed  *)
  mixed       (* history: options came in the view since the last tap     *)

vars == <<joined, screen, detail, asked, sheet, options, selected, prefs, fetching,
          loads, sent, answers, calm, mixed>>
requests == <<loads, sent, answers>>
history  == <<calm, mixed>>

-----------------------------------------------------------------------------
(* State.  A choice is the set of its prefectures: the code keeps a list   *)
(* whose order, that of the rows or of the table's selection, is left open.*)

Choice   == SUBSET Prefectures
Sheet    == [event : Events \union {None}, picked : Choice, old : Choice,
             flag : BOOLEAN]
Options  == [event : Events \union {None}, joined : Choice, marks : Choice]
Load     == [for : {"sheet", "list"}, event : Events, was : SUBSET Prefectures]
Change   == [op : {"apply", "cancel"}, event : Events, pref : Prefectures]

Init ==
  /\ joined \in [Events -> SUBSET Prefectures]
  /\ screen = "list" /\ detail = None /\ asked = {}
  /\ sheet = [event |-> None, picked |-> {}, old |-> {}, flag |-> TRUE]
  /\ options = [event |-> None, joined |-> {}, marks |-> {}]
  /\ selected = {}
  /\ prefs = FALSE /\ fetching = TRUE
  /\ loads = EmptyBag /\ sent = EmptyBag /\ answers = EmptyBag
  /\ calm = FALSE /\ mixed = FALSE

-----------------------------------------------------------------------------
(* The detail screen.  Opening it asks for the details twice, each return  *)
(* to it once more: whether one is still in flight for an event once       *)
(* opened is left open, and one that fails changes nothing.                *)

OpenUnset(e) ==                                                      \* mutant
  /\ screen = "list" /\ screen' = "detail" /\ asked' = asked \union {e}
  /\ UNCHANGED <<joined, detail, sheet, options, selected, prefs, fetching, requests,
                 history>>
OpenEvent(e) ==
  /\ screen = "list" /\ screen' = "detail"
  /\ detail' = e /\ asked' = asked \union {e}
  /\ UNCHANGED <<joined, sheet, options, selected, prefs, fetching, requests, history>>

\* Also the end of a bookmark toggle: the event's new details or, if the
\* server refused it, the event the toggle was tapped for.
DetailAnswered(e) ==
  /\ e \in asked /\ detail' = e
  /\ UNCHANGED <<joined, screen, asked, sheet, options, selected, prefs, fetching, requests,
                 history>>

\* Back to the list, which fetches the prefectures whenever it appears.
CloseDetail ==
  /\ screen = "detail" /\ screen' = "list"
  /\ fetching' = TRUE
  /\ UNCHANGED <<joined, detail, asked, sheet, options, selected, prefs, requests, history>>

Ask(for, e) == SetToBag({[for |-> for, event |-> e, was |-> joined[e]]})
Asking(new) ==
  /\ loads' = loads (+) new
  /\ \A for \in {"sheet", "list"} :
       SumFunctionOnSet(loads', {l \in DOMAIN loads' : l.for = for}) <= MaxLoads

FlagKept  == sheet.flag                                              \* mutant
FlagRaised == TRUE
\* The apply and the cancel button: setEvent, whose answer will tell what the
\* user had applied for, and optionFlag, which marks that answer.
TapApply ==
  /\ screen = "detail" /\ detail # None /\ screen' = "sheet"
  /\ sheet' = [sheet EXCEPT !.event = detail, !.flag = FlagRaised]
  /\ Asking(Ask("sheet", detail))
  /\ calm' = (<<loads, sent, answers>> = <<EmptyBag, EmptyBag, EmptyBag>>)
  /\ UNCHANGED <<joined, detail, asked, options, selected, prefs, fetching, sent,
                 answers, mixed>>

-----------------------------------------------------------------------------
(* The sheet                                                               *)

\* A tap or a swipe beside the sheet.  Its disappearance makes the detail
\* screen ask again.
CloseSheet ==
  /\ screen = "sheet" /\ screen' = "detail"
  /\ asked' = asked \union {detail}
  /\ UNCHANGED <<joined, detail, sheet, options, selected, prefs, fetching, requests,
                 history>>

Rows == IF prefs /\ options.event # None THEN Prefectures ELSE {}

\* configureCell: rows are drawn as they come into view, also when they do so
\* again, and of those drawn the joined ones are selected.
DrawRows == \E S \in SUBSET (Rows \intersect options.joined) : selected' = selected \union S

\* Opens the option list, which asks for the event of the sheet again, and on
\* appearing for the event it had, and scrolls to its first row: UIKit raises
\* if there is none.
TapPrefecture ==
  /\ screen = "sheet" /\ sheet.event # None
  /\ Asking(Ask("sheet", sheet.event)
            (+) IF options.event = None THEN EmptyBag ELSE Ask("list", options.event))
  /\ screen' = IF Rows = {} THEN "dead" ELSE "options"
  /\ DrawRows
  /\ asked' = asked \union {detail}
  /\ UNCHANGED <<joined, detail, sheet, options, prefs, fetching, sent, answers, history>>

\* difference(from:) compares lists and keeps a longest common subsequence: of
\* what two choices have in common any part, in some order, and never nothing.
Kept(old, new) ==
  {kept \in SUBSET (old \intersect new) : kept = {} => old \intersect new = {}}

Requests(op, e, S) == SetToBag({[op |-> op, event |-> e, pref |-> p] : p \in S})

OnlyApplied(kept) ==                                                 \* mutant
  Requests("apply", sheet.event, sheet.picked \ kept)
Difference(kept) ==
  Requests("apply", sheet.event, sheet.picked \ kept)
  (+) Requests("cancel", sheet.event, sheet.old \ kept)

\* The sheet stays as it is until an answer comes: it can be tapped again.
TapConfirm ==
  /\ screen = "sheet" /\ sheet.event # None
  /\ \E kept \in Kept(sheet.old, sheet.picked) :
       sent' = sent (+) Difference(kept) /\ BagCardinality(sent' (+) answers) <= MaxSent
  /\ calm' = (calm /\ sent' = sent)
  /\ UNCHANGED <<joined, screen, detail, asked, sheet, options, selected, prefs,
                 fetching, loads, answers, mixed>>

\* The server does what a request says, or refuses.
Serve(c) ==
  /\ BagIn(c, sent) /\ sent' = sent (-) SetToBag({c})
  /\ \/ joined' = [joined EXCEPT ![c.event] =
                     IF c.op = "apply" THEN @ \union {c.pref} ELSE @ \ {c.pref}]
     \/ UNCHANGED joined
  /\ answers' = answers (+) SetToBag({c.event})
  /\ UNCHANGED <<screen, detail, asked, sheet, options, selected, prefs, fetching,
                 loads, history>>

StayOpen == UNCHANGED screen /\ asked' = asked                       \* mutant
\* dismiss takes down the list if it is up, else the sheet.
Dismiss ==
  /\ screen' = CASE screen = "options" -> "sheet"
                 [] screen = "sheet" -> "detail"
                 [] OTHER -> screen
  /\ asked' = asked \union IF screen = "sheet" THEN {detail'} ELSE {}

\* Every answer, also a refusal, is taken for a success: the detail screen turns
\* to the event of the request, and what is open above it is dismissed.
Answered(e) ==
  /\ BagIn(e, answers) /\ answers' = answers (-) SetToBag({e})
  /\ detail' = e
  /\ Dismiss
  /\ UNCHANGED <<joined, sheet, options, selected, prefs, fetching, loads, sent, history>>

-----------------------------------------------------------------------------
(* The option list                                                         *)

\* reloadDatasource and selectedOption follow the details the list has.  Off
\* screen the table is reloaded, which deselects all rows, and those drawn by
\* the time it appears are selected anew; on screen nothing is: rows are
\* compared by prefecture only, and no row is new.
Follow(e, j, filled) ==
  /\ options' = [event |-> e, joined |-> j,
                 marks |-> IF filled THEN j ELSE {}]
  /\ IF screen = "options" THEN UNCHANGED selected
                           ELSE selected' \in SUBSET options'.marks
  /\ mixed' = (screen = "options")

\* selectOption: the first choice the sheet hears of after it opened is what the
\* user had.  The label, which shows each of them, is left out.
Heard(choice) ==
  [sheet EXCEPT !.old = IF sheet.flag THEN choice ELSE @, !.flag = FALSE]

\* Details as they were when asked for or as they are now.
Details(l) == {l.was, joined[l.event]}

OptionsAnswered(l) ==
  /\ BagIn(l, loads) /\ loads' = loads (-) SetToBag({l})
  /\ \E j \in Details(l) : Follow(l.event, j, prefs)
  /\ IF l.for = "sheet"
       THEN /\ sheet' = Heard(options'.marks)
            /\ calm' = (calm /\ (sheet.flag => prefs))
       ELSE UNCHANGED <<sheet, calm>>
  /\ UNCHANGED <<joined, screen, detail, asked, prefs, fetching, sent, answers>>

OptionsFailed(l) ==
  /\ BagIn(l, loads) /\ loads' = loads (-) SetToBag({l})
  /\ UNCHANGED <<joined, screen, detail, asked, sheet, options, selected, prefs,
                 fetching, sent, answers, history>>

\* Every subscription to prefectures fires; the last one has the last details.
PrefecturesAnswered ==
  /\ fetching /\ fetching' = FALSE /\ prefs' = TRUE
  /\ IF options.event = None THEN UNCHANGED <<options, selected, mixed>>
                             ELSE Follow(options.event, options.joined, TRUE)
  /\ UNCHANGED <<joined, screen, detail, asked, sheet, requests, calm>>

Emptied == prefs' = FALSE                                            \* mutant
Untold  == UNCHANGED prefs
\* No answer, or one without prefectures: nobody is told.
PrefecturesFailed ==
  /\ fetching /\ fetching' = FALSE
  /\ Untold
  /\ UNCHANGED <<joined, screen, detail, asked, sheet, options, selected, requests,
                 history>>

OnlyAdded(new) == options.marks \union new                            \* mutant
Marked(new) == new
\* itemSelected and itemDeselected: all selected rows, and nothing else.
ToggleRow(p) ==
  /\ screen = "options"
  /\ selected' = IF p \in selected THEN selected \ {p} ELSE selected \union {p}
  /\ options' = [options EXCEPT !.marks = Marked(selected')]
  /\ mixed' = FALSE
  /\ UNCHANGED <<joined, screen, detail, asked, sheet, prefs, fetching, requests,
                 calm>>

Scroll ==
  /\ screen = "options"
  /\ DrawRows
  /\ UNCHANGED <<joined, screen, detail, asked, sheet, options, prefs, fetching,
                 requests, history>>

\* selectOption, then confirmOption
ConfirmOptions ==
  /\ screen = "options" /\ screen' = "sheet"
  /\ sheet' = [Heard(options.marks) EXCEPT !.picked = options.marks]
  /\ calm' = (calm /\ ~sheet.flag)
  /\ UNCHANGED <<joined, detail, asked, options, selected, prefs, fetching, requests,
                 mixed>>

CloseOptions ==
  /\ screen = "options" /\ screen' = "sheet"
  /\ UNCHANGED <<joined, detail, asked, sheet, options, selected, prefs, fetching,
                 requests, history>>

-----------------------------------------------------------------------------
(* Specification.  A process that died stays dead here: a new one begins   *)
(* as Init does.                                                           *)

Next ==
  /\ screen # "dead"
  /\ \/ \E e \in Events : OpenEvent(e) \/ DetailAnswered(e) \/ Answered(e)
     \/ CloseDetail \/ TapApply \/ CloseSheet \/ TapPrefecture \/ TapConfirm
     \/ \E c \in BagToSet(sent) : Serve(c)
     \/ \E l \in BagToSet(loads) : OptionsAnswered(l) \/ OptionsFailed(l)
     \/ PrefecturesAnswered \/ PrefecturesFailed
     \/ \E p \in Prefectures : ToggleRow(p)
     \/ Scroll \/ ConfirmOptions \/ CloseOptions

Spec == Init /\ [][Next]_vars

\* Fairness.  Requests are served and answered, or time out.
Alive(A) == screen # "dead" /\ A
Fairness ==
  /\ \A c \in Change : WF_vars(Alive(Serve(c)))
  /\ \A e \in Events : WF_vars(Alive(Answered(e)))

FairSpec == Spec /\ Fairness

-----------------------------------------------------------------------------
(* Properties                                                              *)

(* Types, and the sheet is up only for an event.                           *)
TypeOK ==
  /\ joined \in [Events -> SUBSET Prefectures]
  /\ screen \in {"list", "detail", "sheet", "options", "dead"}
  /\ detail \in Events \union {None} /\ (screen # "list" => detail # None)
  /\ asked \subseteq Events
  /\ sheet \in Sheet /\ options \in Options
  /\ (screen \in {"sheet", "options"} => sheet.event # None)
  /\ selected \subseteq Prefectures
  /\ BagToSet(loads) \subseteq Load /\ BagToSet(sent) \subseteq Change
  /\ BagToSet(answers) \subseteq Events
  /\ {prefs, fetching, calm, mixed} \subseteq BOOLEAN

(* The options a confirmation will be compared with are what the user has  *)
(* applied for, if nothing was in flight when the sheet opened and its     *)
(* answer came, with the prefectures known, before anything was confirmed. *)
OldIsJoined ==
  calm /\ ~sheet.flag /\ screen \in {"sheet", "options"} =>
    sheet.old = joined[sheet.event]

(* What the rows show and what will be confirmed differ in prefectures the *)
(* user has applied for only - rows not drawn yet, or drawn anew -, so a   *)
(* tap adds or drops no other beside its own row: nothing is chosen in     *)
(* addition that no row shows, and no row shows it in vain unless an       *)
(* answer has come in the view since the last tap.                         *)
RowsTellChoice ==
  /\ options.marks \ options.joined \subseteq selected
  /\ ~mixed => selected \ options.marks \subseteq options.joined

(* A list that scrolls to a first row it does not have ends the program    *)
(* only before the first answers: once there are rows, no answer, event or *)
(* screen takes them away again.                                           *)
RowsStay == [][Rows # {} => Rows' # {} /\ screen' # "dead"]_vars

(* In that calm case a confirmation sends requests that turn what the      *)
(* server has into the choice picked last - unless one is both cancelled   *)
(* and applied for, as happens when the order differs.                     *)
SendsDifference ==
  [][TapConfirm /\ calm /\ ~sheet.flag =>
       LET new == BagToSet(sent' (-) sent)
           of(op) == {c.pref : c \in {d \in new : d.op = op}}
       IN  of("apply") \intersect of("cancel") = {} =>
             (joined[sheet.event] \union of("apply")) \ of("cancel") = sheet.picked]_vars

(* A sheet whose confirmation sent something is left: the user never waits *)
(* at it for good.                                                         *)
SheetIsLeft == sent # EmptyBag ~> screen # "sheet"
=============================================================================
