--------------------------- MODULE EventApplyProofs ---------------------------
(* Theorems about EventApply, for every set of events and prefectures and  *)
(* every bound: the types, the options a confirmation is compared with, the *)
(* rows of the option list, and what a confirmation sends.                 *)
EXTENDS EventApply, TLAPS

USE EventsAssumption

-----------------------------------------------------------------------------
(* Bags of requests.  Of a bag only its elements matter here.              *)

LEMMA EmptyBagElements == BagToSet(EmptyBag) = {}
  BY DEF BagToSet, EmptyBag, SetToBag

LEMMA UnionElements ==
  ASSUME NEW b, NEW c
  PROVE  BagToSet(b (+) c) = BagToSet(b) \union BagToSet(c)
  BY DEF BagToSet, (+)

LEMMA RemoveElements ==
  ASSUME NEW b, NEW c
  PROVE  BagToSet(b (-) c) \subseteq BagToSet(b)
  BY DEF BagToSet, (-)

LEMMA SetElements ==
  ASSUME NEW S
  PROVE  BagToSet(SetToBag(S)) = S
  BY DEF BagToSet, SetToBag

LEMMA AskElements ==
  ASSUME TypeOK, NEW for \in {"sheet", "list"}, NEW e \in Events
  PROVE  /\ BagToSet(Ask(for, e)) = {[for |-> for, event |-> e, was |-> joined[e]]}
         /\ BagToSet(Ask(for, e)) \subseteq Load
  BY SetElements DEF Ask, TypeOK, Load

LEMMA DifferenceElements ==
  ASSUME NEW kept
  PROVE  BagToSet(Difference(kept)) =
           {[op |-> "apply", event |-> sheet.event, pref |-> p] : p \in sheet.picked \ kept}
           \union
           {[op |-> "cancel", event |-> sheet.event, pref |-> p] : p \in sheet.old \ kept}
  BY UnionElements, SetElements DEF Difference, Requests

-----------------------------------------------------------------------------
(* Types                                                                   *)

LEMMA HeardType ==
  ASSUME TypeOK, NEW choice \in Choice
  PROVE  /\ Heard(choice) \in Sheet
         /\ Heard(choice).event = sheet.event /\ Heard(choice).flag = FALSE
         /\ Heard(choice).picked = sheet.picked
         /\ Heard(choice).old = IF sheet.flag THEN choice ELSE sheet.old
  BY DEF TypeOK, Sheet, Heard

\* An answer to the option list leaves it with the event it answers.
LEMMA FollowType ==
  ASSUME TypeOK, NEW e \in Events, NEW j \in Choice, NEW filled \in BOOLEAN,
         Follow(e, j, filled)
  PROVE  /\ options' \in Options /\ options'.event = e
         /\ options'.marks = IF filled THEN j ELSE {}
         /\ options'.marks \subseteq options'.joined
         /\ selected' \subseteq Prefectures /\ mixed' \in BOOLEAN
         /\ ~mixed' => selected' \subseteq options'.marks
  <1>1. /\ options' \in Options /\ options'.event = e /\ options'.marks \in Choice
        /\ options'.joined = j /\ options'.marks = IF filled THEN j ELSE {}
    BY DEF Follow, Options, Choice
  <1>2. CASE screen = "options"
    BY <1>1, <1>2 DEF Follow, TypeOK
  <1>3. CASE screen # "options"
    BY <1>1, <1>3 DEF Follow, Choice
  <1> QED
    BY <1>2, <1>3

\* Drawing rows selects joined ones among them and deselects none.
LEMMA DrawType ==
  ASSUME TypeOK, DrawRows
  PROVE  /\ selected' \subseteq Prefectures
         /\ selected \subseteq selected'
         /\ selected' \subseteq selected \union options.joined
  <1>1. Rows \subseteq Prefectures
    BY DEF Rows
  <1> QED
    BY <1>1 DEF DrawRows, TypeOK

LEMMA ServeType ==
  ASSUME TypeOK, NEW c \in BagToSet(sent), Serve(c)
  PROVE  TypeOK'
  <1>1. c \in Change /\ c.event \in Events /\ c.pref \in Prefectures
    BY DEF TypeOK, Change
  <1>2. joined' \in [Events -> SUBSET Prefectures]
    BY <1>1 DEF Serve, TypeOK
  <1>3. BagToSet(sent') \subseteq Change
    BY RemoveElements DEF Serve, TypeOK
  <1>4. BagToSet(answers') \subseteq Events
    BY <1>1, UnionElements, SetElements DEF Serve, TypeOK
  <1> QED
    BY <1>2, <1>3, <1>4 DEF Serve, TypeOK, history

LEMMA AnsweredType ==
  ASSUME TypeOK, NEW e \in Events, Answered(e)
  PROVE  TypeOK'
  <1>1. BagToSet(answers') \subseteq Events
    BY RemoveElements DEF Answered, TypeOK
  <1>2. /\ screen' \in {"list", "detail", "sheet", "options", "dead"}
        /\ screen' \in {"sheet", "options"} => screen = "options"
        /\ asked' \subseteq Events
    BY DEF Answered, Dismiss, TypeOK
  <1> QED
    BY <1>1, <1>2 DEF Answered, TypeOK, history

LEMMA TapApplyType ==
  ASSUME TypeOK, TapApply
  PROVE  TypeOK'
  <1>1. detail \in Events
    BY DEF TapApply, TypeOK
  <1>2. BagToSet(loads') \subseteq Load
    BY <1>1, AskElements, UnionElements DEF TapApply, Asking, TypeOK
  <1>3. sheet' \in Sheet /\ sheet'.event = detail
    BY <1>1 DEF TapApply, TypeOK, Sheet, FlagRaised
  <1>4. calm' \in BOOLEAN
    BY DEF TapApply
  <1> QED
    BY <1>1, <1>2, <1>3, <1>4 DEF TapApply, TypeOK

LEMMA TapPrefectureType ==
  ASSUME TypeOK, TapPrefecture
  PROVE  TypeOK'
  <1>1. sheet.event \in Events /\ detail \in Events /\ options.event \in Events \union {None}
    BY DEF TapPrefecture, TypeOK, Sheet, Options
  <1>2. BagToSet(loads') \subseteq Load
    <2> DEFINE more == IF options.event = None THEN EmptyBag ELSE Ask("list", options.event)
    <2>1. BagToSet(more) \subseteq Load
      BY <1>1, AskElements, EmptyBagElements
    <2>2. loads' = loads (+) (Ask("sheet", sheet.event) (+) more)
      BY DEF TapPrefecture, Asking
    <2> HIDE DEF more
    <2> QED
      BY <1>1, <2>1, <2>2, AskElements, UnionElements DEF TypeOK
  <1>3. selected' \subseteq Prefectures
    BY DrawType DEF TapPrefecture
  <1> QED
    BY <1>1, <1>2, <1>3 DEF TapPrefecture, TypeOK, history

LEMMA TapConfirmType ==
  ASSUME TypeOK, TapConfirm
  PROVE  TypeOK'
  <1>1. PICK kept : sent' = sent (+) Difference(kept)
    BY DEF TapConfirm
  <1>2. BagToSet(sent') \subseteq Change
    BY <1>1, UnionElements, DifferenceElements DEF TapConfirm, TypeOK, Sheet, Choice, Change
  <1>3. calm' \in BOOLEAN
    BY DEF TapConfirm
  <1> QED
    BY <1>2, <1>3 DEF TapConfirm, TypeOK

LEMMA DetailsType ==
  ASSUME TypeOK, NEW l \in BagToSet(loads)
  PROVE  l \in Load /\ l.event \in Events /\ Details(l) \subseteq Choice
  BY DEF TypeOK, Load, Details, Choice

LEMMA OptionsAnsweredType ==
  ASSUME TypeOK, NEW l \in BagToSet(loads), OptionsAnswered(l)
  PROVE  TypeOK'
  <1>1. PICK j \in Details(l) : Follow(l.event, j, prefs)
    BY DEF OptionsAnswered
  <1>2. /\ options' \in Options /\ options'.marks \in Choice
        /\ selected' \subseteq Prefectures /\ mixed' \in BOOLEAN
    <2>1. j \in Choice /\ l.event \in Events
      BY <1>1, DetailsType
    <2>2. options' \in Options /\ selected' \subseteq Prefectures /\ mixed' \in BOOLEAN
      BY <1>1, <2>1, FollowType DEF TypeOK
    <2> QED
      BY <2>2 DEF Options
  <1>3. sheet' \in Sheet /\ sheet'.event = sheet.event /\ calm' \in BOOLEAN
    BY <1>2, HeardType DEF OptionsAnswered, TypeOK
  <1>4. BagToSet(loads') \subseteq Load
    BY RemoveElements DEF OptionsAnswered, TypeOK
  <1> QED
    BY <1>2, <1>3, <1>4 DEF OptionsAnswered, TypeOK

LEMMA PrefecturesAnsweredType ==
  ASSUME TypeOK, PrefecturesAnswered
  PROVE  TypeOK'
  <1>1. /\ options' \in Options
        /\ selected' \subseteq Prefectures /\ mixed' \in BOOLEAN
    BY FollowType DEF PrefecturesAnswered, TypeOK, Options
  <1> QED
    BY <1>1 DEF PrefecturesAnswered, TypeOK, requests

LEMMA RowType ==
  ASSUME TypeOK, (\E p \in Prefectures : ToggleRow(p)) \/ Scroll
  PROVE  TypeOK'
  <1>1. CASE \E p \in Prefectures : ToggleRow(p)
    <2>1. selected' \subseteq Prefectures /\ options' = [options EXCEPT !.marks = selected']
      BY <1>1 DEF ToggleRow, TypeOK, Marked
    <2>2. options' \in Options
      BY <2>1 DEF TypeOK, Options, Choice
    <2> QED
      BY <1>1, <2>1, <2>2 DEF ToggleRow, TypeOK, requests
  <1>2. CASE Scroll
    BY <1>2, DrawType DEF Scroll, TypeOK, requests, history
  <1> QED
    BY <1>1, <1>2

LEMMA ConfirmOptionsType ==
  ASSUME TypeOK, ConfirmOptions
  PROVE  TypeOK'
  <1>1. options.marks \in Choice
    BY DEF TypeOK, Options
  <1>2. /\ sheet' = [Heard(options.marks) EXCEPT !.picked = options.marks]
        /\ Heard(options.marks) \in Sheet /\ Heard(options.marks).event = sheet.event
    BY <1>1, HeardType DEF ConfirmOptions
  <1>3. sheet' \in Sheet /\ sheet'.event = sheet.event
    BY <1>1, <1>2 DEF Sheet
  <1>4. calm' \in BOOLEAN
    BY DEF ConfirmOptions
  <1> QED
    BY <1>3, <1>4 DEF ConfirmOptions, TypeOK, requests

LEMMA TypeStep ==
  ASSUME TypeOK, Next
  PROVE  TypeOK'
  <1>1. ASSUME NEW e \in Events, OpenEvent(e) \/ DetailAnswered(e)
        PROVE  TypeOK'
    BY <1>1 DEF OpenEvent, DetailAnswered, TypeOK, requests, history
  <1>2. CASE CloseDetail \/ CloseSheet \/ CloseOptions
    BY <1>2 DEF CloseDetail, CloseSheet, CloseOptions, TypeOK, requests, history
  <1>3. ASSUME NEW l \in BagToSet(loads), OptionsFailed(l)
        PROVE  TypeOK'
    BY <1>3, RemoveElements DEF OptionsFailed, TypeOK, history
  <1>4. CASE PrefecturesFailed
    BY <1>4 DEF PrefecturesFailed, Untold, TypeOK, requests, history
  <1> QED
    BY <1>1, <1>2, <1>3, <1>4, AnsweredType, TapApplyType, TapPrefectureType,
       TapConfirmType, ServeType, OptionsAnsweredType, PrefecturesAnsweredType,
       RowType, ConfirmOptionsType
    DEF Next

(* Every relay, request and selection has its type, and the sheet and the  *)
(* option list are up only for an event, whatever comes in between.        *)
THEOREM TypeCorrect == Spec => []TypeOK
  <1>1. Init => TypeOK
    <2> SUFFICES ASSUME Init PROVE TypeOK
      OBVIOUS
    <2>1. sheet \in Sheet /\ options \in Options
      BY DEF Init, Sheet, Options, Choice
    <2>2. BagToSet(loads) = {} /\ BagToSet(sent) = {} /\ BagToSet(answers) = {}
      BY EmptyBagElements DEF Init
    <2> QED
      BY <2>1, <2>2 DEF Init, TypeOK
  <1>2. TypeOK /\ UNCHANGED vars => TypeOK'
    BY DEF TypeOK, vars
  <1> QED
    BY <1>1, <1>2, TypeStep, PTL DEF Spec

-----------------------------------------------------------------------------
(* What the option list shows and what it will confirm                     *)

\* Rows drawn into the view change neither what is chosen nor what was joined.
LEMMA DrawnRowsTell ==
  ASSUME TypeOK, RowsTellChoice, DrawRows, UNCHANGED <<options, mixed>>
  PROVE  RowsTellChoice'
  BY DrawType DEF RowsTellChoice

\* Options that come leave nothing chosen but what is joined.
LEMMA FollowTells ==
  ASSUME TypeOK, NEW e \in Events, NEW j \in Choice, NEW filled \in BOOLEAN,
         Follow(e, j, filled)
  PROVE  RowsTellChoice'
  BY FollowType DEF RowsTellChoice

LEMMA MarksStep ==
  ASSUME TypeOK, RowsTellChoice, Next
  PROVE  RowsTellChoice'
  <1>1. ASSUME NEW l \in BagToSet(loads), OptionsAnswered(l)
        PROVE  RowsTellChoice'
    <2>1. PICK j \in Details(l) : Follow(l.event, j, prefs)
      BY <1>1 DEF OptionsAnswered
    <2> QED
      BY <2>1, DetailsType, FollowTells DEF TypeOK
  <1>2. CASE PrefecturesAnswered
    <2>1. CASE options.event = None
      BY <1>2, <2>1 DEF PrefecturesAnswered, RowsTellChoice
    <2>2. CASE options.event # None
      BY <1>2, <2>2, FollowTells DEF PrefecturesAnswered, TypeOK, Options
    <2> QED
      BY <2>1, <2>2
  <1>3. ASSUME NEW p \in Prefectures, ToggleRow(p)
        PROVE  RowsTellChoice'
    <2>1. options'.marks = selected' /\ options'.joined = options.joined
      BY <1>3 DEF ToggleRow, Marked, TypeOK, Options
    <2> QED
      BY <2>1 DEF RowsTellChoice
  <1>4. CASE TapPrefecture
    BY <1>4, DrawnRowsTell DEF TapPrefecture, history
  <1>5. CASE Scroll
    BY <1>5, DrawnRowsTell DEF Scroll, history
  <1>6. ASSUME UNCHANGED <<options, selected, mixed>>
        PROVE  RowsTellChoice'
    BY <1>6 DEF RowsTellChoice
  <1> QED
    BY <1>1, <1>2, <1>3, <1>4, <1>5, <1>6
    DEF Next, OpenEvent, DetailAnswered, CloseDetail, TapApply, CloseSheet,
        TapConfirm, Serve, Answered, OptionsFailed, PrefecturesFailed, ConfirmOptions,
        CloseOptions, history

(* What will be confirmed and what the rows show differ only in            *)
(* prefectures the user has applied for, whichever rows are in view, were  *)
(* drawn late or were drawn anew, unless an answer came in the view since  *)
(* the last tap; and even then every other prefecture that will be         *)
(* confirmed has its row marked.                                           *)
THEOREM MarksCorrect == Spec => []RowsTellChoice
  <1>1. Init => RowsTellChoice
    BY DEF Init, RowsTellChoice
  <1>2. RowsTellChoice /\ UNCHANGED vars => RowsTellChoice'
    BY DEF RowsTellChoice, vars
  <1> QED
    BY <1>1, <1>2, MarksStep, TypeCorrect, PTL DEF Spec

-----------------------------------------------------------------------------
(* What a confirmation is compared with                                    *)

\* Calm: no change is on its way to the server, and every request of the sheet
\* in flight asks for its event as it is.
CalmInv ==
  calm =>
    /\ sheet.event \in Events
    /\ BagToSet(sent) = {} /\ BagToSet(answers) = {}
    /\ \A l \in BagToSet(loads) :
         /\ l.was = joined[l.event]
         /\ l.for = "sheet" => l.event = sheet.event
    /\ ~sheet.flag => sheet.old = joined[sheet.event]

LEMMA CalmTapApply ==
  ASSUME TypeOK, TapApply
  PROVE  CalmInv'
  <1> SUFFICES ASSUME calm'
               PROVE  CalmInv'
    BY DEF CalmInv
  <1>1. BagToSet(loads) = {} /\ BagToSet(sent) = {} /\ BagToSet(answers) = {}
    BY EmptyBagElements DEF TapApply
  <1>2. detail \in Events /\ sheet'.event = detail /\ sheet'.flag = TRUE
    BY DEF TapApply, TypeOK, Sheet, FlagRaised
  <1>3. BagToSet(loads') = {[for |-> "sheet", event |-> detail, was |-> joined[detail]]}
    BY <1>1, <1>2, UnionElements, AskElements DEF TapApply, Asking
  <1> QED
    BY <1>1, <1>2, <1>3 DEF CalmInv, TapApply

LEMMA CalmTapPrefecture ==
  ASSUME TypeOK, CalmInv, TapPrefecture
  PROVE  CalmInv'
  <1> DEFINE more == IF options.event = None THEN EmptyBag ELSE Ask("list", options.event)
  <1>1. sheet.event \in Events /\ options.event \in Events \union {None}
    BY DEF TapPrefecture, TypeOK, Sheet, Options
  <1>2. \A l \in BagToSet(more) : l.for = "list" /\ l.was = joined[l.event]
    BY <1>1, AskElements, EmptyBagElements
  <1>3. \A l \in BagToSet(Ask("sheet", sheet.event)) :
          l.event = sheet.event /\ l.was = joined[l.event]
    BY <1>1, AskElements
  <1>4. loads' = loads (+) (Ask("sheet", sheet.event) (+) more)
    BY DEF TapPrefecture, Asking
  <1> HIDE DEF more
  <1>5. BagToSet(loads') = BagToSet(loads) \union BagToSet(Ask("sheet", sheet.event))
                             \union BagToSet(more)
    BY <1>4, UnionElements
  <1> QED
    BY <1>2, <1>3, <1>5 DEF CalmInv, TapPrefecture, history

LEMMA CalmOptionsAnswered ==
  ASSUME TypeOK, CalmInv, NEW l \in BagToSet(loads), OptionsAnswered(l)
  PROVE  CalmInv'
  <1>1. PICK j \in Details(l) : Follow(l.event, j, prefs)
    BY DEF OptionsAnswered
  <1>2. /\ options'.marks \in Choice /\ options'.marks = IF prefs THEN j ELSE {}
        /\ calm => j = joined[l.event]
    <2>1. j \in Choice /\ l.event \in Events
      BY <1>1, DetailsType
    <2>2. options'.marks = IF prefs THEN j ELSE {}
      BY <1>1, <2>1, FollowType DEF TypeOK
    <2>3. calm => j = joined[l.event]
      BY <1>1 DEF CalmInv, Details
    <2> QED
      BY <2>1, <2>2, <2>3 DEF Choice
  <1>3. BagToSet(loads') \subseteq BagToSet(loads)
    BY RemoveElements DEF OptionsAnswered
  <1>4. CASE l.for = "sheet"
    <2>1. sheet' = Heard(options'.marks) /\ calm' = (calm /\ (sheet.flag => prefs))
      BY <1>4 DEF OptionsAnswered
    <2>2. /\ sheet'.event = sheet.event
          /\ sheet'.old = IF sheet.flag THEN options'.marks ELSE sheet.old
      BY <1>2, <2>1, HeardType
    <2> QED
      BY <1>2, <1>3, <1>4, <2>1, <2>2 DEF CalmInv, OptionsAnswered
  <1>5. CASE l.for # "sheet"
    BY <1>3, <1>5 DEF CalmInv, OptionsAnswered
  <1> QED
    BY <1>4, <1>5

LEMMA CalmConfirms ==
  ASSUME TypeOK, CalmInv, TapConfirm \/ ConfirmOptions
  PROVE  CalmInv'
  <1>1. CASE TapConfirm
    BY <1>1 DEF TapConfirm, CalmInv
  <1>2. CASE ConfirmOptions
    <2>1. options.marks \in Choice
      BY DEF TypeOK, Options
    <2>2. sheet' = [Heard(options.marks) EXCEPT !.picked = options.marks]
      BY <1>2 DEF ConfirmOptions
    <2>3. /\ sheet'.event = sheet.event
          /\ ~sheet.flag => sheet'.old = sheet.old
      BY <2>1, <2>2, HeardType DEF Sheet
    <2> QED
      BY <1>2, <2>3 DEF ConfirmOptions, CalmInv, requests
  <1> QED
    BY <1>1, <1>2

LEMMA CalmStep ==
  ASSUME TypeOK, CalmInv, Next
  PROVE  CalmInv'
  <1>1. ASSUME NEW c \in BagToSet(sent), Serve(c)
        PROVE  CalmInv'
    BY <1>1 DEF Serve, CalmInv, history
  <1>2. ASSUME NEW e \in Events, Answered(e)
        PROVE  CalmInv'
    BY <1>2 DEF Answered, BagIn, CalmInv, history
  <1>3. ASSUME NEW l \in BagToSet(loads), OptionsFailed(l)
        PROVE  CalmInv'
    BY <1>3, RemoveElements DEF OptionsFailed, CalmInv, history
  <1>4. ASSUME UNCHANGED <<joined, sheet, loads, sent, answers, calm>>
        PROVE  CalmInv'
    BY <1>4 DEF CalmInv
  <1>5. ASSUME NEW e \in Events, OpenEvent(e) \/ DetailAnswered(e)
        PROVE  CalmInv'
    BY <1>4, <1>5 DEF OpenEvent, DetailAnswered, requests, history
  <1>6. CASE CloseDetail \/ CloseSheet \/ CloseOptions
    BY <1>4, <1>6 DEF CloseDetail, CloseSheet, CloseOptions, requests, history
  <1>7. CASE PrefecturesAnswered \/ PrefecturesFailed
    BY <1>4, <1>7 DEF PrefecturesAnswered, PrefecturesFailed, requests, history
  <1>8. CASE (\E p \in Prefectures : ToggleRow(p)) \/ Scroll
    BY <1>4, <1>8 DEF ToggleRow, Scroll, requests, history
  <1> QED
    BY <1>1, <1>2, <1>3, <1>5, <1>6, <1>7, <1>8, CalmTapApply, CalmTapPrefecture,
       CalmOptionsAnswered, CalmConfirms
    DEF Next

LEMMA CalmCorrect == Spec => [](TypeOK /\ CalmInv)
  <1>1. Init => CalmInv
    BY DEF Init, CalmInv
  <1>2. CalmInv /\ UNCHANGED vars => CalmInv'
    BY DEF CalmInv, vars
  <1> QED
    BY <1>1, <1>2, CalmStep, TypeCorrect, PTL DEF Spec

(* In the calm case the sheet compares a confirmation with what the user   *)
(* has applied for, whatever else is opened, asked, answered or lost.      *)
THEOREM OldCorrect == Spec => []OldIsJoined
  <1>1. CalmInv => OldIsJoined
    BY DEF CalmInv, OldIsJoined
  <1> QED
    BY <1>1, CalmCorrect, PTL

-----------------------------------------------------------------------------
(* Action properties                                                       *)

RowsStayStep == Rows # {} => Rows' # {} /\ screen' # "dead"

LEMMA RowsStep ==
  ASSUME TypeOK, Next
  PROVE  RowsStayStep
  <1> SUFFICES ASSUME prefs, options.event # None
               PROVE  Rows' # {} /\ screen' # "dead"
    BY DEF RowsStayStep, Rows
  <1>1. screen' # "dead"
    BY DEF Next, Rows, OpenEvent, DetailAnswered, Answered, Dismiss, CloseDetail, TapApply,
       CloseSheet, TapPrefecture, TapConfirm, Serve, OptionsAnswered, OptionsFailed,
       PrefecturesAnswered, PrefecturesFailed, ToggleRow, Scroll, ConfirmOptions,
       CloseOptions
  <1>2. prefs'
    BY DEF Next, OpenEvent, DetailAnswered, Answered, CloseDetail, TapApply,
       CloseSheet, TapPrefecture, TapConfirm, Serve, OptionsAnswered, OptionsFailed,
       PrefecturesAnswered, PrefecturesFailed, Untold, ToggleRow, Scroll, ConfirmOptions,
       CloseOptions
  <1>3. ASSUME NEW l \in BagToSet(loads), OptionsAnswered(l)
        PROVE  options'.event # None
    BY <1>3, DetailsType DEF OptionsAnswered, Follow
  <1>4. PrefecturesAnswered => options'.event # None
    BY DEF PrefecturesAnswered, Follow
  <1>5. ASSUME NEW p \in Prefectures, ToggleRow(p)
        PROVE  options'.event # None
    BY <1>5 DEF ToggleRow, TypeOK, Options
  <1>6. options'.event # None
    BY <1>3, <1>4, <1>5
    DEF Next, OpenEvent, DetailAnswered, Answered, CloseDetail, TapApply,
        CloseSheet, TapPrefecture, TapConfirm, Serve, OptionsFailed, PrefecturesFailed,
        Scroll, ConfirmOptions, CloseOptions
  <1> QED
    BY <1>1, <1>2, <1>6 DEF Rows

(* Once the option list has rows, no answer, event or screen takes them    *)
(* away: opening the list can end the program only before the first        *)
(* answers.                                                                *)
THEOREM RowsCorrect == Spec => RowsStay
  <1>1. TypeOK /\ [Next]_vars => [RowsStayStep]_vars
    BY RowsStep
  <1> QED
    BY <1>1, TypeCorrect, PTL DEF Spec, RowsStay, RowsStayStep

New    == BagToSet(sent' (-) sent)
Of(op) == {c.pref : c \in {d \in New : d.op = op}}
SendsStep ==
  TapConfirm /\ calm /\ ~sheet.flag =>
    (Of("apply") \intersect Of("cancel") = {} =>
       (joined[sheet.event] \union Of("apply")) \ Of("cancel") = sheet.picked)

(* What a bag has more than one without elements is all it has.            *)
LEMMA NewElements ==
  ASSUME NEW b, NEW c, NEW S, NEW T, BagToSet(b) = {},
         c = b (+) (SetToBag(S) (+) SetToBag(T))
  PROVE  BagToSet(c (-) b) = S \union T
  <1>1. DOMAIN b = {} /\ DOMAIN c = S \union T
    BY DEF BagToSet, SetToBag, (+)
  <1>2. \A x \in S \union T : c[x] \in {1, 2}
    <2>1. SetToBag(S) = [x \in S |-> 1] /\ SetToBag(T) = [x \in T |-> 1]
      BY DEF SetToBag
    <2> DEFINE d == SetToBag(S) (+) SetToBag(T)
    <2>2. DOMAIN d = S \union T
      BY DEF BagToSet, SetToBag, (+)
    <2>3. \A x \in S \union T : d[x] = (IF x \in S THEN 1 ELSE 0) + (IF x \in T THEN 1 ELSE 0)
      BY <2>1 DEF (+)
    <2>4. \A x \in S \union T : d[x] \in {1, 2}
      BY <2>3
    <2>5. c = b (+) d
      OBVIOUS
    <2> HIDE DEF d
    <2>6. \A x \in S \union T : c[x] = 0 + d[x]
      BY <1>1, <2>2, <2>5 DEF (+)
    <2> QED
      BY <2>4, <2>6
  <1>3. DOMAIN (c (-) b) = {x \in S \union T : c[x] > 0}
    BY <1>1 DEF (-)
  <1>4. DOMAIN (c (-) b) = S \union T
    BY <1>2, <1>3
  <1> QED
    BY <1>4 DEF BagToSet

LEMMA SendsDifferenceStep ==
  ASSUME TypeOK, CalmInv
  PROVE  SendsStep
  <1> SUFFICES ASSUME TapConfirm, calm, ~sheet.flag,
                      Of("apply") \intersect Of("cancel") = {}
               PROVE  (joined[sheet.event] \union Of("apply")) \ Of("cancel") = sheet.picked
    BY DEF SendsStep
  <1>1. PICK kept \in Kept(sheet.old, sheet.picked) : sent' = sent (+) Difference(kept)
    BY DEF TapConfirm
  <1>2. kept \subseteq sheet.old \intersect sheet.picked
    BY DEF Kept
  <1> DEFINE S == {[op |-> "apply", event |-> sheet.event, pref |-> p] :
                     p \in sheet.picked \ kept}
             T == {[op |-> "cancel", event |-> sheet.event, pref |-> p] :
                     p \in sheet.old \ kept}
  <1>3. sent' = sent (+) (SetToBag(S) (+) SetToBag(T))
    BY <1>1 DEF Difference, Requests
  <1>4. New = S \union T
    BY <1>3, NewElements DEF New, CalmInv
  <1>5. Of("apply") = sheet.picked \ kept
    <2> DEFINE P == sheet.picked \ kept
               d(p) == [op |-> "apply", event |-> sheet.event, pref |-> p]
    <2>1. \A p \in P : d(p) \in New /\ d(p).op = "apply" /\ d(p).pref = p
      BY <1>4
    <2>2. \A x \in New : x.op = "apply" => x.pref \in P
      BY <1>4
    <2> HIDE DEF S, T, P, d
    <2>3. Of("apply") = P
      BY <2>1, <2>2 DEF Of
    <2> QED
      BY <2>3 DEF P
  <1>6. Of("cancel") = sheet.old \ kept
    <2> DEFINE P == sheet.old \ kept
               d(p) == [op |-> "cancel", event |-> sheet.event, pref |-> p]
    <2>1. \A p \in P : d(p) \in New /\ d(p).op = "cancel" /\ d(p).pref = p
      BY <1>4
    <2>2. \A x \in New : x.op = "cancel" => x.pref \in P
      BY <1>4
    <2> HIDE DEF S, T, P, d
    <2>3. Of("cancel") = P
      BY <2>1, <2>2 DEF Of
    <2> QED
      BY <2>3 DEF P
  <1>7. joined[sheet.event] = sheet.old
    BY DEF CalmInv
  <1> QED
    BY <1>2, <1>5, <1>6, <1>7

(* In the calm case a confirmation turns what the server has into the      *)
(* choice picked last, unless a prefecture is both cancelled and applied   *)
(* for: whatever common part the comparison of the two lists keeps.        *)
THEOREM SendsCorrect == Spec => SendsDifference
  <1>1. TypeOK /\ CalmInv => SendsStep
    BY SendsDifferenceStep
  <1> QED
    BY <1>1, CalmCorrect, PTL DEF SendsDifference, SendsStep, New, Of
=============================================================================
