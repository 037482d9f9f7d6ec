----------------------------- MODULE GenresProofs -----------------------------
(* Invariants of Genres, for every set of genres, places and requests.     *)
EXTENDS Genres, TLAPS

USE ItemsAssumption

-----------------------------------------------------------------------------
(* Types                                                                   *)

RequestType == [state : {"idle", "sent", "answered"}, list : SUBSET Genres]

\* An unbound list has no marks: it has not been shown.
UnboundUnmarked == \A l \in List \ bound : marks[l] = {}

LEMMA RequestsType ==
  /\ Idle \in RequestType /\ Sent \in RequestType
  /\ \A list \in SUBSET Genres : Request("answered", list) \in RequestType
  BY DEF Idle, Sent, Request, RequestType

\* New rows: only rows that are there stay marked, and only if they were.
LEMMA TakeType ==
  ASSUME TypeOK, UnboundUnmarked, NEW list \in SUBSET Genres, Take(list)
  PROVE  /\ marks' \in [List -> SUBSET Item]
         /\ marks'["filter"] \subseteq list \union Places
         /\ marks'["picker"] \subseteq list
         /\ lost' \subseteq bound /\ lost \subseteq lost'
         /\ \A l \in List : /\ marks'[l] \subseteq marks[l]
                            /\ l \notin lost' => marks'[l] = marks[l]
  <1>1. /\ marks' = [l \in List |-> IF l \in bound THEN Remarked(l, list) ELSE marks[l]]
        /\ lost' = lost \union {l \in bound : Remarked(l, list) # marks[l]}
    BY DEF Take
  <1>2. /\ marks \in [List -> SUBSET Item] /\ bound \subseteq List /\ lost \subseteq bound
        /\ marks["picker"] \subseteq Genres
    BY DEF TypeOK
  <1>3. \A l \in List : /\ Remarked(l, list) \subseteq marks[l]
                        /\ Remarked(l, list) \subseteq list \union Places
    BY DEF Remarked
  <1>4. marks' \in [List -> SUBSET Item] /\ \A l \in List : marks'[l] \subseteq marks[l]
    BY <1>1, <1>2, <1>3
  <1>5. \A l \in List : marks'[l] \subseteq list \union Places
    BY <1>1, <1>3 DEF UnboundUnmarked
  <1>6. marks'["filter"] \subseteq list \union Places /\ marks'["picker"] \subseteq list
    BY <1>2, <1>4, <1>5 DEF List
  <1>7. \A l \in List : l \notin lost' => marks'[l] = marks[l]
    BY <1>1
  <1> QED
    BY <1>1, <1>2, <1>4, <1>6, <1>7

\* What is sent on after a tap on a row of a list.
LEMMA MarkType ==
  ASSUME TypeOK, NEW l \in List, NEW x \in Rows(l)
  PROVE  /\ x \in Item /\ Mark(l, x) \subseteq Item
         /\ l = "filter" => Mark(l, x) \subseteq genres \union Places
         /\ l = "picker" => Mark(l, x) \subseteq genres
  <1>1. x \in genres \union Places /\ (l = "picker" => x \in genres) /\ genres \subseteq Genres
    BY DEF Rows, List, TypeOK
  <1> QED
    BY <1>1 DEF Mark, TypeOK, Item, List

LEMMA SendType ==
  ASSUME TypeOK, UnboundUnmarked, NEW l \in bound, NEW new \in SUBSET Item, Send(l, new),
         l = "filter" => new \subseteq genres \union Places,
         l = "picker" => new \subseteq genres,
         UNCHANGED <<catalog, fetches, genres, screen, bound, answered>>
  PROVE  TypeOK' /\ UnboundUnmarked'
  <1>1. l \in List /\ bound \subseteq List
    BY DEF TypeOK
  <1>2. /\ marks' \in [List -> SUBSET Item] /\ chosen' \in [List -> SUBSET Item]
        /\ \A k \in List : marks'[k] = IF k = l THEN new ELSE marks[k]
        /\ lost' \subseteq bound
    BY <1>1 DEF Send, TypeOK
  <1>3. marks'["filter"] \subseteq genres \union Places /\ marks'["picker"] \subseteq genres
    BY <1>1, <1>2 DEF TypeOK, List
  <1>4. UnboundUnmarked'
    BY <1>1, <1>2 DEF UnboundUnmarked
  <1> QED
    BY <1>2, <1>3, <1>4 DEF TypeOK

\* A list on display is bound.
TypeInv == /\ TypeOK
           /\ UnboundUnmarked
           /\ screen \in List => screen \in bound

\* A list that appears has no more marks than before, and is bound.
LEMMA ShowMarks ==
  ASSUME TypeOK, NEW l \in List, Show(l)
  PROVE  /\ marks' \in [List -> SUBSET Item]
         /\ \A k \in List : marks'[k] \subseteq marks[k]
         /\ lost \subseteq lost' /\ lost' \subseteq lost \union {l}
         /\ \A k \in List : k \notin lost' => marks'[k] = marks[k]
  BY DEF Show, Reshown, TypeOK

LEMMA ShowType ==
  ASSUME TypeInv, NEW l \in List, Show(l), fetches' \in [Slots -> RequestType],
         UNCHANGED <<catalog, genres, chosen, answered>>
  PROVE  TypeInv'
  <1>1. /\ bound' = bound \union {l} /\ screen' \in {"dead", l}
    BY DEF Show
  <1>2. TypeOK'
    <2>1. "filter" \in List /\ "picker" \in List
      BY DEF List
    <2> QED
      BY <1>1, <2>1, ShowMarks DEF TypeInv, TypeOK, RequestType
  <1>3. UnboundUnmarked'
    BY <1>1, ShowMarks DEF TypeInv, UnboundUnmarked
  <1> QED
    BY <1>1, <1>2, <1>3 DEF TypeInv, List

LEMMA TypeStep == TypeInv /\ [Next]_vars => TypeInv'
  <1> SUFFICES ASSUME TypeInv, [Next]_vars PROVE TypeInv'
    OBVIOUS
  <1> USE DEF TypeInv
  <1>a. fetches \in [Slots -> RequestType]
    BY DEF TypeOK, RequestType
  <1>b. ASSUME fetches' \in [Slots -> RequestType],
               UNCHANGED <<catalog, genres, screen, lists, answered>>
        PROVE  TypeInv'
    BY <1>b DEF TypeOK, RequestType, lists, UnboundUnmarked
  <1>1. CASE Change
    BY <1>1 DEF Change, TypeOK, lists, UnboundUnmarked
  <1>2. CASE Restart
    BY <1>2, RequestsType DEF Restart, AllSent, NoMarks, TypeOK, RequestType, List, UnboundUnmarked
  <1>3. ASSUME NEW s \in Slots, Serve(s) \/ Fail(s) PROVE TypeInv'
    <2>1. catalog \in SUBSET Genres
      BY DEF TypeOK
    <2>2. fetches' \in [Slots -> RequestType]
      BY <1>3, <1>a, <2>1, RequestsType DEF Serve, Fail
    <2> QED
      BY <1>3, <1>b, <2>2 DEF Serve, Fail
  <1>4. ASSUME NEW s \in Slots, Answer(s) PROVE TypeInv'
    <2>1. fetches' \in [Slots -> RequestType] /\ UNCHANGED <<catalog, screen, bound, chosen>>
      BY <1>4, <1>a, RequestsType DEF Answer
    <2>2. CASE UNCHANGED <<genres, marks, lost, answered>>
      BY <2>1, <2>2, <1>b DEF lists
    <2>3. CASE Take(fetches[s].list)
      <3>1. fetches[s].list \in SUBSET Genres
        BY <1>a DEF RequestType
      <3>2. genres' = fetches[s].list /\ answered' = TRUE
        BY <2>3 DEF Take
      <3>3. /\ marks' \in [List -> SUBSET Item] /\ lost' \subseteq bound
            /\ marks'["filter"] \subseteq genres' \union Places
            /\ marks'["picker"] \subseteq genres'
            /\ \A l \in List : marks'[l] \subseteq marks[l]
        BY <2>3, <3>1, <3>2, TakeType
      <3>4. answered' \in BOOLEAN
        BY <3>2, Zenon
      <3>5. UnboundUnmarked'
        BY <2>1, <3>3 DEF UnboundUnmarked
      <3> QED
        BY <2>1, <3>1, <3>2, <3>3, <3>4, <3>5 DEF TypeOK, RequestType
    <2> QED
      BY <1>4, <2>2, <2>3 DEF Answer
  <1>5. CASE TapFilter
    <2>1. /\ "filter" \in List /\ Show("filter")
          /\ UNCHANGED <<catalog, fetches, genres, chosen, answered>>
      BY <1>5 DEF TapFilter, List
    <2> QED
      BY <1>a, <2>1, ShowType
  <1>6. CASE CloseFilter \/ ClosePicker
    BY <1>6 DEF CloseFilter, ClosePicker, TypeOK, List, lists, UnboundUnmarked
  <1>7. CASE OpenForm
    BY <1>7 DEF OpenForm, TypeOK, List, UnboundUnmarked
  <1>8. CASE TapGenre \/ Reappear
    <2>1. fetches' \in [Slots -> RequestType]
      BY <1>8, <1>a, RequestsType DEF TapGenre, Reappear, Fetch
    <2>2. CASE TapGenre
      <3>1. "picker" \in List /\ Show("picker") /\ UNCHANGED <<catalog, genres, chosen, answered>>
        BY <2>2 DEF TapGenre, List
      <3> QED
        BY <2>1, <3>1, ShowType
    <2>3. CASE Reappear
      BY <2>1, <2>3 DEF Reappear, TypeOK, RequestType, List, lists, UnboundUnmarked
    <2> QED
      BY <1>8, <2>2, <2>3
  <1>9. ASSUME NEW x \in Item, Deselect(x) PROVE TypeInv'
    <2>1. /\ "filter" \in bound /\ Send("filter", marks["filter"] \ {x})
          /\ UNCHANGED <<catalog, fetches, genres, screen, bound, answered>>
          /\ marks["filter"] \ {x} \subseteq genres \union Places
          /\ marks["filter"] \ {x} \in SUBSET Item
      BY <1>9 DEF Deselect, TypeOK, List
    <2>2. TypeOK' /\ UnboundUnmarked'
      BY <2>1, SendType
    <2> QED
      BY <2>1, <2>2
  <1>10. ASSUME NEW x \in Item, NEW l \in List, Select(l, x) PROVE TypeInv'
    <2>1. /\ l \in bound /\ x \in Rows(l) /\ Send(l, Mark(l, x))
          /\ UNCHANGED <<catalog, fetches, genres, screen, bound, answered>>
      BY <1>10 DEF Select
    <2>2. TypeOK' /\ UnboundUnmarked'
      BY <2>1, MarkType, SendType
    <2> QED
      BY <2>1, <2>2
  <1>11. CASE UNCHANGED vars
    BY <1>11 DEF vars, TypeOK, UnboundUnmarked
  <1> QED
    BY <1>1, <1>2, <1>3, <1>4, <1>5, <1>6, <1>7, <1>8, <1>9, <1>10, <1>11 DEF Next

LEMMA TypeInvariant == Spec => []TypeInv
  <1>1. Init => TypeInv
    BY RequestsType DEF Init, AllSent, NoMarks, TypeInv, TypeOK, RequestType, List, UnboundUnmarked
  <1> QED
    BY <1>1, TypeStep, PTL DEF Spec

(* Type correctness: only rows that a list shows are marked, whatever list  *)
(* of genres replaced another while it was or was not on display.           *)
THEOREM TypeCorrect == Spec => []TypeOK
  <1>1. TypeInv => TypeOK
    BY DEF TypeInv
  <1> QED
    BY <1>1, TypeInvariant, PTL

-----------------------------------------------------------------------------
(* Marks and choices                                                       *)

LEMMA KeepMarked ==
  ASSUME MarkedIsChosen, UNCHANGED <<marks, chosen, lost>> PROVE MarkedIsChosen'
  BY DEF MarkedIsChosen

\* A tap leaves one row of each section at most.
LEMMA MarkOne ==
  ASSUME TypeInv, MarkedIsChosen, NEW l \in List, NEW x \in Rows(l)
  PROVE  \A y, z \in Mark(l, x) : Section(y) = Section(z) => y = z
  <1>1. marks[l] \subseteq Item /\ x \in Item
    BY MarkType DEF TypeInv, TypeOK
  <1>2. \A y, z \in marks[l] : Section(y) = Section(z) => y = z
    BY DEF MarkedIsChosen
  <1>3. \A y \in Item : y \in Section(y)
    BY DEF Item, Section
  <1> QED
    BY <1>1, <1>2, <1>3 DEF Mark

LEMMA SendMarked ==
  ASSUME TypeInv, MarkedIsChosen, NEW l \in List, NEW new, Send(l, new),
         \A x, y \in new : Section(x) = Section(y) => x = y
  PROVE  MarkedIsChosen'
  BY DEF TypeInv, TypeOK, MarkedIsChosen, Send, Section

\* Marks that go leave the choice, and the history tells of it.
LEMMA FewerMarks ==
  ASSUME MarkedIsChosen, lost \subseteq lost', UNCHANGED chosen,
         \A l \in List : /\ marks'[l] \subseteq marks[l]
                         /\ l \notin lost' => marks'[l] = marks[l]
  PROVE  MarkedIsChosen'
  BY DEF MarkedIsChosen

LEMMA MarkedStep == TypeInv /\ MarkedIsChosen /\ [Next]_vars => MarkedIsChosen'
  <1> SUFFICES ASSUME TypeInv, MarkedIsChosen, [Next]_vars PROVE MarkedIsChosen'
    OBVIOUS
  <1>1. CASE Restart
    BY <1>1 DEF Restart, NoMarks, MarkedIsChosen
  <1>2. ASSUME NEW s \in Slots, Answer(s) PROVE MarkedIsChosen'
    <2>1. CASE Take(fetches[s].list)
      <3>1. fetches[s].list \in SUBSET Genres
        BY DEF TypeInv, TypeOK
      <3>2. /\ lost \subseteq lost'
            /\ \A l \in List : /\ marks'[l] \subseteq marks[l]
                               /\ l \notin lost' => marks'[l] = marks[l]
        BY <2>1, <3>1, TakeType DEF TypeInv
      <3>3. UNCHANGED chosen
        BY <1>2 DEF Answer
      <3> QED
        BY <3>2, <3>3, FewerMarks
    <2>2. CASE UNCHANGED <<genres, marks, lost, answered>>
      BY <1>2, <2>2, KeepMarked DEF Answer
    <2> QED
      BY <1>2, <2>1, <2>2 DEF Answer
  <1>3. CASE OpenForm
    BY <1>3 DEF OpenForm, MarkedIsChosen, TypeInv, TypeOK, List, Section
  <1>4. ASSUME NEW x \in Item, Deselect(x) PROVE MarkedIsChosen'
    <2>1. "filter" \in List /\ Send("filter", marks["filter"] \ {x})
      BY <1>4 DEF Deselect, List
    <2>2. \A y, z \in marks["filter"] \ {x} : Section(y) = Section(z) => y = z
      BY <2>1 DEF MarkedIsChosen
    <2> QED
      BY <2>1, <2>2, SendMarked
  <1>5. ASSUME NEW x \in Item, NEW l \in List, Select(l, x) PROVE MarkedIsChosen'
    <2>1. x \in Rows(l) /\ Send(l, Mark(l, x))
      BY <1>5 DEF Select
    <2> QED
      BY <2>1, MarkOne, SendMarked
  <1>6. CASE Change \/ CloseFilter \/ ClosePicker \/ Reappear
    BY <1>6, KeepMarked DEF Change, CloseFilter, ClosePicker, Reappear, lists
  <1>9. CASE TapFilter \/ TapGenre
    <2>1. PICK l \in List : Show(l) /\ UNCHANGED chosen
      BY <1>9 DEF TapFilter, TapGenre, List
    <2> QED
      BY <2>1, ShowMarks, FewerMarks DEF TypeInv
  <1>7. ASSUME NEW s \in Slots, Serve(s) \/ Fail(s) PROVE MarkedIsChosen'
    BY <1>7, KeepMarked DEF Serve, Fail, lists
  <1>8. CASE UNCHANGED vars
    BY <1>8, KeepMarked DEF vars
  <1> QED
    BY <1>1, <1>2, <1>3, <1>4, <1>5, <1>6, <1>7, <1>8, <1>9 DEF Next

(* What a list marks is one genre or place at most of each section, and is *)
(* what the search or the form uses; more than that is used only after the *)
(* rows of the list were replaced or the filter appeared again, and until  *)
(* the next tap.                                                           *)
THEOREM MarksAreChosen == Spec => []MarkedIsChosen
  <1>1. Init => MarkedIsChosen
    BY DEF Init, NoMarks, MarkedIsChosen
  <1> QED
    BY <1>1, TypeInvariant, MarkedStep, PTL DEF Spec

-----------------------------------------------------------------------------
(* The empty list                                                          *)

DiesInv == /\ DiesBeforeFirstAnswer
           /\ answered => genres # {}

LEMMA DiesStep == TypeInv /\ DiesInv /\ [Next]_vars => DiesInv'
  <1> SUFFICES ASSUME TypeInv, DiesInv, [Next]_vars PROVE DiesInv'
    OBVIOUS
  <1> USE DEF DiesInv, DiesBeforeFirstAnswer
  <1>1. CASE Restart
    BY <1>1 DEF Restart
  <1>2. ASSUME NEW s \in Slots, Answer(s) PROVE DiesInv'
    <2>1. screen' = screen /\ screen # "dead"
      BY <1>2 DEF Answer
    <2>2. CASE Takes(fetches[s].list) /\ Take(fetches[s].list)
      <3>1. genres' # {}
        BY <2>2 DEF Takes, Take
      <3> QED
        BY <2>1, <3>1
    <2>3. CASE UNCHANGED <<genres, marks, lost, answered>>
      BY <2>1, <2>3
    <2> QED
      BY <1>2, <2>2, <2>3 DEF Answer
  <1>3. CASE TapFilter
    BY <1>3 DEF TapFilter, Show
  <1>4. CASE TapGenre
    BY <1>4 DEF TapGenre, Show
  <1>5. CASE Change \/ CloseFilter \/ OpenForm \/ ClosePicker \/ Reappear
    BY <1>5 DEF Change, CloseFilter, OpenForm, ClosePicker, Reappear
  <1>6. ASSUME NEW s \in Slots, Serve(s) \/ Fail(s) PROVE DiesInv'
    BY <1>6 DEF Serve, Fail
  <1>7. ASSUME NEW x \in Item, Deselect(x) PROVE DiesInv'
    BY <1>7 DEF Deselect
  <1>8. ASSUME NEW x \in Item, NEW l \in List, Select(l, x) PROVE DiesInv'
    BY <1>8 DEF Select
  <1>9. CASE UNCHANGED vars
    BY <1>9 DEF vars
  <1> QED
    BY <1>1, <1>2, <1>3, <1>4, <1>5, <1>6, <1>7, <1>8, <1>9 DEF Next

(* A list that scrolls to a row it does not have ends the program only     *)
(* before the first answer.                                                *)
THEOREM DiesOnlyEarly == Spec => []DiesBeforeFirstAnswer
  <1>1. Init => DiesInv
    BY DEF Init, DiesInv, DiesBeforeFirstAnswer
  <1>2. DiesInv => DiesBeforeFirstAnswer
    BY DEF DiesInv
  <1> QED
    BY <1>1, <1>2, TypeInvariant, DiesStep, PTL DEF Spec
=============================================================================
