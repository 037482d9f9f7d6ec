---------------------------- MODULE EventListProofs ----------------------------
(* Theorems about EventList, for every set of events and words, every       *)
(* answer of the server and every bound: the types, where the cells point,  *)
(* what their buttons tell, and what the list holds once all is quiet.      *)
EXTENDS EventList, SequenceTheorems, TLAPS

-----------------------------------------------------------------------------
(* Sequences of requests                                                   *)

LEMMA FunctionSeq ==
  ASSUME NEW T, NEW n \in Nat, NEW f \in [1..n -> T]
  PROVE  f \in Seq(T) /\ Len(f) = n
  OBVIOUS

LEMMA RemoveProperties ==
  ASSUME NEW T, NEW s \in Seq(T), NEW k \in DOMAIN s
  PROVE  /\ RemoveAt(s, k) \in Seq(T)
         /\ Len(RemoveAt(s, k)) = Len(s) - 1
         /\ DOMAIN RemoveAt(s, k) = 1..(Len(s) - 1)
         /\ \A i \in 1..(Len(s) - 1) :
              RemoveAt(s, k)[i] = IF i < k THEN s[i] ELSE s[i + 1]
  <1> DEFINE before == SubSeq(s, 1, k - 1)
             after  == SubSeq(s, k + 1, Len(s))
  <1>1. Len(s) \in Nat /\ k \in 1..Len(s) /\ \A i \in 1..Len(s) : s[i] \in T
    OBVIOUS
  <1>2. /\ before \in Seq(T) /\ Len(before) = k - 1
        /\ \A i \in 1..(k - 1) : before[i] = s[i]
    BY <1>1, SubSeqProperties
  <1>3. /\ after \in Seq(T) /\ Len(after) = Len(s) - k
        /\ \A i \in 1..(Len(s) - k) : after[i] = s[k + i]
    BY <1>1, SubSeqProperties
  <1> HIDE DEF before, after
  <1>4. /\ before \o after \in Seq(T) /\ Len(before \o after) = Len(s) - 1
        /\ \A i \in 1..(Len(s) - 1) :
             (before \o after)[i] = IF i < k THEN s[i] ELSE s[i + 1]
    <2>1. /\ before \o after \in Seq(T)
          /\ Len(before \o after) = Len(before) + Len(after)
          /\ \A i \in 1..(Len(before) + Len(after)) :
               (before \o after)[i] = IF i <= Len(before) THEN before[i]
                                      ELSE after[i - Len(before)]
      BY <1>2, <1>3, ConcatProperties
    <2>2. Len(before) + Len(after) = Len(s) - 1
      BY <1>1, <1>2, <1>3
    <2>3. ASSUME NEW i \in 1..(Len(s) - 1)
          PROVE  (before \o after)[i] = IF i < k THEN s[i] ELSE s[i + 1]
      <3>1. CASE i < k
        BY <1>1, <1>2, <2>1, <2>2, <3>1
      <3>2. CASE ~(i < k)
        <4>1. i - (k - 1) \in 1..(Len(s) - k) /\ k + (i - (k - 1)) = i + 1
          BY <1>1, <3>2
        <4>2. (before \o after)[i] = after[i - (k - 1)]
          BY <1>1, <1>2, <2>1, <2>2, <3>2
        <4> QED
          BY <1>3, <3>2, <4>1, <4>2
      <3> QED
        BY <3>1, <3>2
    <2> QED
      BY <2>1, <2>2, <2>3
  <1>5. RemoveAt(s, k) = before \o after
    BY DEF RemoveAt, before, after
  <1> QED
    BY <1>1, <1>4, <1>5

-----------------------------------------------------------------------------
(* Types                                                                   *)

LEMMA FreshType ==
  ASSUME NEW new, NEW i \in Nat \ {0}, new[i] \in Item
  PROVE  /\ Fresh(new, i) \in Cell
         /\ Fresh(new, i).at = i /\ Fresh(new, i).event = new[i].event
         /\ Fresh(new, i).on = new[i].fav
  BY DEF Fresh, Cell, Item

\* A cell that updateCell reached.
Retold(c, x) == [c EXCEPT !.event = x.event, !.on = x.fav]

LEMMA RetoldType ==
  ASSUME NEW c \in Cell, NEW x \in Item
  PROVE  /\ Retold(c, x) \in Cell
         /\ Retold(c, x).at = c.at /\ Retold(c, x).event = x.event
         /\ Retold(c, x).on = x.fav
  BY DEF Retold, Cell, Item

\* A cell configured for its place, or kept there for the same item.
InItsPlace(new, drawn, i) ==
  \/ cells'[i] = Fresh(new, i)
  \/ window /\ i \in DOMAIN items /\ items[i] = new[i] /\ cells'[i] = drawn[i]

LEMMA ShowType ==
  ASSUME TypeOK, NEW new \in Seq(Item), NEW drawn \in Seq(Cell), Len(drawn) = Len(items),
         Show(new, drawn)
  PROVE  /\ items' = new
         /\ cells' \in Seq(Cell) /\ Len(cells') = Len(new)
         /\ shifted' \in BOOLEAN
         /\ ~shifted' => \A i \in DOMAIN new : InItsPlace(new, drawn, i)
         /\ window /\ shifted => shifted'
  <1> DEFINE kept(i) == IF window THEN Kept(new, i) ELSE {}
             at(i)   == CHOOSE j \in kept(i) : TRUE
  <1>1. /\ items' = new
        /\ cells' = [i \in DOMAIN new |->
                       IF kept(i) = {} THEN Fresh(new, i) ELSE drawn[at(i)]]
        /\ shifted' = (window /\ (shifted \/ \E i \in DOMAIN new :
                                                kept(i) # {} /\ at(i) # i))
    BY Zenon DEF Show
  <1>2. \A i : kept(i) # {} => at(i) \in kept(i)
    BY Zenon
  <1>3. \A i : kept(i) # {} => at(i) \in DOMAIN items /\ items[at(i)] = new[i]
    BY <1>2 DEF Kept
  <1> HIDE DEF kept, at
  <1>4. Len(new) \in Nat /\ DOMAIN new = 1..Len(new) /\ DOMAIN drawn = DOMAIN items
    BY DEF TypeOK
  <1>5. \A i \in DOMAIN new : Fresh(new, i) \in Cell
    BY <1>4, FreshType
  <1>6. \A i \in DOMAIN new : kept(i) # {} => drawn[at(i)] \in Cell
    BY <1>3, <1>4
  <1>7. cells' \in [1..Len(new) -> Cell]
    BY <1>1, <1>4, <1>5, <1>6
  <1>8. cells' \in Seq(Cell) /\ Len(cells') = Len(new)
    BY <1>4, <1>7, FunctionSeq
  <1>9. ~shifted' => \A i \in DOMAIN new : InItsPlace(new, drawn, i)
    <2>1. \A i \in DOMAIN new : kept(i) = {} => cells'[i] = Fresh(new, i)
      BY <1>1
    <2>2. \A i \in DOMAIN new : kept(i) # {} => window
      BY DEF kept
    <2>3. ~shifted' => \A i \in DOMAIN new : kept(i) # {} => at(i) = i
      BY <1>1, <2>2
    <2>4. \A i \in DOMAIN new : kept(i) # {} /\ at(i) = i => cells'[i] = drawn[i]
      BY <1>1
    <2> QED
      BY <1>3, <2>1, <2>2, <2>3, <2>4 DEF InItsPlace
  <1> QED
    BY <1>1, <1>8, <1>9

LEMMA ResultType ==
  ASSUME TypeOK, NEW w \in Words
  PROVE  Result(w) \in Seq(Item)
  <1> DEFINE hits == IF bookmarks THEN Bookmarked[favorite] ELSE Matches[w]
  <1>1. hits \in Seq(Events)
    BY MatchesAssumption, BookmarkedAssumption DEF TypeOK
  <1> HIDE DEF hits
  <1>2. DOMAIN hits = 1..Len(hits) /\ Len(hits) \in Nat
    BY <1>1
  <1>3. \A i \in DOMAIN hits : [event |-> hits[i], fav |-> hits[i] \in favorite] \in Item
    BY <1>1, <1>2 DEF Item
  <1>4. [i \in DOMAIN hits |-> [event |-> hits[i], fav |-> hits[i] \in favorite]]
          \in [1..Len(hits) -> Item]
    BY <1>2, <1>3
  <1>5. Result(w) = [i \in DOMAIN hits |-> [event |-> hits[i], fav |-> hits[i] \in favorite]]
    BY DEF Result, hits
  <1> QED
    BY <1>2, <1>4, <1>5, FunctionSeq

LEMMA SendType ==
  ASSUME TypeOK, NEW w \in Words, Send(w)
  PROVE  /\ lists' \in Seq(Search) /\ Len(lists') = Len(lists) + 1 /\ lists' # <<>>
         /\ \A k \in DOMAIN lists : lists'[k] = lists[k]
         /\ lists'[Len(lists')] = [word |-> w, was |-> Result(w)]
  <1> DEFINE s == [word |-> w, was |-> Result(w)]
  <1>1. s \in Search
    BY ResultType DEF Search
  <1>2. lists' = Append(lists, s) /\ lists \in Seq(Search)
    BY DEF Send, TypeOK
  <1> HIDE DEF s
  <1>3. /\ lists' \in Seq(Search) /\ Len(lists') = Len(lists) + 1 /\ lists' # <<>>
        /\ \A k \in DOMAIN lists : lists'[k] = lists[k]
        /\ lists'[Len(lists')] = s
    BY <1>1, <1>2, AppendProperties
  <1> QED
    BY <1>3 DEF s

\* The item a toggle changes, and the list it writes back.
Changed(t, fav)   == [t.items[t.at] EXCEPT !.fav = fav]
Rewritten(t, fav) == [t.items EXCEPT ![t.at] = Changed(t, fav)]

LEMMA WriteBackType ==
  ASSUME TypeOK, NEW t \in Toggle, t.at \in DOMAIN t.items, NEW fav \in BOOLEAN
  PROVE  /\ Changed(t, fav) \in Item
         /\ Changed(t, fav).event = t.items[t.at].event /\ Changed(t, fav).fav = fav
         /\ Rewritten(t, fav) \in Seq(Item) /\ Len(Rewritten(t, fav)) = Len(t.items)
         /\ \A i \in DOMAIN t.items :
              Rewritten(t, fav)[i] = IF i = t.at THEN Changed(t, fav) ELSE t.items[i]
         /\ Updated(t.at, Changed(t, fav)) \in Seq(Cell)
         /\ Len(Updated(t.at, Changed(t, fav))) = Len(items)
         /\ \A i \in DOMAIN cells : Updated(t.at, Changed(t, fav))[i] =
              IF cells[i].at = t.at THEN Retold(cells[i], Changed(t, fav)) ELSE cells[i]
         /\ WriteBack(t, fav) <=>
              Show(Rewritten(t, fav), Updated(t.at, Changed(t, fav)))
  <1> DEFINE item == Changed(t, fav)
             new  == Rewritten(t, fav)
             upd  == Updated(t.at, item)
  <1>1. t.items \in Seq(Item) /\ t.items[t.at] \in Item
    BY DEF Toggle
  <1>2. item \in Item /\ item.event = t.items[t.at].event /\ item.fav = fav
    BY <1>1 DEF Item, Changed
  <1>3. WriteBack(t, fav) <=> Show(new, upd)
    BY DEF WriteBack, Rewritten, Changed
  <1>4. upd = [j \in DOMAIN cells |->
                 IF cells[j].at = t.at THEN Retold(cells[j], item) ELSE cells[j]]
    BY DEF Updated, Retold
  <1>5. /\ new \in Seq(Item) /\ Len(new) = Len(t.items)
        /\ \A i \in DOMAIN t.items : new[i] = IF i = t.at THEN item ELSE t.items[i]
    BY <1>1, <1>2, ExceptSeq DEF Rewritten
  <1> HIDE DEF item, new, upd
  <1>6. cells \in Seq(Cell) /\ Len(cells) \in Nat /\ DOMAIN cells = 1..Len(cells)
        /\ \A j \in DOMAIN cells : cells[j] \in Cell
    BY DEF TypeOK
  <1>7. \A j \in DOMAIN cells : Retold(cells[j], item) \in Cell
    BY <1>2, <1>6, RetoldType
  <1>8. upd \in [1..Len(cells) -> Cell]
    BY <1>4, <1>6, <1>7
  <1>9. upd \in Seq(Cell) /\ Len(upd) = Len(items)
    BY <1>6, <1>8, FunctionSeq DEF TypeOK
  <1> QED
    BY <1>2, <1>3, <1>4, <1>5, <1>9, Zenon DEF item, new, upd

\* The favorite request of a toggle succeeded: the details are next.
LEMMA FavoriteOkType ==
  ASSUME TypeOK, NEW k \in DOMAIN toggles, FavoriteOk(k)
  PROVE  LET e == toggles[k].items[toggles[k].at].event
         IN  /\ e \in Events /\ favorite' \subseteq Events
             /\ toggles' \in Seq(Toggle) /\ Len(toggles') = Len(toggles)
             /\ \A j \in DOMAIN toggles : /\ toggles'[j].at = toggles[j].at
                                          /\ toggles'[j].items = toggles[j].items
             /\ toggles'[k].stage = "details" /\ toggles'[k].was = (e \in favorite')
  <1> DEFINE e == toggles[k].items[toggles[k].at].event
             t == [toggles[k] EXCEPT !.stage = "details", !.was = e \in favorite']
  <1>1. toggles \in Seq(Toggle) /\ toggles[k] \in Toggle /\ k \in 1..Len(toggles)
    BY DEF TypeOK
  <1>2. e \in Events
    <2>1. toggles[k].items \in Seq(Item) /\ toggles[k].at \in DOMAIN toggles[k].items
      BY <1>1 DEF TypeOK, Toggle
    <2>2. toggles[k].items[toggles[k].at] \in Item
      BY <2>1
    <2> QED
      BY <2>2 DEF Item
  <1>3. t \in Toggle /\ t.at = toggles[k].at /\ t.items = toggles[k].items
        /\ t.stage = "details" /\ t.was = (e \in favorite')
    <2>1. (e \in favorite') \in BOOLEAN
      OBVIOUS
    <2> HIDE DEF e
    <2> QED
      BY <1>1, <2>1 DEF Toggle
  <1>4. toggles' = [toggles EXCEPT ![k] = t]
    BY <1>1 DEF FavoriteOk, Toggle
  <1>5. favorite' \subseteq Events
    BY <1>2 DEF FavoriteOk, Flip, TypeOK
  <1> HIDE DEF t
  <1>6. /\ toggles' \in Seq(Toggle) /\ Len(toggles') = Len(toggles)
        /\ \A j \in 1..Len(toggles) : toggles'[j] = IF j = k THEN t ELSE toggles[j]
    BY <1>1, <1>3, <1>4, ExceptSeq
  <1>7. DOMAIN toggles = 1..Len(toggles)
    BY <1>1
  <1> QED
    BY <1>1, <1>2, <1>3, <1>5, <1>6, <1>7

LEMMA ToggleType ==
  ASSUME TypeOK, NEW k \in DOMAIN toggles
  PROVE  LET t == toggles[k]
         IN  /\ t \in Toggle /\ t.at \in DOMAIN t.items /\ t.items \in Seq(Item)
             /\ t.items[t.at] \in Item /\ t.items[t.at].event \in Events
             /\ t.items[t.at].fav \in BOOLEAN /\ t.was \in BOOLEAN
             /\ t.at \in Nat \ {0}
  <1>1. toggles[k] \in Toggle /\ toggles[k].at \in DOMAIN toggles[k].items
    BY DEF TypeOK
  <1>2. toggles[k].items \in Seq(Item) /\ toggles[k].was \in BOOLEAN
        /\ toggles[k].at \in Nat \ {0}
    BY <1>1 DEF Toggle
  <1>3. toggles[k].items[toggles[k].at] \in Item
    BY <1>1, <1>2
  <1> QED
    BY <1>1, <1>2, <1>3 DEF Item

\* One toggle ends; the others stay as they are.
LEMMA ToggleEnds ==
  ASSUME TypeOK, NEW k \in DOMAIN toggles, toggles' = RemoveAt(toggles, k)
  PROVE  /\ toggles' \in Seq(Toggle) /\ Len(toggles') = Len(toggles) - 1
         /\ \A j \in DOMAIN toggles' : toggles'[j].at \in DOMAIN toggles'[j].items
         /\ \A j \in DOMAIN toggles \ {k} :
              \E i \in DOMAIN toggles' : toggles'[i] = toggles[j]
  <1>1. toggles \in Seq(Toggle) /\ Len(toggles) \in Nat /\ DOMAIN toggles = 1..Len(toggles)
    BY DEF TypeOK
  <1>2. /\ toggles' \in Seq(Toggle) /\ Len(toggles') = Len(toggles) - 1
        /\ DOMAIN toggles' = 1..(Len(toggles) - 1)
        /\ \A i \in 1..(Len(toggles) - 1) :
             toggles'[i] = IF i < k THEN toggles[i] ELSE toggles[i + 1]
    BY <1>1, RemoveProperties
  <1>3. ASSUME NEW j \in DOMAIN toggles'
        PROVE  toggles'[j].at \in DOMAIN toggles'[j].items
    <2>1. PICK m \in DOMAIN toggles : toggles'[j] = toggles[m]
      BY <1>1, <1>2
    <2> QED
      BY <2>1 DEF TypeOK
  <1>4. ASSUME NEW j \in DOMAIN toggles \ {k}
        PROVE  \E i \in DOMAIN toggles' : toggles'[i] = toggles[j]
    <2>1. CASE j < k
      BY <1>1, <1>2, <2>1
    <2>2. CASE j > k
      <3>1. j - 1 \in 1..(Len(toggles) - 1) /\ ~(j - 1 < k) /\ (j - 1) + 1 = j
        BY <1>1, <2>2
      <3>2. toggles'[j - 1] = toggles[(j - 1) + 1]
        BY <1>2, <3>1
      <3> QED
        BY <1>2, <3>1, <3>2
    <2> QED
      BY <1>1, <2>1, <2>2
  <1> QED
    BY <1>2, <1>3, <1>4

\* A search is sent, or one ends.
LEMMA SearchType ==
  ASSUME TypeOK
  PROVE  /\ Send(word) => lists' \in Seq(Search)
         /\ Reloaded => lists' \in Seq(Search)
         /\ \A k \in DOMAIN lists : lists' = RemoveAt(lists, k) => lists' \in Seq(Search)
         /\ \A k \in DOMAIN lists : /\ lists[k].word \in Words
                                    /\ lists[k].was \in Seq(Item)
                                    /\ Result(lists[k].word) \in Seq(Item)
  <1>1. Send(word) => lists' \in Seq(Search)
    BY SendType DEF TypeOK
  <1>2. lists \in Seq(Search)
    BY DEF TypeOK
  <1>3. \A k \in DOMAIN lists : lists' = RemoveAt(lists, k) => lists' \in Seq(Search)
    BY <1>2, RemoveProperties
  <1>4. \A k \in DOMAIN lists : lists[k] \in Search
    BY <1>2
  <1>5. \A k \in DOMAIN lists : lists[k].word \in Words /\ lists[k].was \in Seq(Item)
    BY <1>4 DEF Search
  <1> QED
    BY <1>1, <1>2, <1>3, <1>5, ResultType DEF Reloaded

LEMMA CellsType ==
  ASSUME TypeOK
  PROVE  /\ DOMAIN cells = DOMAIN items /\ DOMAIN cells = 1..Len(cells)
         /\ \A i \in DOMAIN cells : /\ cells[i] \in Cell /\ items[i] \in Item
                                    /\ cells[i].at \in Nat \ {0} /\ cells[i].on \in BOOLEAN
                                    /\ i \in Nat \ {0}
  <1>1. /\ cells \in Seq(Cell) /\ items \in Seq(Item) /\ Len(cells) = Len(items)
    BY DEF TypeOK
  <1>2. /\ DOMAIN cells = DOMAIN items /\ DOMAIN cells = 1..Len(cells)
        /\ \A i \in DOMAIN cells : cells[i] \in Cell /\ items[i] \in Item
    BY <1>1
  <1> QED
    BY <1>2 DEF Cell

-----------------------------------------------------------------------------
(* Types of the steps                                                      *)

LEMMA TapBookmarkType ==
  ASSUME TypeOK, UNCHANGED bookmarks, NEW i \in DOMAIN cells, TapBookmark(i)
  PROVE  /\ TypeOK'
         /\ cells' = [cells EXCEPT ![i].on = ~@]
         /\ \A j \in DOMAIN cells : /\ cells'[j].at = cells[j].at
                                    /\ cells'[j].event = cells[j].event
                                    /\ j # i => cells'[j].on = cells[j].on
         /\ ~dead' /\ ~dead =>
              /\ Len(toggles') = Len(toggles) + 1
              /\ \A k \in DOMAIN toggles : toggles'[k] = toggles[k]
              /\ toggles'[Len(toggles')] = [at |-> cells[i].at, items |-> items,
                                            stage |-> "favorite", was |-> FALSE]
         /\ cells[i].at \in DOMAIN items => UNCHANGED dead
  <1> DEFINE t == [at |-> cells[i].at, items |-> items, stage |-> "favorite", was |-> FALSE]
             c == [cells[i] EXCEPT !.on = ~@]
  <1>1. cells \in Seq(Cell) /\ cells[i] \in Cell /\ cells[i].at \in Nat \ {0}
        /\ cells[i].on \in BOOLEAN /\ i \in 1..Len(cells)
    BY CellsType DEF TypeOK
  <1>2. c \in Cell /\ c.at = cells[i].at /\ c.event = cells[i].event
    BY <1>1 DEF Cell
  <1>3. cells' = [cells EXCEPT ![i] = c] /\ cells' = [cells EXCEPT ![i].on = ~@]
    BY DEF TapBookmark
  <1> HIDE DEF c
  <1>4. /\ cells' \in Seq(Cell) /\ Len(cells') = Len(cells)
        /\ \A j \in DOMAIN cells : cells'[j] = IF j = i THEN c ELSE cells[j]
    BY <1>1, <1>2, <1>3, ExceptSeq
  <1>5. t \in Toggle /\ toggles \in Seq(Toggle) /\ t.at = cells[i].at /\ t.items = items
    BY <1>1 DEF Toggle, TypeOK
  <1>6. IF t.at \in DOMAIN items THEN toggles' = Append(toggles, t) /\ UNCHANGED dead
                                 ELSE dead' = TRUE /\ UNCHANGED toggles
    BY DEF TapBookmark
  <1> HIDE DEF t
  <1>7. /\ toggles' \in Seq(Toggle)
        /\ \A k \in DOMAIN toggles' : toggles'[k].at \in DOMAIN toggles'[k].items
        /\ ~dead' /\ ~dead => /\ Len(toggles') = Len(toggles) + 1
                              /\ \A k \in DOMAIN toggles : toggles'[k] = toggles[k]
                              /\ toggles'[Len(toggles')] = t
    <2>1. CASE t.at \in DOMAIN items
      <3>1. /\ toggles' \in Seq(Toggle) /\ Len(toggles') = Len(toggles) + 1
            /\ \A k \in 1..Len(toggles) : toggles'[k] = toggles[k]
            /\ toggles'[Len(toggles) + 1] = t
        BY <1>5, <1>6, <2>1, AppendProperties
      <3>2. DOMAIN toggles' = 1..(Len(toggles) + 1) /\ DOMAIN toggles = 1..Len(toggles)
            /\ Len(toggles) \in Nat
        BY <1>5, <3>1
      <3>3. ASSUME NEW k \in DOMAIN toggles'
            PROVE  toggles'[k].at \in DOMAIN toggles'[k].items
        <4>1. k \in DOMAIN toggles \/ k = Len(toggles) + 1
          BY <3>2
        <4> QED
          BY <1>5, <2>1, <3>1, <3>2, <4>1 DEF TypeOK
      <3> QED
        BY <3>1, <3>2, <3>3
    <2>2. CASE t.at \notin DOMAIN items
      BY <1>6, <2>2 DEF TypeOK
    <2> QED
      BY <2>1, <2>2
  <1>8. dead' \in BOOLEAN /\ calm' \in BOOLEAN
    BY <1>6 DEF TapBookmark, TypeOK
  <1>9. TypeOK'
    BY <1>4, <1>7, <1>8 DEF TapBookmark, TypeOK
  <1> QED
    BY <1>2, <1>3, <1>4, <1>5, <1>6, <1>7, <1>9 DEF t

LEMMA ListAnsweredType ==
  ASSUME TypeOK, UNCHANGED bookmarks, NEW k \in DOMAIN lists, ListAnswered(k)
  PROVE  TypeOK' /\ \E new \in Seq(Item) : Show(new, cells)
  <1>1. PICK new \in {lists[k].was, Result(lists[k].word)} : Show(new, cells)
    BY DEF ListAnswered
  <1>2. new \in Seq(Item)
    BY SearchType
  <1>3. items' \in Seq(Item) /\ cells' \in Seq(Cell) /\ Len(cells') = Len(items')
        /\ shifted' \in BOOLEAN
    BY <1>1, <1>2, ShowType DEF TypeOK
  <1>4. lists' \in Seq(Search) /\ calm' \in BOOLEAN
    BY SearchType DEF ListAnswered
  <1> QED
    BY <1>1, <1>2, <1>3, <1>4 DEF ListAnswered, TypeOK

\* A toggle that writes its list back.
LEMMA WroteBackType ==
  ASSUME TypeOK, NEW k \in DOMAIN toggles, NEW fav \in BOOLEAN, WriteBack(toggles[k], fav)
  PROVE  /\ items' \in Seq(Item) /\ cells' \in Seq(Cell) /\ Len(cells') = Len(items')
         /\ items' = Rewritten(toggles[k], fav)
         /\ shifted' \in BOOLEAN
  <1> DEFINE t == toggles[k]
  <1>1. t \in Toggle /\ t.at \in DOMAIN t.items
    BY ToggleType
  <1>2. /\ Rewritten(t, fav) \in Seq(Item) /\ Updated(t.at, Changed(t, fav)) \in Seq(Cell)
        /\ Len(Updated(t.at, Changed(t, fav))) = Len(items)
        /\ Show(Rewritten(t, fav), Updated(t.at, Changed(t, fav)))
    BY <1>1, WriteBackType
  <1> QED
    BY <1>2, ShowType

LEMMA FavoriteFailedType ==
  ASSUME TypeOK, UNCHANGED bookmarks, NEW k \in DOMAIN toggles, FavoriteFailed(k)
  PROVE  TypeOK'
  <1> DEFINE item == toggles[k].items[toggles[k].at]
  <1>1. item.fav \in BOOLEAN /\ item.event \in Events
    BY ToggleType
  <1>2. items' \in Seq(Item) /\ cells' \in Seq(Cell) /\ Len(cells') = Len(items')
        /\ shifted' \in BOOLEAN
    BY <1>1, WroteBackType DEF FavoriteFailed
  <1>3. favorite' \subseteq Events /\ calm' \in BOOLEAN
    BY <1>1 DEF FavoriteFailed, Flip, TypeOK
  <1>4. lists' \in Seq(Search)
    BY SearchType DEF FavoriteFailed
  <1>5. toggles' \in Seq(Toggle)
        /\ \A j \in DOMAIN toggles' : toggles'[j].at \in DOMAIN toggles'[j].items
    BY ToggleEnds DEF FavoriteFailed
  <1> QED
    BY <1>2, <1>3, <1>4, <1>5 DEF FavoriteFailed, TypeOK

LEMMA DetailsAnsweredType ==
  ASSUME TypeOK, UNCHANGED bookmarks, NEW k \in DOMAIN toggles, DetailsAnswered(k)
  PROVE  TypeOK'
  <1>1. PICK fav \in {toggles[k].was, toggles[k].items[toggles[k].at].event \in favorite} :
          WriteBack(toggles[k], fav)
    BY DEF DetailsAnswered
  <1>2. fav \in BOOLEAN
    <2>1. toggles[k].was \in BOOLEAN
      BY ToggleType
    <2>2. \A S, e : (e \in S) \in BOOLEAN
      OBVIOUS
    <2> QED
      BY <2>1, <2>2, Zenon
  <1>3. items' \in Seq(Item) /\ cells' \in Seq(Cell) /\ Len(cells') = Len(items')
        /\ shifted' \in BOOLEAN
    BY <1>1, <1>2, WroteBackType
  <1>4. lists' \in Seq(Search)
    BY SearchType DEF DetailsAnswered
  <1>5. toggles' \in Seq(Toggle)
        /\ \A j \in DOMAIN toggles' : toggles'[j].at \in DOMAIN toggles'[j].items
    BY ToggleEnds DEF DetailsAnswered
  <1> QED
    BY <1>3, <1>4, <1>5 DEF DetailsAnswered, TypeOK

LEMMA OtherToggleType ==
  ASSUME TypeOK, UNCHANGED bookmarks, NEW k \in DOMAIN toggles,
         FavoriteOk(k) \/ DetailsFailed(k)
  PROVE  TypeOK'
  <1>1. CASE FavoriteOk(k)
    <2>1. /\ favorite' \subseteq Events /\ toggles' \in Seq(Toggle)
          /\ Len(toggles') = Len(toggles)
          /\ \A j \in DOMAIN toggles : /\ toggles'[j].at = toggles[j].at
                                       /\ toggles'[j].items = toggles[j].items
      BY <1>1, FavoriteOkType
    <2>2. DOMAIN toggles' = DOMAIN toggles
      BY <2>1 DEF TypeOK
    <2>3. \A j \in DOMAIN toggles' : toggles'[j].at \in DOMAIN toggles'[j].items
      BY <2>1, <2>2 DEF TypeOK
    <2> QED
      BY <1>1, <2>1, <2>3 DEF FavoriteOk, TypeOK
  <1>2. CASE DetailsFailed(k)
    BY <1>2, ToggleEnds DEF DetailsFailed, TypeOK
  <1> QED
    BY <1>1, <1>2

LEMMA ElsewhereType ==
  ASSUME TypeOK, UNCHANGED bookmarks, NEW e \in Events, ToggledElsewhere(e)
  PROVE  TypeOK'
  BY DEF ToggledElsewhere, Flip, TypeOK

LEMMA SearchesType ==
  ASSUME TypeOK, UNCHANGED bookmarks,
         \/ \E w \in Words : SetWord(w)
         \/ Refresh \/ Appear \/ Disappear
         \/ \E k \in DOMAIN lists : ListFailed(k)
  PROVE  TypeOK'
  <1>1. Calmly => calm' \in BOOLEAN
    BY DEF Calmly
  <1>2. ASSUME NEW w \in Words, SetWord(w)
        PROVE  TypeOK'
    <2>1. lists' \in Seq(Search) /\ word' \in Words
      BY <1>2, SendType DEF SetWord
    <2> QED
      BY <1>1, <1>2, <2>1 DEF SetWord, TypeOK
  <1>3. CASE Refresh \/ Appear
    <2>1. lists' \in Seq(Search)
      BY <1>3, SearchType DEF Refresh, Appear
    <2> QED
      BY <1>1, <1>3, <2>1 DEF Refresh, Appear, TypeOK
  <1>4. CASE Disappear
    BY <1>4 DEF Disappear, TypeOK
  <1>5. ASSUME NEW k \in DOMAIN lists, ListFailed(k)
        PROVE  TypeOK'
    BY <1>5, SearchType DEF ListFailed, TypeOK
  <1> QED
    BY <1>2, <1>3, <1>4, <1>5

LEMMA RedrawType ==
  ASSUME TypeOK, UNCHANGED bookmarks, NEW i \in DOMAIN cells, Redraw(i)
  PROVE  /\ TypeOK'
         /\ \A j \in DOMAIN cells : cells'[j] = IF j = i THEN Fresh(items, i) ELSE cells[j]
  <1>1. Fresh(items, i) \in Cell /\ cells \in Seq(Cell) /\ i \in 1..Len(cells)
    BY CellsType, FreshType DEF TypeOK
  <1>2. /\ cells' \in Seq(Cell) /\ Len(cells') = Len(cells)
        /\ \A j \in DOMAIN cells : cells'[j] = IF j = i THEN Fresh(items, i) ELSE cells[j]
    BY <1>1, ExceptSeq DEF Redraw
  <1> QED
    BY <1>2 DEF Redraw, TypeOK

LEMMA TypeStep ==
  ASSUME TypeOK, Next
  PROVE  TypeOK'
  <1>1. UNCHANGED bookmarks
    BY DEF Next
  <1>2. Elsewhere[bookmarks] \subseteq Events
    BY BoundsAssumption DEF TypeOK
  <1> QED
    BY <1>1, <1>2, SearchesType, ListAnsweredType, RedrawType, TapBookmarkType,
       OtherToggleType, FavoriteFailedType, DetailsAnsweredType, ElsewhereType
    DEF Next

(* Whatever answers come, in whatever order, the list, its cells and what  *)
(* is in flight keep their types: one cell for each item, and every toggle *)
(* at an index of the list it was tapped in.                               *)
THEOREM TypeCorrect == Spec => []TypeOK
  <1>1. Init => TypeOK
    <2> SUFFICES ASSUME Init PROVE TypeOK
      OBVIOUS
    <2>1. word \in Words
      BY MatchesAssumption DEF Init
    <2>2. \A T : <<>> \in Seq(T)
      OBVIOUS
    <2>3. \A k \in DOMAIN toggles : toggles[k].at \in DOMAIN toggles[k].items
      BY DEF Init
    <2>4. {window, dead, shifted, deaf, calm} \subseteq BOOLEAN
      BY DEF Init
    <2> QED
      BY <2>1, <2>2, <2>3, <2>4 DEF Init, TypeOK
  <1>2. TypeOK /\ UNCHANGED vars => TypeOK'
    BY DEF TypeOK, vars
  <1> QED
    BY <1>1, <1>2, TypeStep, PTL DEF Spec

-----------------------------------------------------------------------------
(* Cells in their places, and their buttons                                *)

\* A button tells what its item tells, or a toggle of its place is in flight.
ButtonsInv ==
  ~shifted /\ ~deaf =>
    \A i \in DOMAIN cells :
      cells[i].on = items[i].fav \/ \E k \in DOMAIN toggles : toggles[k].at = i
CellsInv == InPlace /\ ButtonsInv

\* New rows: every cell is configured for its place or kept there, drawn to
\* show the item that is there.
LEMMA CellsShown ==
  ASSUME TypeOK, NEW new \in Seq(Item), NEW drawn \in Seq(Cell), Len(drawn) = Len(items),
         Show(new, drawn), ~dead', UNCHANGED deaf,
         ~shifted /\ window => \A i \in DOMAIN items :
           items[i] = new[i] => drawn[i].at = i /\ drawn[i].event = items[i].event,
         ~shifted /\ window /\ ~deaf => \A i \in DOMAIN items :
           items[i] = new[i] => \/ drawn[i].on = items[i].fav
                                \/ \E k \in DOMAIN toggles' : toggles'[k].at = i
  PROVE  CellsInv'
  <1>1. /\ items' = new /\ DOMAIN cells' = DOMAIN new
        /\ ~shifted' => \A i \in DOMAIN new : InItsPlace(new, drawn, i)
        /\ window /\ shifted => shifted'
    BY ShowType
  <1>2. \A i \in DOMAIN new : i \in Nat \ {0} /\ new[i] \in Item
    OBVIOUS
  <1>3. ASSUME ~shifted', NEW i \in DOMAIN new
        PROVE  /\ cells'[i].at = i /\ cells'[i].event = new[i].event
               /\ ~deaf => \/ cells'[i].on = new[i].fav
                           \/ \E k \in DOMAIN toggles' : toggles'[k].at = i
    <2>1. CASE cells'[i] = Fresh(new, i)
      BY <1>2, <2>1, FreshType
    <2>2. CASE cells'[i] # Fresh(new, i)
      <3>1. window /\ i \in DOMAIN items /\ items[i] = new[i] /\ cells'[i] = drawn[i]
        BY <1>1, <1>3, <2>2 DEF InItsPlace
      <3>2. ~shifted
        BY <1>1, <1>3, <3>1
      <3> QED
        BY <3>1, <3>2
    <2> QED
      BY <2>1, <2>2
  <1> QED
    BY <1>1, <1>3 DEF CellsInv, InPlace, ButtonsInv

LEMMA CellsWrittenBack ==
  ASSUME TypeOK, CellsInv, NEW k \in DOMAIN toggles, NEW fav \in BOOLEAN,
         WriteBack(toggles[k], fav), toggles' = RemoveAt(toggles, k), ~dead',
         UNCHANGED deaf
  PROVE  CellsInv'
  <1> DEFINE t == toggles[k]
             item == Changed(t, fav)
             new  == Rewritten(t, fav)
             drawn == Updated(t.at, item)
  <1>1. t \in Toggle /\ t.at \in DOMAIN t.items
    BY ToggleType
  <1>2. /\ item \in Item /\ item.fav = fav
        /\ new \in Seq(Item) /\ new[t.at] = item
        /\ drawn \in Seq(Cell) /\ Len(drawn) = Len(items)
        /\ \A i \in DOMAIN cells :
             drawn[i] = IF cells[i].at = t.at THEN Retold(cells[i], item) ELSE cells[i]
        /\ Show(new, drawn)
    BY <1>1, WriteBackType
  <1>3. DOMAIN cells = DOMAIN items /\ \A i \in DOMAIN cells : cells[i] \in Cell
    BY CellsType
  <1>4. \A j \in DOMAIN toggles \ {k} : \E i \in DOMAIN toggles' : toggles'[i] = toggles[j]
    BY ToggleEnds
  <1> HIDE DEF item, new, drawn
  <1>5. ASSUME ~shifted, NEW i \in DOMAIN items, items[i] = new[i]
        PROVE  /\ drawn[i].at = i /\ drawn[i].event = items[i].event
               /\ ~deaf => \/ drawn[i].on = items[i].fav
                           \/ \E j \in DOMAIN toggles' : toggles'[j].at = i
    <2>1. i \in DOMAIN cells /\ cells[i] \in Cell /\ cells[i].at = i
          /\ cells[i].event = items[i].event
      BY <1>3, <1>5 DEF CellsInv, InPlace
    <2>2. CASE i = t.at
      <3>1. drawn[i] = Retold(cells[i], item)
        BY <1>2, <2>1, <2>2
      <3>2. drawn[i].at = i /\ drawn[i].event = item.event /\ drawn[i].on = item.fav
        <4>1. /\ Retold(cells[i], item).at = cells[i].at
              /\ Retold(cells[i], item).event = item.event
              /\ Retold(cells[i], item).on = item.fav
          BY <1>2, <2>1, RetoldType, Zenon
        <4> QED
          BY <2>1, <3>1, <4>1
      <3>3. items[i] = item
        BY <1>2, <1>5, <2>2
      <3> QED
        BY <3>2, <3>3
    <2>3. CASE i # t.at
      <3>1. drawn[i] = cells[i]
        BY <1>2, <2>1, <2>3
      <3>2. ~deaf => \/ cells[i].on = items[i].fav
                     \/ \E j \in DOMAIN toggles : toggles[j].at = i
        BY <1>5, <2>1 DEF CellsInv, ButtonsInv
      <3>3. \A j \in DOMAIN toggles : toggles[j].at = i => j \in DOMAIN toggles \ {k}
        BY <2>3
      <3> QED
        BY <1>4, <2>1, <3>1, <3>2, <3>3
    <2> QED
      BY <2>2, <2>3
  <1> QED
    BY <1>2, <1>5, CellsShown

LEMMA CellsStep ==
  ASSUME TypeOK, CellsInv, Next
  PROVE  CellsInv'
  <1>0. /\ UNCHANGED bookmarks /\ ~dead
        /\ DOMAIN cells = DOMAIN items
        /\ \A i \in DOMAIN cells : items[i] \in Item /\ i \in Nat \ {0}
    BY CellsType DEF Next
  <1>1. ASSUME UNCHANGED <<items, cells, toggles, dead, shifted, deaf>>
        PROVE  CellsInv'
    BY <1>1 DEF CellsInv, InPlace, ButtonsInv
  <1>2. ASSUME \/ \E w \in Words : SetWord(w)
               \/ Refresh \/ Appear \/ Disappear
               \/ \E k \in DOMAIN lists : ListFailed(k)
        PROVE  CellsInv'
    BY <1>1, <1>2 DEF SetWord, Refresh, Appear, Disappear, ListFailed
  <1>3. ASSUME NEW k \in DOMAIN lists, ListAnswered(k)
        PROVE  CellsInv'
    <2>1. PICK new \in Seq(Item) : Show(new, cells)
      BY <1>0, <1>3, ListAnsweredType
    <2>2. cells \in Seq(Cell) /\ Len(cells) = Len(items)
      BY DEF TypeOK
    <2>3. UNCHANGED <<toggles, dead, deaf>>
      BY <1>3 DEF ListAnswered
    <2> QED
      BY <1>0, <2>1, <2>2, <2>3, CellsShown DEF CellsInv, InPlace, ButtonsInv
  <1>4. ASSUME NEW i \in DOMAIN cells, Redraw(i)
        PROVE  CellsInv'
    <2>1. \A j \in DOMAIN cells : cells'[j] = IF j = i THEN Fresh(items, i) ELSE cells[j]
      BY <1>0, <1>4, RedrawType
    <2>2. /\ Fresh(items, i).at = i /\ Fresh(items, i).event = items[i].event
          /\ Fresh(items, i).on = items[i].fav
      BY <1>0, FreshType
    <2>3. DOMAIN cells' = DOMAIN cells
      BY <1>4 DEF Redraw
    <2> QED
      BY <1>4, <2>1, <2>2, <2>3 DEF Redraw, CellsInv, InPlace, ButtonsInv
  <1>5. ASSUME NEW i \in DOMAIN cells, TapBookmark(i)
        PROVE  CellsInv'
    <2>1. /\ DOMAIN cells' = DOMAIN cells
          /\ \A j \in DOMAIN cells : /\ cells'[j].at = cells[j].at
                                     /\ cells'[j].event = cells[j].event
                                     /\ j # i => cells'[j].on = cells[j].on
          /\ cells[i].at \in DOMAIN items => UNCHANGED dead
      BY <1>0, <1>5, TapBookmarkType DEF TapBookmark
    <2>2. UNCHANGED <<items, shifted, deaf>>
      BY <1>5 DEF TapBookmark
    <2>3. InPlace'
      <3> SUFFICES ASSUME ~shifted
                   PROVE  /\ ~dead'
                          /\ \A j \in DOMAIN cells' :
                               cells'[j].at = j /\ cells'[j].event = items'[j].event
        BY <2>2 DEF InPlace
      <3>1. \A j \in DOMAIN cells : cells[j].at = j /\ cells[j].event = items[j].event
        BY DEF CellsInv, InPlace
      <3>2. cells[i].at \in DOMAIN items
        BY <1>0, <3>1
      <3> QED
        BY <1>0, <2>1, <2>2, <3>1, <3>2
    <2>4. ASSUME ~shifted, ~deaf
          PROVE  \A j \in DOMAIN cells : \/ cells'[j].on = items[j].fav
                                         \/ \E k \in DOMAIN toggles' : toggles'[k].at = j
      <3>1. cells[i].at = i /\ UNCHANGED dead /\ ~dead'
        BY <1>0, <2>1, <2>4 DEF CellsInv, InPlace
      <3>2. /\ Len(toggles') = Len(toggles) + 1
            /\ \A k \in DOMAIN toggles : toggles'[k] = toggles[k]
            /\ toggles'[Len(toggles')] = [at |-> cells[i].at, items |-> items,
                                          stage |-> "favorite", was |-> FALSE]
        BY <1>0, <1>5, <3>1, TapBookmarkType
      <3>3. /\ toggles \in Seq(Toggle) /\ toggles' \in Seq(Toggle)
        BY <1>0, <1>5, TapBookmarkType DEF TypeOK
      <3>4. DOMAIN toggles \subseteq DOMAIN toggles' /\ Len(toggles') \in DOMAIN toggles'
            /\ toggles'[Len(toggles')].at = i
        BY <3>1, <3>2, <3>3
      <3>5. \A j \in DOMAIN cells : cells[j].on = items[j].fav
                                     \/ \E k \in DOMAIN toggles : toggles[k].at = j
        BY <2>4 DEF CellsInv, ButtonsInv
      <3>6. \A j \in DOMAIN cells : j # i => cells'[j].on = cells[j].on
        BY <2>1
      <3>7. \A j : (\E k \in DOMAIN toggles : toggles[k].at = j) =>
                    \E k \in DOMAIN toggles' : toggles'[k].at = j
        BY <3>2, <3>4
      <3> QED
        BY <3>4, <3>5, <3>6, <3>7
    <2>5. ButtonsInv'
      BY <2>1, <2>2, <2>4 DEF ButtonsInv
    <2> QED
      BY <2>3, <2>5 DEF CellsInv
  <1>6. ASSUME NEW k \in DOMAIN toggles, FavoriteOk(k)
        PROVE  CellsInv'
    <2>1. /\ Len(toggles') = Len(toggles) /\ toggles' \in Seq(Toggle)
          /\ \A j \in DOMAIN toggles : toggles'[j].at = toggles[j].at
      BY <1>6, FavoriteOkType
    <2>2. DOMAIN toggles' = DOMAIN toggles
      BY <2>1 DEF TypeOK
    <2> QED
      BY <1>6, <2>1, <2>2 DEF FavoriteOk, CellsInv, InPlace, ButtonsInv
  <1>7. ASSUME NEW k \in DOMAIN toggles, FavoriteFailed(k) \/ DetailsAnswered(k)
        PROVE  CellsInv'
    <2>1. PICK fav \in BOOLEAN : WriteBack(toggles[k], fav)
      <3>1. toggles[k].items[toggles[k].at].fav \in BOOLEAN /\ toggles[k].was \in BOOLEAN
        BY ToggleType
      <3>2. \A S, e : (e \in S) \in BOOLEAN
        OBVIOUS
      <3>3. CASE FavoriteFailed(k)
        BY <3>1, <3>3 DEF FavoriteFailed
      <3>4. CASE DetailsAnswered(k)
        <4>1. PICK f \in {toggles[k].was,
                          toggles[k].items[toggles[k].at].event \in favorite} :
                WriteBack(toggles[k], f)
          BY <3>4 DEF DetailsAnswered
        <4>2. f \in BOOLEAN
          BY <3>1, <3>2, Zenon
        <4> QED
          BY <4>1, <4>2
      <3> QED
        BY <1>7, <3>3, <3>4
    <2>2. toggles' = RemoveAt(toggles, k) /\ UNCHANGED <<dead, deaf>>
      BY <1>7 DEF FavoriteFailed, DetailsAnswered
    <2> QED
      BY <1>0, <2>1, <2>2, CellsWrittenBack
  <1>8. ASSUME NEW k \in DOMAIN toggles, DetailsFailed(k)
        PROVE  CellsInv'
    BY <1>8 DEF DetailsFailed, CellsInv, InPlace, ButtonsInv
  <1>9. ASSUME NEW e, ToggledElsewhere(e)
        PROVE  CellsInv'
    BY <1>9 DEF ToggledElsewhere, CellsInv, InPlace, ButtonsInv
  <1> QED
    BY <1>2, <1>3, <1>4, <1>5, <1>6, <1>7, <1>8, <1>9 DEF Next

LEMMA CellsCorrect == Spec => []CellsInv
  <1>1. Init => CellsInv
    BY DEF Init, CellsInv, InPlace, ButtonsInv
  <1>2. CellsInv /\ UNCHANGED vars => CellsInv'
    BY DEF CellsInv, InPlace, ButtonsInv, vars
  <1> QED
    BY <1>1, <1>2, CellsStep, TypeCorrect, PTL DEF Spec

(* As long as no cell was kept at another place than it had, every cell    *)
(* has the index path of the event it shows, and no tap reads an index     *)
(* that is out of range.                                                   *)
THEOREM InPlaceCorrect == Spec => []InPlace
  <1>1. CellsInv => InPlace
    BY DEF CellsInv
  <1> QED
    BY <1>1, CellsCorrect, PTL

(* A button turns before the server is asked; once no toggle is in flight  *)
(* every button tells what the list tells, as long as no cell was kept at  *)
(* another place and every toggle told.                                    *)
THEOREM ButtonsCorrect == Spec => []ButtonsTell
  <1>1. TypeOK /\ CellsInv => ButtonsTell
    BY DEF CellsInv, ButtonsInv, ButtonsTell
  <1> QED
    BY <1>1, CellsCorrect, TypeCorrect, PTL

-----------------------------------------------------------------------------
(* What the list holds once all is quiet                                   *)

\* Result, with what the server has as a parameter: f is what is bookmarked.
Answer(b, f, w) ==
  LET hits == IF b THEN Bookmarked[f] ELSE Matches[w]
  IN  [i \in DOMAIN hits |-> [event |-> hits[i], fav |-> hits[i] \in f]]
Current == Answer(bookmarks, favorite, word)

LEMMA ResultAnswer == \A w : Result(w) = Answer(bookmarks, favorite, w)
  BY DEF Result, Answer

\* Searches alone: what is in flight is what the server would answer now, and
\* the last one asks for the word.
Searched ==
  toggles = <<>> =>
    /\ lists = <<>> => items = Current
    /\ lists # <<>> =>
         /\ \A k \in DOMAIN lists :
              lists[k].was = Answer(bookmarks, favorite, lists[k].word)
         /\ lists[Len(lists)].word = word

\* A toggle alone: the list it will write back is what the server would answer.
Toggled ==
  toggles # <<>> =>
    /\ lists = <<>> /\ Len(toggles) = 1
    /\ ~bookmarks =>
         /\ toggles[1].items = items
         /\ toggles[1].stage = "favorite" => items = Current
         /\ toggles[1].stage = "details" =>
              /\ toggles[1].was = (items[toggles[1].at].event \in favorite)
              /\ Rewritten(toggles[1], toggles[1].was) = Current

CalmInv == calm => Searched /\ Toggled

LEMMA SentAnswer ==
  ASSUME TypeOK, NEW w \in Words, Send(w)
  PROVE  /\ lists' \in Seq(Search) /\ Len(lists') = Len(lists) + 1 /\ lists' # <<>>
         /\ \A k \in DOMAIN lists : lists'[k] = lists[k]
         /\ lists'[Len(lists')].word = w
         /\ lists'[Len(lists')].was = Answer(bookmarks, favorite, w)
  <1>1. /\ lists' \in Seq(Search) /\ Len(lists') = Len(lists) + 1 /\ lists' # <<>>
        /\ \A k \in DOMAIN lists : lists'[k] = lists[k]
        /\ lists'[Len(lists')] = [word |-> w, was |-> Result(w)]
    BY SendType
  <1>2. Result(w) = Answer(bookmarks, favorite, w)
    BY ResultAnswer
  <1> QED
    BY <1>1, <1>2

LEMMA CalmSend ==
  ASSUME TypeOK, CalmInv, NEW w \in Words, word' = w, Send(w), Calmly,
         UNCHANGED <<bookmarks, favorite, toggles>>
  PROVE  CalmInv'
  <1> SUFFICES ASSUME calm'
               PROVE  Searched' /\ Toggled'
    BY DEF CalmInv
  <1>1. toggles = <<>> /\ (lists = <<>> \/ calm)
    BY DEF Calmly, Quiet
  <1>2. /\ lists' \in Seq(Search) /\ Len(lists') = Len(lists) + 1 /\ lists' # <<>>
        /\ \A k \in DOMAIN lists : lists'[k] = lists[k]
        /\ lists'[Len(lists')].word = w
        /\ lists'[Len(lists')].was = Answer(bookmarks, favorite, w)
    BY SentAnswer
  <1>3. lists \in Seq(Search)
    BY DEF TypeOK
  <1>4. ASSUME NEW k \in DOMAIN lists'
        PROVE  lists'[k].was = Answer(bookmarks, favorite, lists'[k].word)
    <2>1. CASE k = Len(lists')
      BY <1>2, <2>1
    <2>2. CASE k # Len(lists')
      <3>1. k \in DOMAIN lists
        BY <1>2, <1>3, <2>2
      <3>2. lists # <<>>
        BY <3>1
      <3> QED
        BY <1>1, <1>2, <3>1, <3>2 DEF CalmInv, Searched
    <2> QED
      BY <2>1, <2>2
  <1> QED
    BY <1>1, <1>2, <1>4 DEF Searched, Toggled

LEMMA CalmListAnswered ==
  ASSUME TypeOK, CalmInv, NEW k \in DOMAIN lists, ListAnswered(k), UNCHANGED bookmarks
  PROVE  CalmInv'
  <1> SUFFICES ASSUME calm'
               PROVE  Searched' /\ Toggled'
    BY DEF CalmInv
  <1>1. calm /\ k = 1 /\ toggles = <<>> /\ UNCHANGED <<toggles, favorite, word>>
    BY DEF ListAnswered
  <1>2. lists # <<>> /\ lists \in Seq(Search) /\ Len(lists) \in Nat \ {0}
    BY <1>1 DEF TypeOK
  <1>3. /\ \A j \in DOMAIN lists :
             lists[j].was = Answer(bookmarks, favorite, lists[j].word)
        /\ lists[Len(lists)].word = word
    BY <1>1, <1>2 DEF CalmInv, Searched
  <1>4. items' = Answer(bookmarks, favorite, lists[1].word)
    <2>1. PICK new \in {lists[k].was, Result(lists[k].word)} : Show(new, cells)
      BY DEF ListAnswered
    <2>2. new = Answer(bookmarks, favorite, lists[1].word)
      BY <1>1, <1>3, <2>1, ResultAnswer
    <2>3. items' = new
      BY <2>1 DEF Show
    <2> QED
      BY <2>2, <2>3
  <1>5. /\ lists' \in Seq(Search) /\ Len(lists') = Len(lists) - 1
        /\ DOMAIN lists' = 1..(Len(lists) - 1)
        /\ \A i \in 1..(Len(lists) - 1) : lists'[i] = lists[i + 1]
    <2>1. lists' = RemoveAt(lists, 1) /\ 1 \in DOMAIN lists
      BY <1>1 DEF ListAnswered
    <2>2. \A i \in 1..(Len(lists) - 1) : ~(i < 1)
      BY <1>2
    <2> QED
      BY <1>2, <2>1, <2>2, RemoveProperties
  <1>6. lists' = <<>> => items' = Answer(bookmarks, favorite, word)
    <2>1. lists' = <<>> => Len(lists) = 1
      BY <1>2, <1>5
    <2> QED
      BY <1>3, <1>4, <2>1
  <1>7. lists' # <<>> => lists'[Len(lists')].word = word
    <2> SUFFICES ASSUME lists' # <<>>
                 PROVE  lists'[Len(lists')].word = word
      OBVIOUS
    <2>1. Len(lists') \in 1..(Len(lists) - 1) /\ Len(lists') + 1 = Len(lists)
      BY <1>2, <1>5
    <2> QED
      BY <1>3, <1>5, <2>1
  <1>8. \A j \in DOMAIN lists' :
          lists'[j].was = Answer(bookmarks, favorite, lists'[j].word)
    BY <1>2, <1>3, <1>5
  <1> QED
    BY <1>1, <1>6, <1>7, <1>8 DEF Searched, Toggled, Current

LEMMA CalmListFailed ==
  ASSUME TypeOK, CalmInv, NEW k \in DOMAIN lists, ListFailed(k), UNCHANGED bookmarks
  PROVE  CalmInv'
  <1> SUFFICES ASSUME calm'
               PROVE  Searched' /\ Toggled'
    BY DEF CalmInv
  <1>1. calm /\ k < Len(lists) /\ UNCHANGED <<toggles, favorite, word, items>>
        /\ lists' = RemoveAt(lists, k)
    BY DEF ListFailed
  <1>2. lists # <<>> /\ lists \in Seq(Search) /\ Len(lists) \in Nat /\ k \in 1..Len(lists)
    BY DEF TypeOK
  <1>3. toggles = <<>>
    BY <1>1, <1>2 DEF CalmInv, Toggled
  <1>4. /\ \A j \in DOMAIN lists :
             lists[j].was = Answer(bookmarks, favorite, lists[j].word)
        /\ lists[Len(lists)].word = word
    BY <1>1, <1>2, <1>3 DEF CalmInv, Searched
  <1>5. /\ lists' \in Seq(Search) /\ Len(lists') = Len(lists) - 1
        /\ DOMAIN lists' = 1..(Len(lists) - 1)
        /\ \A i \in 1..(Len(lists) - 1) :
             lists'[i] = IF i < k THEN lists[i] ELSE lists[i + 1]
    BY <1>1, <1>2, RemoveProperties
  <1>6. lists' # <<>> /\ lists'[Len(lists')].word = word
    <2>1. Len(lists') \in 1..(Len(lists) - 1) /\ Len(lists') + 1 = Len(lists)
          /\ ~(Len(lists') < k)
      BY <1>1, <1>2, <1>5
    <2>2. lists'[Len(lists')] = lists[Len(lists)]
      BY <1>5, <2>1
    <2> QED
      BY <1>4, <1>5, <2>1, <2>2
  <1>7. \A j \in DOMAIN lists' :
          lists'[j].was = Answer(bookmarks, favorite, lists'[j].word)
    BY <1>2, <1>4, <1>5
  <1> QED
    BY <1>1, <1>3, <1>6, <1>7 DEF Searched, Toggled

LEMMA CalmTapped ==
  ASSUME TypeOK, CalmInv, NEW i \in DOMAIN cells, TapBookmark(i), UNCHANGED bookmarks
  PROVE  CalmInv'
  <1> SUFFICES ASSUME calm'
               PROVE  Searched' /\ Toggled'
    BY DEF CalmInv
  <1>1. calm /\ lists = <<>> /\ toggles = <<>> /\ UNCHANGED <<lists, favorite, word, items>>
    BY DEF TapBookmark, Quiet
  <1>2. items = Current /\ Current' = Current
    BY <1>1 DEF CalmInv, Searched, Current
  <1>3. CASE cells[i].at \in DOMAIN items
    <2> DEFINE t == [at |-> cells[i].at, items |-> items, stage |-> "favorite", was |-> FALSE]
    <2>1. toggles' = <<t>>
      BY <1>1, <1>3 DEF TapBookmark
    <2>2. toggles' # <<>> /\ Len(toggles') = 1 /\ toggles'[1].items = items
          /\ toggles'[1].stage = "favorite"
      BY <2>1
    <2> QED
      BY <1>1, <1>2, <2>2 DEF Searched, Toggled
  <1>4. CASE cells[i].at \notin DOMAIN items
    <2>1. toggles' = <<>>
      BY <1>1, <1>4 DEF TapBookmark
    <2> QED
      BY <1>1, <1>2, <2>1 DEF Searched, Toggled
  <1> QED
    BY <1>3, <1>4

\* Flipping an event of a search changes that one item of its answer.
LEMMA FlippedAnswer ==
  ASSUME NEW b, ~b, NEW w \in Words, NEW f \in SUBSET Events, NEW g \in SUBSET Events,
         NEW t \in Toggle, t.at \in DOMAIN t.items, t.items = Answer(b, f, w),
         \A e \in Events : e # t.items[t.at].event => (e \in f <=> e \in g)
  PROVE  Rewritten(t, t.items[t.at].event \in g) = Answer(b, g, w)
  <1> DEFINE hits == Matches[w]
             at   == t.at
             Told(e, h) == [event |-> e, fav |-> e \in h]
  <1>1. hits \in Seq(Events) /\ \A i, j \in DOMAIN hits : hits[i] = hits[j] => i = j
    BY MatchesAssumption DEF IsInjective
  <1>2. /\ Answer(b, f, w) = [i \in DOMAIN hits |-> Told(hits[i], f)]
        /\ Answer(b, g, w) = [i \in DOMAIN hits |-> Told(hits[i], g)]
    BY DEF Answer
  <1>3. \A i \in DOMAIN hits : hits[i] \in Events
    BY <1>1
  <1>4. \A e, h : Told(e, h).event = e
    OBVIOUS
  <1>5. \A e, h : [Told(e, h) EXCEPT !.fav = e \in g] = Told(e, g)
    OBVIOUS
  <1>6. ASSUME NEW i \in DOMAIN hits, hits[i] \in f <=> hits[i] \in g
        PROVE  Told(hits[i], f) = Told(hits[i], g)
    BY <1>6
  <1> HIDE DEF hits, Told
  <1>7. /\ DOMAIN t.items = DOMAIN hits /\ at \in DOMAIN hits
        /\ \A i \in DOMAIN hits : t.items[i] = Told(hits[i], f)
    BY <1>2
  <1>8. t.items[at].event = hits[at]
    BY <1>4, <1>7
  <1>9. Changed(t, hits[at] \in g) = Told(hits[at], g)
    BY <1>5, <1>7 DEF Changed
  <1>10. ASSUME NEW i \in DOMAIN hits, i # at
         PROVE  t.items[i] = Told(hits[i], g)
    <2>1. hits[i] # hits[at]
      BY <1>1, <1>7, <1>10
    <2>2. hits[i] \in f <=> hits[i] \in g
      BY <1>3, <1>8, <2>1
    <2> QED
      BY <1>6, <1>7, <2>2
  <1>11. Rewritten(t, hits[at] \in g) = [t.items EXCEPT ![at] = Told(hits[at], g)]
    BY <1>9 DEF Rewritten
  <1>12. t.items = [i \in DOMAIN hits |-> Told(hits[i], f)]
    BY <1>2
  <1>13. [t.items EXCEPT ![at] = Told(hits[at], g)] = [i \in DOMAIN hits |-> Told(hits[i], g)]
    BY <1>7, <1>10, <1>12
  <1> QED
    BY <1>2, <1>8, <1>11, <1>13

\* Writing back what a list had changes nothing.
LEMMA SameRewritten ==
  ASSUME NEW t \in Toggle, t.at \in DOMAIN t.items
  PROVE  Rewritten(t, t.items[t.at].fav) = t.items
  <1>1. t.items \in Seq(Item) /\ t.items[t.at] \in Item
    BY DEF Toggle
  <1>2. Changed(t, t.items[t.at].fav) = t.items[t.at]
    BY <1>1 DEF Changed, Item
  <1> QED
    BY <1>1, <1>2 DEF Rewritten

LEMMA CalmFavoriteOk ==
  ASSUME TypeOK, CalmInv, NEW k \in DOMAIN toggles, FavoriteOk(k), UNCHANGED bookmarks
  PROVE  CalmInv'
  <1> SUFFICES ASSUME calm'
               PROVE  Searched' /\ Toggled'
    BY DEF CalmInv
  <1>1. calm /\ UNCHANGED <<lists, word, items>> /\ toggles[k].stage = "favorite"
        /\ Flip(toggles[k].items[toggles[k].at].event)
    BY DEF FavoriteOk
  <1>2. toggles # <<>> /\ Len(toggles) = 1 /\ k = 1 /\ lists = <<>>
    <2>1. toggles # <<>>
      OBVIOUS
    <2> QED
      BY <1>1, <2>1 DEF CalmInv, Toggled, TypeOK
  <1> DEFINE e == toggles[1].items[toggles[1].at].event
  <1>3. /\ e \in Events /\ favorite' \subseteq Events /\ favorite \subseteq Events
        /\ toggles' \in Seq(Toggle) /\ Len(toggles') = 1
        /\ toggles'[1].at = toggles[1].at /\ toggles'[1].items = toggles[1].items
        /\ toggles'[1].stage = "details" /\ toggles'[1].was = (e \in favorite')
    BY <1>2, FavoriteOkType DEF TypeOK
  <1>4. ASSUME ~bookmarks
        PROVE  /\ toggles'[1].items = items
               /\ toggles'[1].was = (items[toggles'[1].at].event \in favorite')
               /\ Rewritten(toggles'[1], toggles'[1].was) = Answer(bookmarks, favorite', word)
    <2>1. toggles[1].items = items /\ items = Answer(bookmarks, favorite, word)
      BY <1>1, <1>2, <1>4 DEF CalmInv, Toggled, Current
    <2>2. toggles'[1] \in Toggle /\ toggles'[1].at \in DOMAIN toggles'[1].items
      BY <1>2, <1>3, ToggleType
    <2>3. \A x \in Events : x # e => (x \in favorite <=> x \in favorite')
      BY <1>1, <1>2 DEF Flip
    <2>4. word \in Words
      BY DEF TypeOK
    <2>5. Rewritten(toggles'[1], e \in favorite') = Answer(bookmarks, favorite', word)
      BY <1>3, <1>4, <2>1, <2>2, <2>3, <2>4, FlippedAnswer
    <2>6. Rewritten(toggles'[1], toggles'[1].was) = Rewritten(toggles'[1], e \in favorite')
      BY <1>3, Zenon
    <2>7. Rewritten(toggles'[1], toggles'[1].was) = Answer(bookmarks, favorite', word)
      BY <2>5, <2>6, Zenon
    <2>8. /\ toggles'[1].items = items
          /\ toggles'[1].was = (items[toggles'[1].at].event \in favorite')
      BY <1>3, <2>1
    <2> QED
      BY <2>7, <2>8
  <1>5. toggles' # <<>>
    <2>1. Len(toggles') = 1
      BY <1>3
    <2> QED
      BY <2>1
  <1>6. Current' = Answer(bookmarks, favorite', word)
    BY <1>1 DEF Current
  <1> QED
    BY <1>1, <1>2, <1>3, <1>4, <1>5, <1>6 DEF Searched, Toggled

LEMMA CalmWrittenBack ==
  ASSUME TypeOK, CalmInv, NEW k \in DOMAIN toggles,
         FavoriteFailed(k) \/ DetailsAnswered(k), UNCHANGED bookmarks
  PROVE  CalmInv'
  <1> SUFFICES ASSUME calm'
               PROVE  Searched' /\ Toggled'
    BY DEF CalmInv
  <1>1. calm /\ UNCHANGED <<word, favorite>> /\ Reloaded /\ toggles' = RemoveAt(toggles, k)
    BY DEF FavoriteFailed, DetailsAnswered
  <1>2. toggles # <<>> /\ Len(toggles) = 1 /\ k = 1 /\ lists = <<>>
    <2>1. toggles # <<>>
      OBVIOUS
    <2> QED
      BY <1>1, <2>1 DEF CalmInv, Toggled, TypeOK
  <1>3. toggles' = <<>>
    BY <1>1, <1>2, ToggleEnds
  <1>4. Current' = Current
    BY <1>1 DEF Current
  <1>5. CASE bookmarks
    <2>1. /\ lists' \in Seq(Search) /\ Len(lists') = 1
          /\ lists'[1].word = word /\ lists'[1].was = Answer(bookmarks, favorite, word)
      <3>1. Len(lists) = 0 /\ word \in Words /\ Send(word)
        BY <1>1, <1>2, <1>5 DEF Reloaded, TypeOK
      <3>2. /\ lists' \in Seq(Search) /\ Len(lists') = Len(lists) + 1
            /\ lists'[Len(lists')].word = word
            /\ lists'[Len(lists')].was = Answer(bookmarks, favorite, word)
        BY <3>1, SentAnswer
      <3> QED
        BY <3>1, <3>2
    <2>2. lists' # <<>> /\ \A j \in DOMAIN lists' : j = 1
      BY <2>1
    <2> QED
      BY <1>1, <1>3, <2>1, <2>2 DEF Searched, Toggled
  <1>6. CASE ~bookmarks
    <2>1. lists' = <<>>
      BY <1>1, <1>2, <1>6 DEF Reloaded
    <2>2. toggles[1].items = items /\ toggles[1] \in Toggle
          /\ toggles[1].at \in DOMAIN toggles[1].items
      BY <1>1, <1>2, <1>6, ToggleType DEF CalmInv, Toggled
    <2>3. CASE FavoriteFailed(k)
      <3>1. items = Current
        BY <1>1, <1>2, <1>6, <2>3 DEF CalmInv, Toggled, FavoriteFailed
      <3>2. items' = Rewritten(toggles[1], toggles[1].items[toggles[1].at].fav)
        BY <1>2, <2>3, ToggleType, WroteBackType DEF FavoriteFailed
      <3>3. items' = Current
        BY <2>2, <3>1, <3>2, SameRewritten
      <3> QED
        BY <1>3, <1>4, <2>1, <3>3 DEF Searched, Toggled
    <2>4. CASE DetailsAnswered(k)
      <3>1. /\ toggles[1].was = (items[toggles[1].at].event \in favorite)
            /\ Rewritten(toggles[1], toggles[1].was) = Current
        BY <1>1, <1>2, <1>6, <2>4 DEF CalmInv, Toggled, DetailsAnswered
      <3>2. WriteBack(toggles[1], toggles[1].was)
        BY <1>2, <2>2, <2>4, <3>1 DEF DetailsAnswered
      <3>3. toggles[1].was \in BOOLEAN
        BY <1>2, ToggleType
      <3>4. items' = Current
        BY <1>2, <3>1, <3>2, <3>3, WroteBackType
      <3> QED
        BY <1>3, <1>4, <2>1, <3>4 DEF Searched, Toggled
    <2> QED
      BY <2>3, <2>4
  <1> QED
    BY <1>5, <1>6

LEMMA CalmStep ==
  ASSUME TypeOK, CalmInv, Next
  PROVE  CalmInv'
  <1>0. UNCHANGED bookmarks /\ word \in Words
    BY DEF Next, TypeOK
  <1>1. ASSUME NEW w \in Words, SetWord(w)
        PROVE  CalmInv'
    BY <1>0, <1>1, CalmSend DEF SetWord
  <1>2. CASE Refresh \/ Appear
    BY <1>0, <1>2, CalmSend DEF Refresh, Appear
  <1>3. ASSUME UNCHANGED <<favorite, word, items, lists, toggles, calm>>
        PROVE  CalmInv'
    BY <1>0, <1>3 DEF CalmInv, Searched, Toggled, Current
  <1>4. ASSUME Disappear \/ \E i \in DOMAIN cells : Redraw(i)
        PROVE  CalmInv'
    BY <1>3, <1>4 DEF Disappear, Redraw
  <1>5. ASSUME NEW k \in DOMAIN toggles, DetailsFailed(k)
        PROVE  CalmInv'
    BY <1>5 DEF DetailsFailed, CalmInv
  <1>6. ASSUME NEW e, ToggledElsewhere(e)
        PROVE  CalmInv'
    BY <1>6 DEF ToggledElsewhere, CalmInv
  <1> QED
    BY <1>0, <1>1, <1>2, <1>4, <1>5, <1>6, CalmListAnswered, CalmListFailed, CalmTapped,
       CalmFavoriteOk, CalmWrittenBack
    DEF Next

(* With nothing in flight the list is what the server would answer now:    *)
(* the last word searched for and every bookmark as it is, if the answers  *)
(* came in the order of the searches and a toggle only when there was      *)
(* nothing else - whatever failed, was refused or was asked again.         *)
THEOREM SettledCorrect == Spec => []Settled
  <1>1. Init => CalmInv
    BY DEF Init, CalmInv
  <1>2. CalmInv /\ UNCHANGED vars => CalmInv'
    BY DEF CalmInv, Searched, Toggled, Current, vars
  <1>3. CalmInv => Settled
    BY ResultAnswer DEF CalmInv, Searched, Current, Settled, Quiet
  <1> QED
    BY <1>1, <1>2, <1>3, CalmStep, TypeCorrect, PTL DEF Spec
=============================================================================
