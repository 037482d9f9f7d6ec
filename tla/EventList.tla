------------------------------- MODULE EventList -------------------------------
(***************************************************************************)
(* A list of events: the search tab, the bookmarks and the applications.   *)
(* Results of searches replace the list in the order they arrive; a tap on *)
(* a bookmark button asks the server, then writes the list it was tapped   *)
(* in back, with that one event changed.  The cells on screen are not      *)
(* drawn anew when the list changes around them.                           *)
(***************************************************************************)
EXTENDS Integers, Sequences, SequencesExt

CONSTANTS
  Events,     (* events of the team                                       *)
  Words,      (* what can be searched for: a keyword with a filter        *)
  Matches,    (* the events the server finds for a word, in its order     *)
  Bookmarked, (* the events of a set in the order the server lists them,  *)
              (* when they are what is bookmarked                         *)
  All,        (* the word that asks for everything                        *)
  MaxLists,   (* bound: searches in flight                                *)
  MaxToggles, (* bound: bookmark toggles in flight, by kind of list       *)
  Elsewhere   (* bound: the events that other screens toggle as well, by  *)
              (* kind of list                                             *)

ASSUME MatchesAssumption ==
  /\ Matches \in [Words -> Seq(Events)] /\ \A w \in Words : IsInjective(Matches[w])
  /\ All \in Words
ASSUME BookmarkedAssumption ==
  /\ Bookmarked \in [SUBSET Events -> Seq(Events)]
  /\ \A S \in SUBSET Events : IsInjective(Bookmarked[S]) /\ ToSet(Bookmarked[S]) = S
ASSUME BoundsAssumption ==
  /\ MaxLists \in Nat /\ MaxToggles \in [BOOLEAN -> Nat]
  /\ Elsewhere \in [BOOLEAN -> SUBSET Events]

VARIABLES
  bookmarks, (* this is the list of bookmarks, which asks for what is     *)
             (* bookmarked and which a toggle reloads; it never changes   *)
  favorite,  (* server: the bookmarked events                             *)
  word,      (* SearchViewStream: keyword and filter                      *)
  items,     (* currentEvents: events, each with its isBookmark           *)
  cells,     (* the cell of each item: the index path it was configured   *)
             (* with, the event it shows, its button                      *)
  window,    (* the list is in the window                                 *)
  lists,     (* searches in flight, in the order they were sent           *)
  toggles,   (* toggles in flight, in the order they were sent            *)
  dead,      (* an index was out of range                                 *)
  shifted,   (* history: a cell was kept at another place than it had     *)
  deaf,      (* history: a toggle ended without telling                   *)
  calm       (* history: since a search with nothing in flight, no answer *)
             (* came out of order, no toggle overlapped with anything,    *)
             (* and nothing was bookmarked elsewhere                      *)

vars == <<bookmarks, favorite, word, items, cells, window, lists, toggles, dead, shifted, deaf, calm>>

-----------------------------------------------------------------------------
(* State                                                                   *)

Item   == [event : Events, fav : BOOLEAN]
Cell   == [at : Nat \ {0}, event : Events, on : BOOLEAN]
Search == [word : Words, was : Seq(Item)]
Toggle == [at : Nat \ {0}, items : Seq(Item), stage : {"favorite", "details"},
           was : BOOLEAN]

\* What the server answers a search now.
Result(w) ==
  LET hits == IF bookmarks THEN Bookmarked[favorite] ELSE Matches[w]
  IN  [i \in DOMAIN hits |-> [event |-> hits[i], fav |-> hits[i] \in favorite]]

Init ==
  /\ bookmarks \in BOOLEAN /\ favorite \in SUBSET Events
  /\ word \in IF bookmarks THEN {All} ELSE Words
  /\ items = <<>> /\ cells = <<>> /\ window = FALSE
  /\ lists = <<>> /\ toggles = <<>>
  /\ dead = FALSE /\ shifted = FALSE /\ deaf = FALSE /\ calm = FALSE

-----------------------------------------------------------------------------
(* Searches                                                                *)

Quiet == lists = <<>> /\ toggles = <<>>

\* combineLatest of keyword, filter and reload: each change of one sends all.
Send(w) ==
  /\ Len(lists) < MaxLists
  /\ lists' = Append(lists, [word |-> w, was |-> Result(w)])

Calmly == calm' = (Quiet \/ (calm /\ toggles = <<>>))

\* A new keyword or filter.
SetWord(w) ==
  /\ window /\ ~bookmarks /\ word' = w /\ Send(w) /\ Calmly
  /\ UNCHANGED <<favorite, items, cells, window, toggles, dead, shifted, deaf>>

\* The list is pulled down.
Refresh ==
  /\ window /\ ~bookmarks /\ Send(word) /\ Calmly
  /\ UNCHANGED <<favorite, word, items, cells, window, toggles, dead, shifted, deaf>>

\* viewWillAppear reloads; that comes before the list is in the window.
Appear ==
  /\ ~window /\ window' = TRUE /\ Send(word) /\ Calmly
  /\ UNCHANGED <<favorite, word, items, cells, toggles, dead, shifted, deaf>>

Disappear ==
  /\ window /\ window' = FALSE
  /\ UNCHANGED <<favorite, word, items, cells, lists, toggles, dead, shifted, deaf, calm>>

-----------------------------------------------------------------------------
(* The data source of the collection view                                  *)

OffByOne(new, i) == [at |-> i - 1, event |-> new[i].event, on |-> new[i].fav]  \* mutant
\* cellSetup; the cell keeps the index path for its button and for updateCell.
Fresh(new, i) == [at |-> i, event |-> new[i].event, on |-> new[i].fav]

\* In the window, cells are kept for the items that are in the old list and in
\* the new one with the same identity, that is with all they show.
Kept(new, i) == {j \in DOMAIN items : items[j] = new[i]}

\* drawn: the cells of the old list.
Show(new, drawn) ==
  LET kept(i) == IF window THEN Kept(new, i) ELSE {}
      at(i)   == CHOOSE j \in kept(i) : TRUE
  IN  /\ items' = new
      /\ cells' = [i \in DOMAIN new |->
                     IF kept(i) = {} THEN Fresh(new, i) ELSE drawn[at(i)]]
      /\ shifted' = (window /\ (shifted \/ \E i \in DOMAIN new :
                                              kept(i) # {} /\ at(i) # i))

\* A cell that was scrolled away comes back, configured for its place.
Redraw(i) ==
  /\ window /\ i \in DOMAIN cells
  /\ cells' = [cells EXCEPT ![i] = Fresh(items, i)]
  /\ UNCHANGED <<favorite, word, items, window, lists, toggles, dead, shifted, deaf, calm>>

\* setEvents, whichever search it answers.
ListAnswered(k) ==
  /\ \E new \in {lists[k].was, Result(lists[k].word)} : Show(new, cells)
  /\ lists' = RemoveAt(lists, k)
  /\ calm' = (calm /\ k = 1 /\ toggles = <<>>)
  /\ UNCHANGED <<favorite, word, window, toggles, dead, deaf>>

ListFailed(k) ==
  /\ lists' = RemoveAt(lists, k)
  /\ calm' = (calm /\ k < Len(lists))
  /\ UNCHANGED <<favorite, word, items, cells, window, toggles, dead, shifted, deaf>>

-----------------------------------------------------------------------------
(* Bookmarks                                                               *)

\* The button changes at once; the view stream reads the list at the index
\* path of the cell, which ends the process if the list is shorter by now.
TapBookmark(i) ==
  /\ window /\ i \in DOMAIN cells /\ Len(toggles) < MaxToggles[bookmarks]
  /\ cells' = [cells EXCEPT ![i].on = ~@]
  /\ LET at == cells[i].at
     IN  IF at \in DOMAIN items
           THEN /\ toggles' = Append(toggles, [at |-> at, items |-> items,
                                               stage |-> "favorite", was |-> FALSE])
                /\ UNCHANGED dead
           ELSE dead' = TRUE /\ UNCHANGED toggles
  /\ calm' = (calm /\ Quiet)
  /\ UNCHANGED <<favorite, word, items, window, lists, shifted, deaf>>

NotUpdated(at, item) == cells                                        \* mutant
EachUpdated(at, item) ==                                             \* mutant
  [j \in DOMAIN cells |-> [cells[j] EXCEPT !.event = item.event, !.on = item.fav]]
\* updateCell reaches every cell configured with that index path.
Updated(at, item) ==
  [j \in DOMAIN cells |-> IF cells[j].at = at
                            THEN [cells[j] EXCEPT !.event = item.event, !.on = item.fav]
                            ELSE cells[j]]

\* The list as it was when the button was tapped, with that item changed.
WriteBack(t, fav) ==
  LET item == [t.items[t.at] EXCEPT !.fav = fav]
  IN  Show([t.items EXCEPT ![t.at] = item], Updated(t.at, item))

NotReloaded == UNCHANGED lists                                       \* mutant
\* The list of bookmarks reloads on updateCell.
Reloaded == IF bookmarks THEN Send(word) ELSE UNCHANGED lists

Flip(e) == favorite' = IF e \in favorite THEN favorite \ {e} ELSE favorite \union {e}

\* The toggle of the detail screen, or of another list, is served.
ToggledElsewhere(e) ==
  /\ Flip(e) /\ calm' = FALSE
  /\ UNCHANGED <<word, items, cells, window, lists, toggles, dead, shifted, deaf>>

FavoriteOk(k) ==
  LET e == toggles[k].items[toggles[k].at].event
  IN  /\ toggles[k].stage = "favorite"
      /\ Flip(e)
      /\ toggles' = [toggles EXCEPT ![k].stage = "details", ![k].was = e \in favorite']
      /\ UNCHANGED <<word, items, cells, window, lists, dead, shifted, deaf, calm>>

\* Refused, or lost on either way.
FavoriteFailed(k) ==
  LET item == toggles[k].items[toggles[k].at]
  IN  /\ toggles[k].stage = "favorite"
      /\ \/ UNCHANGED favorite /\ calm' = calm
         \/ Flip(item.event) /\ calm' = FALSE
      /\ WriteBack(toggles[k], item.fav) /\ Reloaded
      /\ toggles' = RemoveAt(toggles, k)
      /\ UNCHANGED <<word, window, dead, deaf>>

DetailsAnswered(k) ==
  /\ toggles[k].stage = "details"
  /\ \E fav \in {toggles[k].was, toggles[k].items[toggles[k].at].event \in favorite} :
       WriteBack(toggles[k], fav)
  /\ Reloaded
  /\ toggles' = RemoveAt(toggles, k)
  /\ UNCHANGED <<favorite, word, window, dead, deaf, calm>>

DetailsFailed(k) ==
  /\ toggles[k].stage = "details"
  /\ toggles' = RemoveAt(toggles, k)
  /\ deaf' = TRUE /\ calm' = FALSE
  /\ UNCHANGED <<favorite, word, items, cells, window, lists, dead, shifted>>

-----------------------------------------------------------------------------
(* Specification                                                           *)

Next ==
  /\ ~dead /\ UNCHANGED bookmarks
  /\ \/ \E w \in Words : SetWord(w)
     \/ Refresh \/ Appear \/ Disappear
     \/ \E e \in Elsewhere[bookmarks] : ToggledElsewhere(e)
     \/ \E k \in DOMAIN lists : ListAnswered(k) \/ ListFailed(k)
     \/ \E i \in DOMAIN cells : Redraw(i) \/ TapBookmark(i)
     \/ \E k \in DOMAIN toggles :
          \/ FavoriteOk(k) \/ FavoriteFailed(k)
          \/ DetailsAnswered(k) \/ DetailsFailed(k)

Spec == Init /\ [][Next]_vars

-----------------------------------------------------------------------------
(* Properties                                                              *)

(* Types, and one cell for each item.                                      *)
TypeOK ==
  /\ bookmarks \in BOOLEAN /\ favorite \subseteq Events /\ word \in Words
  /\ items \in Seq(Item) /\ cells \in Seq(Cell) /\ Len(cells) = Len(items)
  /\ lists \in Seq(Search) /\ toggles \in Seq(Toggle)
  /\ \A k \in DOMAIN toggles : toggles[k].at \in DOMAIN toggles[k].items
  /\ {window, dead, shifted, deaf, calm} \subseteq BOOLEAN

(* A tap reaches the event the cell shows, and no index is out of range,   *)
(* unless the list changed its order or length around a cell on screen.    *)
InPlace ==
  ~shifted => /\ ~dead
              /\ \A i \in DOMAIN cells :
                   cells[i].at = i /\ cells[i].event = items[i].event

(* With no toggle in flight the buttons tell what the items tell, unless   *)
(* the details after a toggle did not come.                                *)
ButtonsTell ==
  toggles = <<>> /\ ~shifted /\ ~deaf =>
    \A i \in DOMAIN cells : cells[i].on = items[i].fav

(* With nothing in flight the list is what the server would answer now, if *)
(* answers came in the order of the searches, a toggle only when there was *)
(* nothing else, and since the last search none from elsewhere.            *)
Settled == Quiet /\ calm => items = Result(word)
=============================================================================
