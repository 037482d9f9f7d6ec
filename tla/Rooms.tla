-------------------------------- MODULE Rooms --------------------------------
(***************************************************************************)
(* The talk rooms: the polling loop of RootViewStream, the rooms relay of  *)
(* RoomModel, the ids of matched rooms kept in UserDefaults, and the list  *)
(* TalkRoomViewStream shows.                                               *)
(*                                                                         *)
(* A room is matched when an event of its title has as many places as the  *)
(* room has participants.  Each list of rooms that arrives is compared     *)
(* with the stored ids: ids it lacks are removed at once, ids it adds are  *)
(* looked up among the events, and appended when the answer comes - in     *)
(* whatever order the answers come, by then under whatever account.  The   *)
(* account and the tab bar change as Account, which Session implements,    *)
(* lets them.                                                              *)
(***************************************************************************)
EXTENDS Integers, Sequences, SequencesExt

CONSTANTS
  Rooms,       (* ids of rooms                                            *)
  Accounts,    (* accounts that sign in on this phone                     *)
  RoomsOf,     (* RoomsOf[a]: the rooms the server can list to a          *)
  None,        (* nobody is signed in                                     *)
  Slots,       (* room requests that can be in flight at once             *)
  MaxLookups,  (* bound: lookups in flight                                *)
  MaxMatches,  (* bound: events of one title that are full                *)
  MaxChanges,  (* bound: changes of the server's lists                    *)
  MaxKills     (* bound: times the system kills the process               *)

ASSUME RoomsAssumption == /\ None \notin Accounts /\ IsFiniteSet(Rooms)
                          /\ RoomsOf \in [Accounts -> SUBSET Rooms]
ASSUME BoundsAssumption == /\ MaxLookups \in Nat \ {0} /\ MaxMatches \in Nat \ {0}
                           /\ MaxChanges \in Nat /\ MaxKills \in Nat

VARIABLES
  account,     (* the account whose headers the requests carry, or None   *)
  tab,         (* the tab bar, and with it TalkRoomViewStream, is alive   *)
  observing,   (* the polling loop and its subscription run               *)
  listed,      (* server: the list of rooms of each account               *)
  rooms,       (* the rooms relay of RoomModel                            *)
  roomIds,     (* UserDefaults: ids of the matched rooms                  *)
  shown,       (* the rooms the talk tab lists                            *)
  fetches,     (* Slots -> the list an answer in flight carries, and for  *)
               (* whom, or Idle                                           *)
  lookups,     (* lookups in flight, by room and the account they ask as  *)
  twice,       (* history: rooms looked up twice at once or matched twice *)
  late,        (* history: since the last sign-out with no lookup in      *)
               (* flight, an answer came under another account, or the    *)
               (* account changed without a sign-out                      *)
  changes, kills

vars == <<account, tab, observing, listed, rooms, roomIds, shown, fetches,
          lookups, twice, late, changes, kills>>
server  == <<listed, changes>>
history == <<twice, late>>

Acc == INSTANCE Account

-----------------------------------------------------------------------------
(* State                                                                   *)

Idle    == [who |-> None]
Lookup  == Rooms \X Accounts
Nothing == [q \in Lookup |-> 0]
InFlight(bag) == {p \in Lookup \X (1..MaxLookups) : p[2] <= bag[p[1]]}

\* The lists the server can answer to a: no room twice, in any order.
Lists(a) == UNION {SetToSeqs(S) : S \in SUBSET RoomsOf[a]}
Answer   == UNION {[who : {a}, list : Lists(a)] : a \in Accounts}

Init ==
  /\ Acc!Init /\ observing = FALSE
  /\ listed \in [Accounts -> UNION {Lists(a) : a \in Accounts}]
  /\ \A a \in Accounts : listed[a] \in Lists(a)
  /\ rooms = <<>> /\ roomIds = <<>> /\ shown = {}
  /\ fetches = [s \in Slots |-> Idle]
  /\ lookups = Nothing
  /\ twice = {} /\ late = FALSE
  /\ changes = 0

-----------------------------------------------------------------------------
(* The comparison of the stored ids with a list                            *)

\* k is what is left of seq when some of its elements are removed.
Remains(k, seq) ==
  \E at \in [DOMAIN k -> DOMAIN seq] :
    /\ \A i, j \in DOMAIN k : i < j => at[i] < at[j]
    /\ \A i \in DOMAIN k : k[i] = seq[at[i]]

KeptAll(old, new) == {old}                                           \* mutant
\* difference(from:) removes as few ids as possible: it keeps a longest common
\* subsequence.  Which one, where there are several, is left open.
Kept(old, new) ==
  LET common == {k \in SeqOf(ToSet(new), Len(new)) : Remains(k, old) /\ Remains(k, new)}
  IN  {k \in common : \A j \in common : Len(j) <= Len(k)}

InsertedAll(kept, new) == ToSet(new)                                 \* mutant
Inserted(kept, new)    == ToSet(new) \ ToSet(kept)

\* The rooms of a list that are matched, in its order, which is left out; before and after are the stored ids
\* around the handler of RootViewStream, which subscribed to rooms first.
JoinedBefore(list, before, after) ==                                 \* mutant
  ToSet(list) \intersect ToSet(before)
Joined(list, before, after) == ToSet(list) \intersect ToSet(after)

LookedUp(r) == \E a \in Accounts : lookups[<<r, a>>] > 0

LookNever(new) == UNCHANGED <<lookups, twice>>                       \* mutant
\* getEvents(word: title) for every inserted room.  Without an account the
\* server refuses it, which changes nothing.
LookUp(new) ==
  /\ lookups' = [q \in Lookup |->
                   lookups[q] + IF q[1] \in new /\ q[2] = account THEN 1 ELSE 0]
  /\ Cardinality(InFlight(lookups)) + Cardinality(new) <= MaxLookups
  /\ twice' = twice \union {r \in new : LookedUp(r)}

\* The subscription to rooms, which begins with observe and skips the value
\* the relay has by then.
Compare(list) ==
  \E kept \in Kept(roomIds, list) : roomIds' = kept /\ LookUp(Inserted(kept, list))

-----------------------------------------------------------------------------
(* Requests                                                                *)

\* launchApp and observe, one second after the start
Observe ==
  /\ ~observing /\ observing' = TRUE
  /\ UNCHANGED <<account, tab, server, rooms, roomIds, shown, fetches, lookups,
                 history, kills>>

\* fetchRoom, from the loop every 5 s and from the talk tab when it appears.
\* The server answers 401 without an account, which fetchRoom ignores.
FetchRoom(s) ==
  /\ observing /\ account # None /\ fetches[s] = Idle
  /\ fetches' = [fetches EXCEPT ![s] = [who |-> account, list |-> listed[account]]]
  /\ UNCHANGED <<account, tab, observing, server, rooms, roomIds, shown, lookups,
                 history, kills>>

\* getRooms succeeds with a list that is not empty.
RoomsAnswered(s) ==
  /\ fetches[s] # Idle /\ fetches[s].list # <<>>
  /\ fetches' = [fetches EXCEPT ![s] = Idle]
  /\ rooms' = fetches[s].list
  /\ \/ observing /\ Compare(fetches[s].list)
     \/ ~observing /\ UNCHANGED <<roomIds, lookups, twice>>
  /\ shown' = IF tab THEN Joined(fetches[s].list, roomIds, roomIds') ELSE shown
  /\ late' = (late \/ fetches[s].who # account)
  /\ UNCHANGED <<account, tab, observing, server, kills>>

\* getRooms says nothing of an empty list or a body it cannot decode, and
\* fetchRoom ignores an error.
RoomsIgnored(s) ==
  /\ fetches[s] # Idle
  /\ fetches' = [fetches EXCEPT ![s] = Idle]
  /\ UNCHANGED <<account, tab, observing, server, rooms, roomIds, shown, lookups,
                 history, kills>>

AskedAgain(r, a) == lookups' = [lookups EXCEPT ![<<r, a>>] = @ - 1]    \* mutant
Asked(r, a) == lookups[<<r, a>>] > 0 /\ lookups' = [lookups EXCEPT ![<<r, a>>] = @ - 1]

\* n of the events with the room's title are full: each raises the match
\* screen and appends the id.
LookupMatched(r, a) ==
  /\ Asked(r, a)
  /\ \E n \in 1..MaxMatches :
       /\ roomIds' = roomIds \o [i \in 1..n |-> r]
       /\ twice' = IF n > 1 THEN twice \union {r} ELSE twice
  /\ late' = (late \/ a # account)
  /\ UNCHANGED <<account, tab, observing, server, rooms, shown, fetches, kills>>

\* None is full yet, or the request failed.
LookupUnmatched(r, a) ==
  /\ Asked(r, a)
  /\ UNCHANGED <<account, tab, observing, server, rooms, roomIds, shown, fetches,
                 history, kills>>

-----------------------------------------------------------------------------
(* The account, the process and the server                                 *)

\* A tab bar comes up: a new TalkRoomViewStream starts from the relay.
ShowTab == shown' = Joined(rooms, roomIds, roomIds)

\* The answer may find somebody else signed in; what is kept is kept.
SignIn(a) ==
  /\ observing /\ Acc!SignIn(a)
  /\ \/ tab' /\ ShowTab
     \/ tab' = tab /\ UNCHANGED shown
  /\ late' = (late \/ account \notin {None, a})
  /\ UNCHANGED <<observing, server, rooms, roomIds, fetches, lookups, twice>>

KeepIds == UNCHANGED roomIds                                         \* mutant
\* resetALL: it removes the ids, and leaves the relay of RoomModel.
ResetIds == roomIds' = <<>>

\* clearUserData, at logout or when the automatic sign-in is refused
SignOut ==
  /\ observing /\ Acc!SignOut
  /\ ResetIds /\ shown' = {}
  /\ late' = (late /\ lookups # Nothing)
  /\ UNCHANGED <<observing, server, rooms, fetches, lookups, twice>>

\* The process dies, maybe in the middle of resetALL, and starts again.
\* RoomModel.init fetches at once.
Restart ==
  /\ kills < MaxKills /\ Acc!Restart
  /\ observing' = FALSE
  /\ rooms' = <<>> /\ shown' = {} /\ lookups' = Nothing
  /\ ResetIds \/ UNCHANGED roomIds
  /\ late' = (late \/ account \notin {None, account'})
  /\ \/ account' = None /\ fetches' = [s \in Slots |-> Idle]
     \/ /\ account' # None
        /\ \E s \in Slots : fetches' = [[t \in Slots |-> Idle] EXCEPT
                              ![s] = [who |-> account', list |-> listed[account']]]
  /\ UNCHANGED <<server, twice>>

\* Rooms are joined, left or reordered on the server.
ListChanges(a) ==
  /\ changes < MaxChanges /\ changes' = changes + 1
  /\ \E list \in Lists(a) : listed' = [listed EXCEPT ![a] = list]
  /\ UNCHANGED <<account, tab, observing, rooms, roomIds, shown, fetches, lookups,
                 history, kills>>

-----------------------------------------------------------------------------
(* Specification                                                           *)

FetchAnswer(s)     == RoomsAnswered(s) \/ RoomsIgnored(s)
LookupAnswer(r, a) == LookupMatched(r, a) \/ LookupUnmatched(r, a)

Next ==
  \/ Observe \/ SignOut \/ Restart
  \/ \E a \in Accounts : SignIn(a) \/ ListChanges(a)
  \/ \E s \in Slots : FetchRoom(s) \/ FetchAnswer(s)
  \/ \E r \in Rooms, a \in Accounts : LookupAnswer(r, a)

Spec == Init /\ [][Next]_vars

\* Fairness.  The loop never stops, and every request ends.  A server asked
\* for the list again and again answers now and then, and so do lookups of a
\* room whose event is full.
Fairness ==
  /\ WF_vars(Observe)
  /\ \A s \in Slots : /\ WF_vars(FetchRoom(s)) /\ WF_vars(FetchAnswer(s))
                      /\ SF_vars(RoomsAnswered(s))
  /\ \A r \in Rooms, a \in Accounts : /\ WF_vars(LookupAnswer(r, a))
                                      /\ SF_vars(LookupMatched(r, a))

FairSpec == Spec /\ Fairness

-----------------------------------------------------------------------------
(* Properties                                                              *)

Once(seq) == \A i, j \in DOMAIN seq : seq[i] = seq[j] => i = j

(* Types.  Every list is one the server can have sent.                     *)
TypeOK ==
  /\ account \in Accounts \union {None} /\ tab \in BOOLEAN /\ observing \in BOOLEAN
  /\ listed \in [Accounts -> Seq(Rooms)] /\ \A a \in Accounts : listed[a] \in Lists(a)
  /\ rooms \in Seq(Rooms) /\ roomIds \in Seq(Rooms) /\ shown \subseteq Rooms
  /\ fetches \in [Slots -> Answer \union {Idle}]
  /\ lookups \in [Lookup -> Nat]
  /\ twice \subseteq Rooms /\ late \in BOOLEAN
  /\ changes \in 0..MaxChanges /\ kills \in 0..MaxKills

(* The talk tab never lists a room whose id is no longer stored, though    *)
(* the list and the ids change in different handlers: whatever removes an  *)
(* id redraws or removes the list in the same step.                        *)
ShownJoined == shown \subseteq ToSet(roomIds)

(* An id is stored twice only if the room was looked up twice at once,     *)
(* because a list arrived before the lookups of the one before ended, or   *)
(* if two full events had its title.                                       *)
DuplicateSource ==
  \A i, j \in DOMAIN roomIds : i # j /\ roomIds[i] = roomIds[j] => roomIds[i] \in twice

(* Unless an answer outlives the account that asked, or an account is      *)
(* replaced without a sign-out, the ids kept and the rooms shown are rooms *)
(* of the account that is signed in - or none, after a sign-out.           *)
OwnRooms ==
  account # None /\ ~late =>
    ToSet(roomIds) \union shown \subseteq RoomsOf[account]

(* A list that arrives heals the stored ids: no id stays twice, and none   *)
(* stays that the list does not have.                                      *)
ListHeals ==
  [][\A s \in Slots : observing /\ RoomsAnswered(s) =>
       Once(roomIds') /\ ToSet(roomIds') \subseteq ToSet(rooms')]_vars

(* A matched room of the account is stored again and again: no removal,    *)
(* late list or reordering loses it for good.                              *)
MatchIsKept ==
  \A a \in Accounts, r \in Rooms :
    <>[](account = a /\ r \in ToSet(listed[a])) => []<>(r \in ToSet(roomIds))

(* A room that has left the server's list is forgotten in the end, as long *)
(* as the list is not empty: fetchRoom ignores an empty one.               *)
LeftIsForgotten ==
  \A a \in Accounts, r \in Rooms :
    <>[](account = a /\ listed[a] # <<>> /\ r \notin ToSet(listed[a]))
      => <>[](r \notin ToSet(roomIds))
=============================================================================
