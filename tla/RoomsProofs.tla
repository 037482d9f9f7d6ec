----------------------------- MODULE RoomsProofs -----------------------------
(* Theorems about Rooms, for every finite set of rooms, every set of        *)
(* accounts and slots, and every bound: the types, the rooms the talk tab   *)
(* lists, when an id can be stored twice, whose ids are stored, and what a  *)
(* list that arrives does to them.                                          *)
EXTENDS Rooms, FiniteSetTheorems, SequenceTheorems, TLAPS

-----------------------------------------------------------------------------
(* Lists of rooms                                                          *)

LEMMA FunctionSeq ==
  ASSUME NEW T, NEW n \in Nat, NEW f \in [1..n -> T]
  PROVE  f \in Seq(T) /\ Len(f) = n
  OBVIOUS

LEMMA ToSetMember ==
  ASSUME NEW T, NEW seq \in Seq(T)
  PROVE  /\ ToSet(seq) \subseteq T
         /\ \A i \in DOMAIN seq : seq[i] \in ToSet(seq)
         /\ \A x \in ToSet(seq) : \E i \in DOMAIN seq : seq[i] = x
  BY DEF ToSet

\* A list of the server has rooms of its account, and none twice.
LEMMA ListFacts ==
  ASSUME NEW a \in Accounts, NEW list \in Lists(a)
  PROVE  list \in Seq(Rooms) /\ Once(list) /\ ToSet(list) \subseteq RoomsOf[a]
  <1>1. PICK S \in SUBSET RoomsOf[a] : list \in SetToSeqs(S)
    BY DEF Lists
  <1>2. S \subseteq Rooms /\ IsFiniteSet(S)
    BY RoomsAssumption, FS_Subset
  <1>3. Cardinality(S) \in Nat
    BY <1>2, FS_CardinalityType
  <1>4. /\ list \in [1..Cardinality(S) -> S]
        /\ \A i, j \in 1..Cardinality(S) : i # j => list[i] # list[j]
    BY <1>1 DEF SetToSeqs
  <1>5. list \in Seq(S) /\ Len(list) = Cardinality(S)
    BY <1>3, <1>4, FunctionSeq
  <1>6. list \in Seq(Rooms)
    BY <1>2, <1>5
  <1>7. Once(list)
    BY <1>4 DEF Once
  <1>8. ToSet(list) \subseteq RoomsOf[a]
    BY <1>5, ToSetMember
  <1> QED
    BY <1>6, <1>7, <1>8

\* Removing elements adds none, and makes no two equal.
LEMMA RemainsFacts ==
  ASSUME NEW k \in Seq(Rooms), NEW seq \in Seq(Rooms), Remains(k, seq)
  PROVE  /\ ToSet(k) \subseteq ToSet(seq)
         /\ Once(seq) => Once(k)
  <1>1. PICK at \in [DOMAIN k -> DOMAIN seq] :
          /\ \A i, j \in DOMAIN k : i < j => at[i] < at[j]
          /\ \A i \in DOMAIN k : k[i] = seq[at[i]]
    BY DEF Remains
  <1>2. DOMAIN k \subseteq Nat /\ DOMAIN seq \subseteq Nat
    OBVIOUS
  <1>3. ASSUME NEW x \in ToSet(k)
        PROVE  x \in ToSet(seq)
    BY <1>1 DEF ToSet
  <1>4. ASSUME Once(seq), NEW i \in DOMAIN k, NEW j \in DOMAIN k, k[i] = k[j]
        PROVE  i = j
    <2>1. at[i] = at[j]
      BY <1>1, <1>4 DEF Once
    <2> QED
      BY <1>1, <1>2, <2>1
  <1> QED
    BY <1>3, <1>4 DEF Once

LEMMA CandidateSeq ==
  ASSUME NEW list \in Seq(Rooms), NEW k \in SeqOf(ToSet(list), Len(list))
  PROVE  k \in Seq(Rooms)
  <1>1. PICK n \in 0..Len(list) : k \in [1..n -> ToSet(list)]
    BY DEF SeqOf
  <1>2. n \in Nat /\ ToSet(list) \subseteq Rooms
    BY ToSetMember
  <1>3. k \in [1..n -> Rooms]
    BY <1>1, <1>2
  <1> QED
    BY <1>2, <1>3, FunctionSeq

LEMMA KeptFacts ==
  ASSUME NEW old \in Seq(Rooms), NEW list \in Seq(Rooms), Once(list),
         NEW kept \in Kept(old, list)
  PROVE  /\ kept \in Seq(Rooms) /\ Once(kept)
         /\ ToSet(kept) \subseteq ToSet(old) /\ ToSet(kept) \subseteq ToSet(list)
  <1>1. kept \in SeqOf(ToSet(list), Len(list)) /\ Remains(kept, old) /\ Remains(kept, list)
    BY DEF Kept
  <1>2. kept \in Seq(Rooms)
    BY <1>1, CandidateSeq
  <1> QED
    BY <1>1, <1>2, RemainsFacts

\* An id appended n times.
LEMMA AppendFacts ==
  ASSUME NEW ids \in Seq(Rooms), NEW r \in Rooms, NEW n \in Nat \ {0}
  PROVE  LET more == ids \o [i \in 1..n |-> r]
         IN  /\ more \in Seq(Rooms) /\ ToSet(more) = ToSet(ids) \union {r}
             /\ \A i, j \in DOMAIN more :
                  i # j /\ more[i] = more[j] =>
                    \/ more[i] = r /\ (n > 1 \/ r \in ToSet(ids))
                    \/ /\ i \in DOMAIN ids /\ more[i] = ids[i]
                       /\ j \in DOMAIN ids /\ more[j] = ids[j]
  <1> DEFINE copies == [i \in 1..n |-> r]
             more   == ids \o copies
  <1>1. copies \in Seq(Rooms) /\ Len(copies) = n
    <2>1. copies \in [1..n -> Rooms]
      OBVIOUS
    <2> QED
      BY <2>1, FunctionSeq
  <1>2. \A i \in 1..n : copies[i] = r
    OBVIOUS
  <1> HIDE DEF copies
  <1>3. /\ more \in Seq(Rooms) /\ Len(more) = Len(ids) + n
        /\ \A i \in 1..(Len(ids) + n) :
             more[i] = IF i <= Len(ids) THEN ids[i] ELSE copies[i - Len(ids)]
    BY <1>1, ConcatProperties
  <1> HIDE DEF more
  <1>4. DOMAIN more = 1..(Len(ids) + n) /\ Len(ids) \in Nat /\ DOMAIN ids = 1..Len(ids)
    BY <1>3
  <1>5. \A i \in DOMAIN ids : i \in DOMAIN more /\ more[i] = ids[i]
    BY <1>3, <1>4
  <1>6. ASSUME NEW i \in DOMAIN more, i \notin DOMAIN ids
        PROVE  i > Len(ids) /\ more[i] = r
    <2>1. i > Len(ids) /\ i - Len(ids) \in 1..n
      BY <1>4, <1>6
    <2> QED
      BY <1>2, <1>3, <1>4, <2>1
  <1>7. ToSet(more) = ToSet(ids) \union {r}
    <2>1. Len(ids) + 1 \in DOMAIN more /\ Len(ids) + 1 \notin DOMAIN ids
      BY <1>4
    <2>2. r \in ToSet(more)
      BY <1>6, <2>1 DEF ToSet
    <2>3. ToSet(ids) \subseteq ToSet(more)
      BY <1>5 DEF ToSet
    <2>4. ToSet(more) \subseteq ToSet(ids) \union {r}
      BY <1>5, <1>6 DEF ToSet
    <2> QED
      BY <2>2, <2>3, <2>4
  <1>8. ASSUME NEW i \in DOMAIN more, NEW j \in DOMAIN more, i # j, more[i] = more[j],
               ~(more[i] = r /\ (n > 1 \/ r \in ToSet(ids)))
        PROVE  /\ i \in DOMAIN ids /\ more[i] = ids[i]
               /\ j \in DOMAIN ids /\ more[j] = ids[j]
    <2>1. CASE more[i] # r
      BY <1>5, <1>6, <1>8, <2>1
    <2>2. CASE more[i] = r
      <3>1. n = 1 /\ r \notin ToSet(ids)
        BY <1>8, <2>2
      <3>2. i \notin DOMAIN ids /\ j \notin DOMAIN ids
        BY <1>5, <1>8, <2>2, <3>1 DEF ToSet
      <3>3. i = Len(ids) + 1 /\ j = Len(ids) + 1
        BY <1>4, <3>1, <3>2
      <3> QED
        BY <1>8, <3>3
    <2> QED
      BY <2>1, <2>2
  <1> QED
    BY <1>3, <1>7, <1>8 DEF more, copies

-----------------------------------------------------------------------------
(* Types                                                                   *)

LEMMA AnswerFacts ==
  ASSUME NEW answer \in Answer \union {Idle}, answer # Idle
  PROVE  /\ answer.who \in Accounts /\ answer.list \in Lists(answer.who)
         /\ answer.list \in Seq(Rooms) /\ Once(answer.list)
         /\ ToSet(answer.list) \subseteq RoomsOf[answer.who]
  <1>1. PICK a \in Accounts : answer \in [who : {a}, list : Lists(a)]
    BY DEF Answer
  <1>2. answer.who = a /\ answer.list \in Lists(a)
    BY <1>1
  <1> QED
    BY <1>2, ListFacts

LEMMA RequestType ==
  ASSUME NEW a \in Accounts, NEW list \in Lists(a)
  PROVE  [who |-> a, list |-> list] \in Answer
  <1>1. [who |-> a, list |-> list] \in [who : {a}, list : Lists(a)]
    OBVIOUS
  <1> QED
    BY <1>1 DEF Answer

LEMMA LookUpFacts ==
  ASSUME TypeOK, NEW new \in SUBSET Rooms, LookUp(new)
  PROVE  /\ lookups' \in [Lookup -> Nat]
         /\ \A r \in Rooms, a \in Accounts :
              lookups'[<<r, a>>]
                = lookups[<<r, a>>] + IF r \in new /\ a = account THEN 1 ELSE 0
         /\ twice' = twice \union {r \in new : LookedUp(r)}
         /\ twice' \subseteq Rooms
  <1>1. lookups' = [q \in Lookup |->
                      lookups[q] + IF q[1] \in new /\ q[2] = account THEN 1 ELSE 0]
    BY DEF LookUp
  <1>2. \A q \in Lookup : lookups[q] \in Nat
    BY DEF TypeOK
  <1>3. lookups' \in [Lookup -> Nat]
    BY <1>1, <1>2
  <1>4. ASSUME NEW r \in Rooms, NEW a \in Accounts
        PROVE  lookups'[<<r, a>>]
                 = lookups[<<r, a>>] + IF r \in new /\ a = account THEN 1 ELSE 0
    <2>1. <<r, a>> \in Lookup
      BY DEF Lookup
    <2> QED
      BY <1>1, <2>1
  <1>5. twice' = twice \union {r \in new : LookedUp(r)} /\ twice' \subseteq Rooms
    BY DEF LookUp, TypeOK
  <1> QED
    BY <1>3, <1>4, <1>5

\* What a list that arrives does to the stored ids and the lookups.
LEMMA CompareFacts ==
  ASSUME TypeOK, NEW list \in Seq(Rooms), Once(list), Compare(list)
  PROVE  /\ roomIds' \in Seq(Rooms) /\ Once(roomIds')
         /\ ToSet(roomIds') \subseteq ToSet(roomIds)
         /\ ToSet(roomIds') \subseteq ToSet(list)
         /\ LookUp(ToSet(list) \ ToSet(roomIds'))
         /\ ToSet(list) \ ToSet(roomIds') \in SUBSET Rooms
  <1>1. PICK kept \in Kept(roomIds, list) :
          roomIds' = kept /\ LookUp(Inserted(kept, list))
    BY DEF Compare
  <1>2. roomIds \in Seq(Rooms)
    BY DEF TypeOK
  <1>3. /\ kept \in Seq(Rooms) /\ Once(kept)
        /\ ToSet(kept) \subseteq ToSet(roomIds) /\ ToSet(kept) \subseteq ToSet(list)
    BY <1>2, KeptFacts
  <1>4. LookUp(ToSet(list) \ ToSet(kept))
    BY <1>1 DEF Inserted
  <1>5. ToSet(list) \subseteq Rooms
    BY ToSetMember
  <1> QED
    BY <1>1, <1>3, <1>4, <1>5

LEMMA AskedType ==
  ASSUME TypeOK, NEW r \in Rooms, NEW a \in Accounts, Asked(r, a)
  PROVE  /\ <<r, a>> \in Lookup /\ lookups[<<r, a>>] \in Nat \ {0}
         /\ lookups' = [lookups EXCEPT ![<<r, a>>] = @ - 1]
         /\ lookups' \in [Lookup -> Nat]
  <1>1. <<r, a>> \in Lookup
    BY DEF Lookup
  <1>2. lookups \in [Lookup -> Nat]
    BY DEF TypeOK
  <1>3. lookups[<<r, a>>] \in Nat \ {0}
    BY <1>1, <1>2 DEF Asked
  <1>4. lookups' = [lookups EXCEPT ![<<r, a>>] = @ - 1]
    BY DEF Asked
  <1>5. lookups[<<r, a>>] - 1 \in Nat
    BY <1>3
  <1>6. lookups' \in [Lookup -> Nat]
    BY <1>1, <1>2, <1>4, <1>5
  <1> QED
    BY <1>1, <1>3, <1>4, <1>6

LEMMA NothingType == Nothing \in [Lookup -> Nat]
  BY DEF Nothing

LEMMA NothingFacts ==
  ASSUME NEW r \in Rooms, NEW a \in Accounts
  PROVE  Nothing[<<r, a>>] <= 1 /\ ~(Nothing[<<r, a>>] > 0)
  <1>1. Nothing[<<r, a>>] = 0
    BY DEF Nothing, Lookup
  <1> QED
    BY <1>1

LEMMA InitType == Init => TypeOK
  <1> SUFFICES ASSUME Init
               PROVE  TypeOK
    OBVIOUS
  <1>1. account = None /\ tab = FALSE /\ kills = 0
    BY DEF Init, Acc!Init
  <1>2. listed \in [Accounts -> Seq(Rooms)]
    <2>1. UNION {Lists(a) : a \in Accounts} \subseteq Seq(Rooms)
      BY ListFacts
    <2> QED
      BY <2>1 DEF Init
  <1>3. fetches \in [Slots -> Answer \union {Idle}]
    BY DEF Init
  <1>4. <<>> \in Seq(Rooms)
    OBVIOUS
  <1>5. rooms \in Seq(Rooms) /\ roomIds \in Seq(Rooms) /\ shown \subseteq Rooms
    BY <1>4 DEF Init
  <1>6. changes \in 0..MaxChanges /\ kills \in 0..MaxKills
    BY <1>1, BoundsAssumption DEF Init
  <1>7. lookups \in [Lookup -> Nat]
    BY NothingType DEF Init
  <1>8. twice \subseteq Rooms /\ late \in BOOLEAN /\ observing \in BOOLEAN
    BY DEF Init
  <1>9. \A a \in Accounts : listed[a] \in Lists(a)
    BY DEF Init
  <1> QED
    BY <1>1, <1>2, <1>3, <1>5, <1>6, <1>7, <1>8, <1>9 DEF TypeOK

LEMMA AnsweredType ==
  ASSUME TypeOK, NEW s \in Slots, RoomsAnswered(s)
  PROVE  TypeOK'
  <1> DEFINE list == fetches[s].list
  <1>1. list \in Seq(Rooms) /\ Once(list)
    BY AnswerFacts DEF TypeOK, RoomsAnswered
  <1> HIDE DEF list
  <1>2. roomIds' \in Seq(Rooms) /\ lookups' \in [Lookup -> Nat] /\ twice' \subseteq Rooms
    <2>1. CASE observing
      <3>1. Compare(list)
        BY <2>1 DEF RoomsAnswered, list
      <3> QED
        BY <1>1, <3>1, CompareFacts, LookUpFacts
    <2>2. CASE ~observing
      BY <2>2 DEF RoomsAnswered, TypeOK
    <2> QED
      BY <2>1, <2>2
  <1>3. rooms' = list /\ rooms' \in Seq(Rooms)
    BY <1>1 DEF RoomsAnswered, list
  <1>4. shown' \subseteq Rooms
    <2>1. ToSet(list) \subseteq Rooms
      BY <1>1, ToSetMember
    <2>2. shown' = (IF tab THEN Joined(list, roomIds, roomIds') ELSE shown)
      BY DEF RoomsAnswered, list
    <2> QED
      BY <2>1, <2>2 DEF Joined, TypeOK
  <1>5. fetches' \in [Slots -> Answer \union {Idle}]
    BY DEF RoomsAnswered, TypeOK
  <1>6. late' \in BOOLEAN
    BY DEF RoomsAnswered, TypeOK
  <1>7. UNCHANGED <<account, tab, observing, listed, changes, kills>>
    BY DEF RoomsAnswered, server
  <1> QED
    BY <1>2, <1>3, <1>4, <1>5, <1>6, <1>7 DEF TypeOK

LEMMA MatchedType ==
  ASSUME TypeOK, NEW r \in Rooms, NEW a \in Accounts, LookupMatched(r, a)
  PROVE  TypeOK'
  <1>1. lookups' \in [Lookup -> Nat]
    BY AskedType DEF LookupMatched
  <1>2. PICK n \in 1..MaxMatches :
          /\ roomIds' = roomIds \o [i \in 1..n |-> r]
          /\ twice' = IF n > 1 THEN twice \union {r} ELSE twice
    BY DEF LookupMatched
  <1>3. n \in Nat /\ [i \in 1..n |-> r] \in [1..n -> Rooms]
    BY BoundsAssumption
  <1>4. [i \in 1..n |-> r] \in Seq(Rooms)
    BY <1>3, FunctionSeq
  <1>5. roomIds' \in Seq(Rooms)
    BY <1>2, <1>4, ConcatProperties DEF TypeOK
  <1>6. twice' \subseteq Rooms /\ late' \in BOOLEAN
    BY <1>2 DEF LookupMatched, TypeOK
  <1> QED
    BY <1>1, <1>5, <1>6 DEF LookupMatched, TypeOK, server

LEMMA MatchedIds ==
  ASSUME TypeOK, NEW r \in Rooms, NEW a \in Accounts, LookupMatched(r, a)
  PROVE  ToSet(roomIds') = ToSet(roomIds) \union {r}
  <1>1. PICK n \in 1..MaxMatches : roomIds' = roomIds \o [i \in 1..n |-> r]
    BY DEF LookupMatched
  <1>2. n \in Nat \ {0} /\ roomIds \in Seq(Rooms)
    BY BoundsAssumption DEF TypeOK
  <1> QED
    BY <1>1, <1>2, AppendFacts

LEMMA AccountType ==
  ASSUME TypeOK
  PROVE  /\ \A a \in Accounts : SignIn(a) => TypeOK'
         /\ SignOut => TypeOK'
  <1>1. ASSUME NEW a \in Accounts, SignIn(a)
        PROVE  TypeOK'
    <2>1. account' \in Accounts /\ tab' \in BOOLEAN /\ kills' = kills
      BY <1>1 DEF SignIn, Acc!SignIn, TypeOK
    <2>2. shown' \subseteq Rooms
      <3>1. ToSet(rooms) \subseteq Rooms
        BY ToSetMember DEF TypeOK
      <3> QED
        BY <1>1, <3>1 DEF SignIn, ShowTab, Joined, TypeOK
    <2>3. late' \in BOOLEAN
      BY <1>1 DEF SignIn, TypeOK
    <2> QED
      BY <1>1, <2>1, <2>2, <2>3 DEF SignIn, TypeOK, server
  <1>2. ASSUME SignOut
        PROVE  TypeOK'
    <2>1. account' = None /\ tab' = FALSE /\ kills' = kills
      BY <1>2 DEF SignOut, Acc!SignOut
    <2>2. roomIds' \in Seq(Rooms) /\ shown' \subseteq Rooms /\ late' \in BOOLEAN
      BY <1>2 DEF SignOut, ResetIds, TypeOK
    <2> QED
      BY <1>2, <2>1, <2>2 DEF SignOut, TypeOK, server
  <1> QED
    BY <1>1, <1>2

LEMMA RestartType ==
  ASSUME TypeOK, Restart
  PROVE  TypeOK'
  <1>1. /\ account' \in Accounts \union {None} /\ tab' = FALSE
        /\ kills' = kills + 1 /\ kills' \in 0..MaxKills
    BY BoundsAssumption DEF Restart, Acc!Restart, TypeOK
  <1>2. rooms' \in Seq(Rooms) /\ roomIds' \in Seq(Rooms) /\ shown' \subseteq Rooms
    <2>1. <<>> \in Seq(Rooms)
      OBVIOUS
    <2>2. rooms' = <<>> /\ shown' = {} /\ (roomIds' = <<>> \/ roomIds' = roomIds)
      BY DEF Restart, ResetIds
    <2> QED
      BY <2>1, <2>2 DEF TypeOK
  <1>3. lookups' \in [Lookup -> Nat]
    BY NothingType DEF Restart
  <1>4. fetches' \in [Slots -> Answer \union {Idle}]
    <2>1. CASE fetches' = [s \in Slots |-> Idle]
      BY <2>1
    <2>2. ASSUME account' # None, NEW s \in Slots,
                 fetches' = [[t \in Slots |-> Idle] EXCEPT
                               ![s] = [who |-> account', list |-> listed[account']]]
          PROVE  fetches' \in [Slots -> Answer \union {Idle}]
      <3>1. account' \in Accounts
        BY <1>1, <2>2
      <3>2. listed[account'] \in Lists(account')
        BY <3>1 DEF TypeOK
      <3>3. [who |-> account', list |-> listed[account']] \in Answer
        BY <3>1, <3>2, RequestType
      <3> QED
        BY <2>2, <3>3
    <2> QED
      BY <2>1, <2>2 DEF Restart
  <1>5. late' \in BOOLEAN /\ observing' \in BOOLEAN
    BY DEF Restart, TypeOK
  <1> QED
    BY <1>1, <1>2, <1>3, <1>4, <1>5 DEF Restart, TypeOK, server

LEMMA FetchType ==
  ASSUME TypeOK, NEW s \in Slots, FetchRoom(s)
  PROVE  TypeOK'
  <1>1. account \in Accounts
    BY DEF FetchRoom, TypeOK
  <1>2. [who |-> account, list |-> listed[account]] \in Answer
    BY <1>1, RequestType DEF TypeOK
  <1>3. fetches' \in [Slots -> Answer \union {Idle}]
    BY <1>2 DEF FetchRoom, TypeOK
  <1> QED
    BY <1>3 DEF FetchRoom, TypeOK, server, history

LEMMA ServerType ==
  ASSUME TypeOK, NEW a \in Accounts, ListChanges(a)
  PROVE  TypeOK'
  <1>1. PICK list \in Lists(a) : listed' = [listed EXCEPT ![a] = list]
    BY DEF ListChanges
  <1>2. list \in Seq(Rooms)
    BY ListFacts
  <1>3. /\ listed' \in [Accounts -> Seq(Rooms)]
        /\ \A b \in Accounts : listed'[b] \in Lists(b)
    BY <1>1, <1>2 DEF TypeOK
  <1>4. changes' \in 0..MaxChanges
    BY BoundsAssumption DEF ListChanges, TypeOK
  <1> QED
    BY <1>3, <1>4 DEF ListChanges, TypeOK, history


LEMMA StepType ==
  ASSUME TypeOK, [Next]_vars
  PROVE  TypeOK'
  <1>1. CASE Observe
    BY <1>1 DEF Observe, TypeOK, server, history
  <1>2. CASE SignOut
    BY <1>2, AccountType
  <1>3. CASE Restart
    BY <1>3, RestartType
  <1>4. ASSUME NEW a \in Accounts, SignIn(a) \/ ListChanges(a)
        PROVE  TypeOK'
    BY <1>4, AccountType, ServerType
  <1>5. ASSUME NEW s \in Slots, FetchRoom(s)
        PROVE  TypeOK'
    BY <1>5, FetchType
  <1>6. ASSUME NEW s \in Slots, RoomsAnswered(s)
        PROVE  TypeOK'
    BY <1>6, AnsweredType
  <1>7. ASSUME NEW s \in Slots, RoomsIgnored(s)
        PROVE  TypeOK'
    <2>1. fetches' \in [Slots -> Answer \union {Idle}]
      BY <1>7 DEF RoomsIgnored, TypeOK
    <2> QED
      BY <1>7, <2>1 DEF RoomsIgnored, TypeOK, server, history
  <1>8. ASSUME NEW r \in Rooms, NEW a \in Accounts, LookupMatched(r, a)
        PROVE  TypeOK'
    BY <1>8, MatchedType
  <1>9. ASSUME NEW r \in Rooms, NEW a \in Accounts, LookupUnmatched(r, a)
        PROVE  TypeOK'
    <2>1. lookups' \in [Lookup -> Nat]
      BY <1>9, AskedType DEF LookupUnmatched
    <2> QED
      BY <1>9, <2>1 DEF LookupUnmatched, TypeOK, server, history
  <1>10. CASE UNCHANGED vars
    BY <1>10 DEF vars, TypeOK
  <1> QED
    BY <1>1, <1>2, <1>3, <1>4, <1>5, <1>6, <1>7, <1>8, <1>9, <1>10
       DEF Next, FetchAnswer, LookupAnswer

(* TypeOK is invariant: whatever answers come, the relay, the stored ids    *)
(* and the answers in flight are lists of rooms, the requests of the server *)
(* are for lists it can send, and no lookup is answered more often than it  *)
(* was asked.                                                               *)
THEOREM TypeCorrect == Spec => []TypeOK
  <1>1. Init => TypeOK
    BY InitType
  <1>2. TypeOK /\ [Next]_vars => TypeOK'
    BY StepType
  <1> QED
    BY <1>1, <1>2, PTL DEF Spec

-----------------------------------------------------------------------------
(* The list of the talk tab                                                *)

\* Without a tab bar there is no list.
TabInv == ShownJoined /\ (~tab => shown = {})

LEMMA StepTab ==
  ASSUME TypeOK, TabInv, [Next]_vars
  PROVE  TabInv'
  <1> USE DEF TabInv, ShownJoined
  <1>1. CASE Observe
    BY <1>1 DEF Observe
  <1>2. CASE SignOut
    BY <1>2 DEF SignOut
  <1>3. CASE Restart
    BY <1>3 DEF Restart
  <1>4. ASSUME NEW a \in Accounts, SignIn(a)
        PROVE  TabInv'
    <2>1. roomIds' = roomIds /\ tab' \in {tab, TRUE}
      BY <1>4 DEF SignIn, Acc!SignIn
    <2>2. CASE tab' /\ ShowTab
      BY <2>1, <2>2 DEF ShowTab, Joined
    <2>3. CASE tab' = tab /\ UNCHANGED shown
      BY <2>1, <2>3
    <2> QED
      BY <1>4, <2>2, <2>3 DEF SignIn
  <1>5. ASSUME NEW a \in Accounts, ListChanges(a)
        PROVE  TabInv'
    BY <1>5 DEF ListChanges
  <1>6. ASSUME NEW s \in Slots, FetchRoom(s) \/ RoomsIgnored(s)
        PROVE  TabInv'
    BY <1>6 DEF FetchRoom, RoomsIgnored
  <1>7. ASSUME NEW s \in Slots, RoomsAnswered(s)
        PROVE  TabInv'
    <2>1. tab' = tab
      BY <1>7 DEF RoomsAnswered
    <2>2. CASE tab
      <3>1. shown' = ToSet(fetches[s].list) \intersect ToSet(roomIds')
        BY <1>7, <2>2 DEF RoomsAnswered, Joined
      <3> QED
        BY <2>1, <2>2, <3>1
    <2>3. CASE ~tab
      <3>1. shown' = {}
        BY <1>7, <2>3 DEF RoomsAnswered
      <3> QED
        BY <3>1
    <2> QED
      BY <2>2, <2>3
  <1>8. ASSUME NEW r \in Rooms, NEW a \in Accounts, LookupMatched(r, a)
        PROVE  TabInv'
    <2>1. ToSet(roomIds) \subseteq ToSet(roomIds')
      BY <1>8, MatchedIds
    <2> QED
      BY <1>8, <2>1 DEF LookupMatched
  <1>9. ASSUME NEW r \in Rooms, NEW a \in Accounts, LookupUnmatched(r, a)
        PROVE  TabInv'
    BY <1>9 DEF LookupUnmatched
  <1>10. CASE UNCHANGED vars
    BY <1>10 DEF vars
  <1> QED
    BY <1>1, <1>2, <1>3, <1>4, <1>5, <1>6, <1>7, <1>8, <1>9, <1>10
       DEF Next, FetchAnswer, LookupAnswer

(* ShownJoined is invariant: the talk tab lists no room whose id is not     *)
(* stored.  A list that arrives redraws the tab after RootViewStream has    *)
(* removed ids, a sign-out takes the tab bar down, and a lookup only adds.  *)
THEOREM ShownCorrect == Spec => []ShownJoined
  <1>1. Init => TabInv
    BY DEF Init, TabInv, ShownJoined
  <1>2. TypeOK /\ TabInv /\ [Next]_vars => TabInv'
    BY StepTab
  <1>3. TabInv => ShownJoined
    BY DEF TabInv
  <1> QED
    BY <1>1, <1>2, <1>3, TypeCorrect, PTL DEF Spec


-----------------------------------------------------------------------------
(* Ids stored twice                                                        *)

\* A room that was never looked up twice is looked up or stored, and that once.
SingleInv ==
  \A r \in Rooms \ twice :
    /\ LookedUp(r) => r \notin ToSet(roomIds)
    /\ \A a \in Accounts : lookups[<<r, a>>] <= 1
    /\ \A a, b \in Accounts : lookups[<<r, a>>] > 0 /\ lookups[<<r, b>>] > 0 => a = b

OnceInv == DuplicateSource /\ SingleInv

LEMMA SameOnce ==
  ASSUME OnceInv, UNCHANGED <<roomIds, lookups, twice>>
  PROVE  OnceInv'
  BY DEF OnceInv, DuplicateSource, SingleInv, LookedUp

\* Ids that go, and rooms that are looked up because their id is not stored.
LEMMA CompareOnce ==
  ASSUME TypeOK, OnceInv, NEW list \in Seq(Rooms), Once(list), Compare(list)
  PROVE  OnceInv'
  <1> DEFINE new == ToSet(list) \ ToSet(roomIds')
  <1>1. /\ roomIds' \in Seq(Rooms) /\ Once(roomIds')
        /\ ToSet(roomIds') \subseteq ToSet(roomIds)
        /\ LookUp(new) /\ new \in SUBSET Rooms
    BY CompareFacts
  <1>2. DuplicateSource'
    BY <1>1 DEF DuplicateSource, Once
  <1>3. new \intersect ToSet(roomIds') = {}
    OBVIOUS
  <1> HIDE DEF new
  <1>4. /\ \A r \in Rooms, a \in Accounts :
             lookups'[<<r, a>>]
               = lookups[<<r, a>>] + IF r \in new /\ a = account THEN 1 ELSE 0
        /\ twice' = twice \union {r \in new : LookedUp(r)}
    BY <1>1, LookUpFacts
  <1>5. \A r \in Rooms, a \in Accounts : lookups[<<r, a>>] \in Nat
    BY DEF TypeOK, Lookup
  <1>6. ASSUME NEW r \in Rooms, r \notin twice'
        PROVE  /\ LookedUp(r)' => r \notin ToSet(roomIds)'
               /\ \A a \in Accounts : lookups'[<<r, a>>] <= 1
               /\ \A a, b \in Accounts :
                    lookups'[<<r, a>>] > 0 /\ lookups'[<<r, b>>] > 0 => a = b
    <2>1. r \notin twice /\ (r \in new => ~LookedUp(r))
      BY <1>4, <1>6
    <2>2. CASE r \in new
      <3>1. \A a \in Accounts : lookups[<<r, a>>] = 0
        BY <1>5, <2>1, <2>2 DEF LookedUp
      <3>2. \A a \in Accounts : lookups'[<<r, a>>] = IF a = account THEN 1 ELSE 0
        BY <1>4, <2>2, <3>1
      <3> QED
        BY <1>3, <2>2, <3>2
    <2>3. CASE r \notin new
      <3>1. \A a \in Accounts : lookups'[<<r, a>>] = lookups[<<r, a>>]
        BY <1>4, <1>5, <2>3
      <3>2. LookedUp(r)' <=> LookedUp(r)
        BY <3>1 DEF LookedUp
      <3> QED
        BY <1>1, <2>1, <3>1, <3>2 DEF OnceInv, SingleInv
    <2> QED
      BY <2>2, <2>3
  <1> QED
    BY <1>2, <1>6 DEF OnceInv, SingleInv

\* The lookup that is answered is gone, whatever the answer.
LEMMA AskedFacts ==
  ASSUME TypeOK, NEW r \in Rooms, NEW a \in Accounts, Asked(r, a)
  PROVE  /\ LookedUp(r)
         /\ \A q \in Rooms, b \in Accounts :
              lookups'[<<q, b>>] = lookups[<<q, b>>] - IF q = r /\ b = a THEN 1 ELSE 0
         /\ \A q \in Rooms : LookedUp(q)' => LookedUp(q)
         /\ SingleInv /\ r \notin twice => ~LookedUp(r)'
  <1>1. /\ <<r, a>> \in Lookup /\ lookups[<<r, a>>] \in Nat \ {0}
        /\ lookups' = [lookups EXCEPT ![<<r, a>>] = @ - 1]
    BY AskedType
  <1>2. \A q \in Rooms, b \in Accounts : <<q, b>> \in Lookup /\ lookups[<<q, b>>] \in Nat
    BY DEF TypeOK, Lookup
  <1>3. LookedUp(r)
    BY <1>1 DEF LookedUp
  <1>4. ASSUME NEW q \in Rooms, NEW b \in Accounts
        PROVE  lookups'[<<q, b>>] = lookups[<<q, b>>] - IF q = r /\ b = a THEN 1 ELSE 0
    <2>1. lookups \in [Lookup -> Nat] /\ <<q, b>> \in Lookup /\ lookups[<<q, b>>] \in Nat
      BY <1>2 DEF TypeOK
    <2>2. CASE q = r /\ b = a
      BY <1>1, <2>1, <2>2
    <2>3. CASE ~(q = r /\ b = a)
      <3>1. <<q, b>> # <<r, a>>
        BY <2>3
      <3>2. lookups'[<<q, b>>] = lookups[<<q, b>>]
        BY <1>1, <2>1, <3>1
      <3> QED
        BY <2>1, <2>3, <3>2
    <2> QED
      BY <2>2, <2>3
  <1>5. ASSUME NEW q \in Rooms, NEW b \in Accounts
        PROVE  lookups'[<<q, b>>] <= lookups[<<q, b>>]
    <2>1. lookups[<<q, b>>] \in Nat
      BY <1>2
    <2> QED
      BY <1>4, <2>1
  <1>6. ASSUME NEW q \in Rooms, LookedUp(q)'
        PROVE  LookedUp(q)
    <2>1. PICK b \in Accounts : lookups'[<<q, b>>] > 0
      BY <1>6 DEF LookedUp
    <2>2. lookups'[<<q, b>>] \in Int /\ lookups[<<q, b>>] \in Nat
      BY <1>2, <1>4
    <2> QED
      BY <1>5, <2>1, <2>2 DEF LookedUp
  <1>7. ASSUME SingleInv, r \notin twice, LookedUp(r)'
        PROVE  FALSE
    <2>1. PICK b \in Accounts : lookups'[<<r, b>>] > 0
      BY <1>7 DEF LookedUp
    <2>2. lookups[<<r, a>>] = 1
      BY <1>1, <1>7 DEF SingleInv
    <2>3. b # a
      BY <1>4, <2>1, <2>2
    <2>4. lookups[<<r, b>>] > 0 /\ lookups[<<r, a>>] > 0
      BY <1>2, <1>4, <2>1, <2>2, <2>3
    <2> QED
      BY <1>7, <2>3, <2>4 DEF SingleInv
  <1> QED
    BY <1>3, <1>4, <1>6, <1>7

\* Fewer lookups, and the ids of no room that is still looked up.
LEMMA AskedSingle ==
  ASSUME TypeOK, SingleInv, NEW r \in Rooms, NEW a \in Accounts, Asked(r, a),
         twice \subseteq twice', ToSet(roomIds)' \subseteq ToSet(roomIds) \union {r}
  PROVE  SingleInv'
  <1>1. /\ \A q \in Rooms, b \in Accounts :
             lookups'[<<q, b>>] = lookups[<<q, b>>] - IF q = r /\ b = a THEN 1 ELSE 0
        /\ \A q \in Rooms : LookedUp(q)' => LookedUp(q)
        /\ r \notin twice => ~LookedUp(r)'
    BY AskedFacts
  <1>2. \A q \in Rooms, b \in Accounts : lookups[<<q, b>>] \in Nat
    BY DEF TypeOK, Lookup
  <1>3. ASSUME NEW q \in Rooms, q \notin twice'
        PROVE  /\ LookedUp(q)' => q \notin ToSet(roomIds)'
               /\ \A b \in Accounts : lookups'[<<q, b>>] <= 1
               /\ \A b, c \in Accounts :
                    lookups'[<<q, b>>] > 0 /\ lookups'[<<q, c>>] > 0 => b = c
    <2>1. q \notin twice
      BY <1>3
    <2>2. LookedUp(q)' => q \notin ToSet(roomIds)'
      BY <1>1, <2>1 DEF SingleInv
    <2>3. \A b \in Accounts : /\ lookups'[<<q, b>>] <= lookups[<<q, b>>]
                              /\ lookups'[<<q, b>>] \in Int
      BY <1>1, <1>2
    <2>4. \A b \in Accounts : lookups'[<<q, b>>] <= 1
      BY <1>2, <2>1, <2>3 DEF SingleInv
    <2>5. \A b \in Accounts : lookups'[<<q, b>>] > 0 => lookups[<<q, b>>] > 0
      BY <1>2, <2>3
    <2>6. \A b, c \in Accounts :
            lookups'[<<q, b>>] > 0 /\ lookups'[<<q, c>>] > 0 => b = c
      BY <2>1, <2>5 DEF SingleInv
    <2> QED
      BY <2>2, <2>4, <2>6
  <1> QED
    BY <1>3 DEF SingleInv


LEMMA MatchedOnce ==
  ASSUME TypeOK, OnceInv, NEW r \in Rooms, NEW a \in Accounts, LookupMatched(r, a)
  PROVE  OnceInv'
  <1>1. PICK n \in 1..MaxMatches :
          /\ roomIds' = roomIds \o [i \in 1..n |-> r]
          /\ twice' = IF n > 1 THEN twice \union {r} ELSE twice
    BY DEF LookupMatched
  <1>2. n \in Nat \ {0} /\ roomIds \in Seq(Rooms)
    BY BoundsAssumption DEF TypeOK
  <1>3. Asked(r, a) /\ twice \subseteq twice'
    BY <1>1 DEF LookupMatched
  <1>4. SingleInv'
    BY <1>3, MatchedIds, AskedSingle DEF OnceInv
  <1>5. r \in ToSet(roomIds) => r \in twice
    BY <1>3, AskedFacts DEF OnceInv, SingleInv
  <1>6. ASSUME NEW i \in DOMAIN roomIds', NEW j \in DOMAIN roomIds',
               i # j, roomIds'[i] = roomIds'[j]
        PROVE  roomIds'[i] \in twice'
    <2>1. \/ roomIds'[i] = r /\ (n > 1 \/ r \in ToSet(roomIds))
          \/ /\ i \in DOMAIN roomIds /\ roomIds'[i] = roomIds[i]
             /\ j \in DOMAIN roomIds /\ roomIds'[j] = roomIds[j]
      BY <1>1, <1>2, <1>6, AppendFacts
    <2>2. CASE roomIds'[i] = r /\ (n > 1 \/ r \in ToSet(roomIds))
      BY <1>1, <1>3, <1>5, <2>2
    <2>3. CASE /\ i \in DOMAIN roomIds /\ roomIds'[i] = roomIds[i]
               /\ j \in DOMAIN roomIds /\ roomIds'[j] = roomIds[j]
      BY <1>3, <1>6, <2>3 DEF OnceInv, DuplicateSource
    <2> QED
      BY <2>1, <2>2, <2>3
  <1>7. DuplicateSource'
    BY <1>6 DEF DuplicateSource
  <1> QED
    BY <1>4, <1>7 DEF OnceInv

LEMMA UnmatchedOnce ==
  ASSUME TypeOK, OnceInv, NEW r \in Rooms, NEW a \in Accounts, LookupUnmatched(r, a)
  PROVE  OnceInv'
  <1>1. Asked(r, a) /\ twice' = twice /\ roomIds' = roomIds
    BY DEF LookupUnmatched, history
  <1>2. SingleInv'
    BY <1>1, AskedSingle DEF OnceInv
  <1> QED
    BY <1>1, <1>2 DEF OnceInv, DuplicateSource

\* The ids go, the lookups stay or go with the process.
LEMMA ResetOnce ==
  ASSUME TypeOK, OnceInv, twice' = twice,
         roomIds' = <<>> \/ roomIds' = roomIds,
         lookups' = Nothing \/ lookups' = lookups
  PROVE  OnceInv'
  <1>1. ToSet(<<>>) = {} /\ DOMAIN <<>> = {}
    BY DEF ToSet
  <1>2. ToSet(roomIds)' \subseteq ToSet(roomIds)
    BY <1>1
  <1>3. SingleInv'
    <2>1. CASE lookups' = Nothing
      BY <2>1, NothingFacts DEF SingleInv, LookedUp
    <2>2. CASE lookups' = lookups
      <3>1. \A r : LookedUp(r)' <=> LookedUp(r)
        BY <2>2 DEF LookedUp
      <3> QED
        BY <1>2, <2>2, <3>1 DEF OnceInv, SingleInv
    <2> QED
      BY <2>1, <2>2
  <1>4. DuplicateSource'
    BY <1>1 DEF OnceInv, DuplicateSource
  <1> QED
    BY <1>3, <1>4 DEF OnceInv

LEMMA StepOnce ==
  ASSUME TypeOK, OnceInv, [Next]_vars
  PROVE  OnceInv'
  <1>1. CASE Observe
    BY <1>1, SameOnce DEF Observe, history
  <1>2. CASE SignOut
    BY <1>2, ResetOnce DEF SignOut, ResetIds
  <1>3. CASE Restart
    BY <1>3, ResetOnce DEF Restart, ResetIds
  <1>4. ASSUME NEW a \in Accounts, SignIn(a) \/ ListChanges(a)
        PROVE  OnceInv'
    BY <1>4, SameOnce DEF SignIn, ListChanges, history
  <1>5. ASSUME NEW s \in Slots, FetchRoom(s) \/ RoomsIgnored(s)
        PROVE  OnceInv'
    BY <1>5, SameOnce DEF FetchRoom, RoomsIgnored, history
  <1>6. ASSUME NEW s \in Slots, RoomsAnswered(s)
        PROVE  OnceInv'
    <2>1. fetches[s].list \in Seq(Rooms) /\ Once(fetches[s].list)
      BY <1>6, AnswerFacts DEF TypeOK, RoomsAnswered
    <2>2. CASE observing
      BY <1>6, <2>1, <2>2, CompareOnce DEF RoomsAnswered
    <2>3. CASE ~observing
      BY <1>6, <2>3, SameOnce DEF RoomsAnswered
    <2> QED
      BY <2>2, <2>3
  <1>7. ASSUME NEW r \in Rooms, NEW a \in Accounts, LookupAnswer(r, a)
        PROVE  OnceInv'
    BY <1>7, MatchedOnce, UnmatchedOnce DEF LookupAnswer
  <1>8. CASE UNCHANGED vars
    BY <1>8, SameOnce DEF vars
  <1> QED
    BY <1>1, <1>2, <1>3, <1>4, <1>5, <1>6, <1>7, <1>8 DEF Next, FetchAnswer

(* DuplicateSource is invariant: an id is stored twice only if its room was *)
(* looked up twice at once or matched by two events.  For a room that was   *)
(* not, being looked up, by one account and once, and being stored exclude  *)
(* each other: only an id that is not stored is looked up.                  *)
THEOREM DuplicatesCorrect == Spec => []DuplicateSource
  <1>1. Init => OnceInv
    <2> SUFFICES ASSUME Init
                 PROVE  OnceInv
      OBVIOUS
    <2>1. DuplicateSource
      <3>1. roomIds = <<>> /\ DOMAIN <<>> = {}
        BY DEF Init
      <3> QED
        BY <3>1 DEF DuplicateSource
    <2>2. SingleInv
      BY NothingFacts DEF Init, SingleInv, LookedUp
    <2> QED
      BY <2>1, <2>2 DEF OnceInv
  <1>2. TypeOK /\ OnceInv /\ [Next]_vars => OnceInv'
    BY StepOnce
  <1>3. OnceInv => DuplicateSource
    BY DEF OnceInv
  <1> QED
    BY <1>1, <1>2, <1>3, TypeCorrect, PTL DEF Spec


-----------------------------------------------------------------------------
(* Whose ids are stored                                                    *)

\* As long as no answer came late: the rooms looked up are rooms of the account
\* that asks, the ids stored are of the account that is signed in, and nobody's
\* ids are stored while nobody is.
OwnInv ==
  ~late =>
    /\ \A r \in Rooms, a \in Accounts : lookups[<<r, a>>] > 0 => r \in RoomsOf[a]
    /\ \A r \in ToSet(roomIds) : account # None /\ r \in RoomsOf[account]

LEMMA SameOwn ==
  ASSUME OwnInv, UNCHANGED <<account, roomIds, lookups, late>>
  PROVE  OwnInv'
  BY DEF OwnInv

LEMMA AnsweredOwn ==
  ASSUME TypeOK, OwnInv, NEW s \in Slots, RoomsAnswered(s)
  PROVE  OwnInv'
  <1> DEFINE list == fetches[s].list
             new  == ToSet(list) \ ToSet(roomIds')
  <1> SUFFICES ASSUME ~late'
               PROVE  /\ \A r \in Rooms, a \in Accounts :
                           lookups'[<<r, a>>] > 0 => r \in RoomsOf[a]
                      /\ \A r \in ToSet(roomIds') : account # None /\ r \in RoomsOf[account]
    BY DEF OwnInv, RoomsAnswered
  <1>1. /\ fetches[s].who \in Accounts
        /\ list \in Seq(Rooms) /\ Once(list) /\ ToSet(list) \subseteq RoomsOf[fetches[s].who]
    BY AnswerFacts DEF TypeOK, RoomsAnswered
  <1>2. ~late /\ fetches[s].who = account
    BY DEF RoomsAnswered
  <1>3. account # None /\ ToSet(list) \subseteq RoomsOf[account]
    BY <1>1, <1>2, RoomsAssumption
  <1>4. CASE observing
    <2>1. Compare(list)
      BY <1>4 DEF RoomsAnswered
    <2> HIDE DEF list
    <2>2. ToSet(roomIds') \subseteq ToSet(list) /\ LookUp(new) /\ new \in SUBSET Rooms
      BY <1>1, <2>1, CompareFacts
    <2>3. new \subseteq RoomsOf[account]
      BY <1>3
    <2> HIDE DEF new
    <2>4. ASSUME NEW r \in Rooms, NEW a \in Accounts, lookups'[<<r, a>>] > 0
          PROVE  r \in RoomsOf[a]
      <3>1. lookups'[<<r, a>>]
              = lookups[<<r, a>>] + IF r \in new /\ a = account THEN 1 ELSE 0
        BY <2>2, LookUpFacts
      <3>2. lookups[<<r, a>>] \in Nat
        BY DEF TypeOK, Lookup
      <3>3. CASE r \in new /\ a = account
        BY <2>3, <3>3
      <3>4. CASE ~(r \in new /\ a = account)
        <4>1. lookups[<<r, a>>] > 0
          BY <2>4, <3>1, <3>2, <3>4
        <4> QED
          BY <1>2, <4>1 DEF OwnInv
      <3> QED
        BY <3>3, <3>4
    <2> QED
      BY <1>3, <2>2, <2>4
  <1>5. CASE ~observing
    BY <1>2, <1>5 DEF RoomsAnswered, OwnInv
  <1> QED
    BY <1>4, <1>5

LEMMA LookupOwn ==
  ASSUME TypeOK, OwnInv, NEW r \in Rooms, NEW a \in Accounts, LookupAnswer(r, a)
  PROVE  OwnInv'
  <1>1. Asked(r, a) /\ account' = account
    BY DEF LookupAnswer, LookupMatched, LookupUnmatched
  <1>2. ASSUME NEW q \in Rooms, NEW b \in Accounts, lookups'[<<q, b>>] > 0
        PROVE  lookups[<<q, b>>] > 0
    <2>1. lookups'[<<q, b>>] = lookups[<<q, b>>] - IF q = r /\ b = a THEN 1 ELSE 0
      BY <1>1, AskedFacts
    <2>2. lookups[<<q, b>>] \in Nat
      BY DEF TypeOK, Lookup
    <2> QED
      BY <1>2, <2>1, <2>2
  <1>3. CASE LookupMatched(r, a)
    <2> SUFFICES ASSUME ~late'
                 PROVE  OwnInv'
      BY DEF OwnInv
    <2>1. ~late /\ a = account
      BY <1>3 DEF LookupMatched
    <2>2. lookups[<<r, a>>] > 0
      BY <1>1 DEF Asked
    <2>3. account # None /\ r \in RoomsOf[account]
      BY <2>1, <2>2, RoomsAssumption DEF OwnInv
    <2>4. ToSet(roomIds') = ToSet(roomIds) \union {r}
      BY <1>3, MatchedIds
    <2>5. \A q \in Rooms, b \in Accounts : lookups'[<<q, b>>] > 0 => q \in RoomsOf[b]
      BY <1>2, <2>1 DEF OwnInv
    <2>6. \A q \in ToSet(roomIds') : account # None /\ q \in RoomsOf[account]
      BY <2>1, <2>3, <2>4 DEF OwnInv
    <2> QED
      BY <1>1, <2>5, <2>6 DEF OwnInv
  <1>4. CASE LookupUnmatched(r, a)
    <2>1. roomIds' = roomIds /\ late' = late
      BY <1>4 DEF LookupUnmatched, history
    <2> QED
      BY <1>1, <1>2, <2>1 DEF OwnInv
  <1> QED
    BY <1>3, <1>4 DEF LookupAnswer


LEMMA SignOutOwn ==
  ASSUME TypeOK, OwnInv, SignOut
  PROVE  OwnInv'
  <1>1. roomIds' = <<>> /\ lookups' = lookups
    BY DEF SignOut, ResetIds
  <1>2. ToSet(roomIds') = {}
    BY <1>1 DEF ToSet
  <1>3. ASSUME ~late', NEW r \in Rooms, NEW a \in Accounts, lookups[<<r, a>>] > 0
        PROVE  r \in RoomsOf[a]
    <2>1. CASE late
      <3>1. lookups = Nothing
        BY <1>3, <2>1 DEF SignOut
      <3> QED
        BY <1>3, <3>1, NothingFacts
    <2>2. CASE ~late
      BY <1>3, <2>2 DEF OwnInv
    <2> QED
      BY <2>1, <2>2
  <1> QED
    BY <1>1, <1>2, <1>3 DEF OwnInv

LEMMA RestartOwn ==
  ASSUME TypeOK, OwnInv, Restart
  PROVE  OwnInv'
  <1> SUFFICES ASSUME ~late'
               PROVE  OwnInv'
    BY DEF OwnInv
  <1>1. ~late /\ account \in {None, account'}
    BY DEF Restart
  <1>2. ASSUME NEW r \in Rooms, NEW a \in Accounts
        PROVE  ~(lookups'[<<r, a>>] > 0)
    BY NothingFacts DEF Restart
  <1>3. \A r \in ToSet(roomIds) : account # None /\ r \in RoomsOf[account]
    BY <1>1 DEF OwnInv
  <1>4. \A r \in ToSet(roomIds) : account' # None /\ r \in RoomsOf[account']
    BY <1>1, <1>3
  <1>5. \A r \in ToSet(roomIds') : r \in ToSet(roomIds)
    BY DEF Restart, ResetIds, ToSet
  <1> QED
    BY <1>2, <1>4, <1>5 DEF OwnInv

LEMMA StepOwn ==
  ASSUME TypeOK, OwnInv, [Next]_vars
  PROVE  OwnInv'
  <1>1. CASE Observe
    BY <1>1, SameOwn DEF Observe, history
  <1>2. CASE SignOut
    BY <1>2, SignOutOwn
  <1>3. CASE Restart
    BY <1>3, RestartOwn
  <1>4. ASSUME NEW a \in Accounts, SignIn(a)
        PROVE  OwnInv'
    <2> SUFFICES ASSUME ~late'
                 PROVE  OwnInv'
      BY DEF OwnInv
    <2>1. ~late /\ account \in {None, a} /\ account' = a
      BY <1>4 DEF SignIn, Acc!SignIn
    <2>2. roomIds' = roomIds /\ lookups' = lookups
      BY <1>4 DEF SignIn
    <2>3. \A r \in ToSet(roomIds) : account' # None /\ r \in RoomsOf[account']
      BY <2>1 DEF OwnInv
    <2> QED
      BY <2>1, <2>2, <2>3 DEF OwnInv
  <1>5. ASSUME NEW a \in Accounts, ListChanges(a)
        PROVE  OwnInv'
    BY <1>5, SameOwn DEF ListChanges, history
  <1>6. ASSUME NEW s \in Slots, FetchRoom(s) \/ RoomsIgnored(s)
        PROVE  OwnInv'
    BY <1>6, SameOwn DEF FetchRoom, RoomsIgnored, history
  <1>7. ASSUME NEW s \in Slots, RoomsAnswered(s)
        PROVE  OwnInv'
    BY <1>7, AnsweredOwn
  <1>8. ASSUME NEW r \in Rooms, NEW a \in Accounts, LookupAnswer(r, a)
        PROVE  OwnInv'
    BY <1>8, LookupOwn
  <1>9. CASE UNCHANGED vars
    BY <1>9, SameOwn DEF vars
  <1> QED
    BY <1>1, <1>2, <1>3, <1>4, <1>5, <1>6, <1>7, <1>8, <1>9 DEF Next, FetchAnswer

(* OwnRooms is invariant: unless an answer outlives the account that asked, *)
(* or an account is replaced without a sign-out, the ids kept and the rooms *)
(* shown are rooms of the account that is signed in.  It rests on the reset *)
(* of the ids at a sign-out: nobody's ids are left while nobody is signed   *)
(* in, so whoever signs in next finds none.                                 *)
THEOREM OwnRoomsCorrect == Spec => []OwnRooms
  <1>1. Init => OwnInv
    <2> SUFFICES ASSUME Init
                 PROVE  OwnInv
      OBVIOUS
    <2>1. ToSet(roomIds) = {}
      BY DEF Init, ToSet
    <2>2. ASSUME NEW r \in Rooms, NEW a \in Accounts
          PROVE  ~(lookups[<<r, a>>] > 0)
      BY NothingFacts DEF Init
    <2> QED
      BY <2>1, <2>2 DEF OwnInv
  <1>2. TypeOK /\ OwnInv /\ [Next]_vars => OwnInv'
    BY StepOwn
  <1>3. OwnInv /\ ShownJoined => OwnRooms
    BY DEF OwnInv, ShownJoined, OwnRooms
  <1> QED
    BY <1>1, <1>2, <1>3, TypeCorrect, ShownCorrect, PTL DEF Spec

-----------------------------------------------------------------------------
(* What a list that arrives does                                           *)

HealsStep ==
  \A s \in Slots : observing /\ RoomsAnswered(s) =>
    Once(roomIds') /\ ToSet(roomIds') \subseteq ToSet(rooms')

(* ListHeals holds of every step: after a list has been compared, no id is  *)
(* stored twice and none that the list does not have, whatever was stored   *)
(* before and whichever longest common subsequence difference(from:) keeps. *)
THEOREM ListHealsCorrect == Spec => ListHeals
  <1>1. TypeOK /\ [Next]_vars => [HealsStep]_vars
    <2> SUFFICES ASSUME TypeOK, NEW s \in Slots, observing, RoomsAnswered(s)
                 PROVE  Once(roomIds') /\ ToSet(roomIds') \subseteq ToSet(rooms')
      BY DEF HealsStep
    <2>1. fetches[s].list \in Seq(Rooms) /\ Once(fetches[s].list)
      BY AnswerFacts DEF TypeOK, RoomsAnswered
    <2>2. Compare(fetches[s].list) /\ rooms' = fetches[s].list
      BY DEF RoomsAnswered
    <2> QED
      BY <2>1, <2>2, CompareFacts
  <1> QED
    BY <1>1, TypeCorrect, PTL DEF Spec, ListHeals, HealsStep


-----------------------------------------------------------------------------
(* Ids in the order of the list                                            *)

\* at maps lo..hi into a..b, and increases.
Increases(at, lo, hi, a, b) ==
  /\ \A i \in lo..hi : at[i] \in a..b
  /\ \A i, j \in lo..hi : i < j => at[i] < at[j]

\* It needs room for all it maps.
LEMMA IncreasingRoom ==
  ASSUME NEW lo \in Int, NEW hi \in Int, lo <= hi, NEW a \in Int, NEW b \in Int,
         NEW at, Increases(at, lo, hi, a, b)
  PROVE  hi - lo <= b - a
  <1> USE DEF Increases
  <1> DEFINE f == [i \in lo..hi |-> at[i]]
  <1>1. f \in [lo..hi -> a..b]
    OBVIOUS
  <1>2. ASSUME NEW i \in lo..hi, NEW j \in lo..hi, f[i] = f[j]
        PROVE  i = j
    <2>1. at[i] = at[j] /\ at[i] \in Int
      BY <1>2
    <2>2. ~(i < j) /\ ~(j < i)
      BY <2>1
    <2> QED
      BY <2>2
  <1>3. f \in Injection(lo..hi, a..b)
    BY <1>1, <1>2 DEF Injection, IsInjective
  <1> HIDE DEF f
  <1>4. Cardinality(lo..hi) <= Cardinality(a..b)
    BY <1>3, FS_Injection, FS_Interval
  <1>5. Cardinality(lo..hi) = hi - lo + 1
    BY FS_Interval
  <1>6. a <= b
    <2>1. at[lo] \in a..b
      OBVIOUS
    <2> QED
      BY <2>1
  <1>7. Cardinality(a..b) = b - a + 1
    BY <1>6, FS_Interval
  <1> QED
    BY <1>4, <1>5, <1>7

\* Increasing within 1..n, a map leaves every index where it is.
LEMMA IncreasingFixed ==
  ASSUME NEW n \in Nat, NEW at \in [1..n -> 1..n],
         \A i, j \in 1..n : i < j => at[i] < at[j], NEW k \in 1..n
  PROVE  at[k] = k
  <1>1. at[k] \in 1..n
    OBVIOUS
  <1>2. \A i \in 1..k : at[i] \in 1..at[k]
    <2> SUFFICES ASSUME NEW i \in 1..k
                 PROVE  at[i] \in 1..at[k]
      OBVIOUS
    <2>1. i \in 1..n /\ at[i] \in 1..n /\ (i < k => at[i] < at[k])
      OBVIOUS
    <2> QED
      BY <1>1, <2>1
  <1>3. k - 1 <= at[k] - 1
    <2>1. Increases(at, 1, k, 1, at[k])
      BY <1>2 DEF Increases
    <2>2. k \in Int /\ 1 <= k /\ at[k] \in Int
      BY <1>1
    <2> QED
      BY <2>1, <2>2, IncreasingRoom
  <1>4. \A i \in k..n : at[i] \in at[k]..n
    <2> SUFFICES ASSUME NEW i \in k..n
                 PROVE  at[i] \in at[k]..n
      OBVIOUS
    <2>1. i \in 1..n /\ at[i] \in 1..n /\ (k < i => at[k] < at[i])
      OBVIOUS
    <2> QED
      BY <1>1, <2>1
  <1>5. n - k <= n - at[k]
    <2>1. Increases(at, k, n, at[k], n)
      BY <1>4 DEF Increases
    <2>2. k \in Int /\ n \in Int /\ k <= n /\ at[k] \in Int
      BY <1>1
    <2> QED
      BY <2>1, <2>2, IncreasingRoom
  <1> QED
    BY <1>1, <1>3, <1>5

\* What remains of a sequence is no longer, and if as long, the same.
LEMMA RemainsLength ==
  ASSUME NEW k \in Seq(Rooms), NEW seq \in Seq(Rooms), Remains(k, seq)
  PROVE  Len(k) <= Len(seq) /\ (Len(k) = Len(seq) => k = seq)
  <1>1. PICK at \in [DOMAIN k -> DOMAIN seq] :
          /\ \A i, j \in DOMAIN k : i < j => at[i] < at[j]
          /\ \A i \in DOMAIN k : k[i] = seq[at[i]]
    BY DEF Remains
  <1>2. /\ DOMAIN k = 1..Len(k) /\ Len(k) \in Nat
        /\ DOMAIN seq = 1..Len(seq) /\ Len(seq) \in Nat
    OBVIOUS
  <1>3. Len(k) <= Len(seq)
    <2>1. CASE Len(k) = 0
      BY <1>2, <2>1
    <2>2. CASE Len(k) # 0
      <3>1. Increases(at, 1, Len(k), 1, Len(seq))
        BY <1>1, <1>2 DEF Increases
      <3>2. Len(k) - 1 <= Len(seq) - 1
        <4>1. Len(k) \in Int /\ Len(seq) \in Int /\ 1 <= Len(k)
          BY <1>2, <2>2
        <4> QED
          BY <3>1, <4>1, IncreasingRoom
      <3> QED
        BY <1>2, <3>2
    <2> QED
      BY <2>1, <2>2
  <1>4. ASSUME Len(k) = Len(seq)
        PROVE  k = seq
    <2>1. /\ at \in [1..Len(k) -> 1..Len(k)]
          /\ \A i, j \in 1..Len(k) : i < j => at[i] < at[j]
      BY <1>1, <1>2, <1>4
    <2>2. \A i \in 1..Len(k) : at[i] = i
      BY <1>2, <2>1, IncreasingFixed
    <2>3. \A i \in 1..Len(k) : k[i] = seq[i]
      BY <1>1, <1>2, <2>2
    <2> QED
      BY <1>2, <1>4, <2>3, SeqEqual
  <1> QED
    BY <1>3, <1>4

LEMMA RemainsItself ==
  ASSUME NEW seq \in Seq(Rooms)
  PROVE  Remains(seq, seq)
  <1> DEFINE at == [i \in DOMAIN seq |-> i]
  <1>1. at \in [DOMAIN seq -> DOMAIN seq]
    OBVIOUS
  <1>2. /\ \A i, j \in DOMAIN seq : i < j => at[i] < at[j]
        /\ \A i \in DOMAIN seq : seq[i] = seq[at[i]]
    OBVIOUS
  <1> QED
    BY <1>1, <1>2 DEF Remains

\* Ids in the order of the list are all kept.
LEMMA KeptWhole ==
  ASSUME NEW old \in Seq(Rooms), NEW list \in Seq(Rooms), Remains(old, list),
         NEW kept \in Kept(old, list)
  PROVE  kept = old
  <1>1. /\ kept \in SeqOf(ToSet(list), Len(list)) /\ Remains(kept, old)
        /\ \A j \in SeqOf(ToSet(list), Len(list)) :
             Remains(j, old) /\ Remains(j, list) => Len(j) <= Len(kept)
    BY DEF Kept
  <1>2. kept \in Seq(Rooms)
    BY <1>1, CandidateSeq
  <1>3. old \in SeqOf(ToSet(list), Len(list))
    <2>1. Len(old) \in 0..Len(list)
      BY RemainsLength
    <2>2. ToSet(old) \subseteq ToSet(list)
      BY RemainsFacts
    <2>3. old \in [1..Len(old) -> ToSet(list)]
      BY <2>2, ToSetMember
    <2> QED
      BY <2>1, <2>3 DEF SeqOf
  <1>4. Len(old) <= Len(kept)
    BY <1>1, <1>3, RemainsItself
  <1>5. Len(kept) <= Len(old) /\ (Len(kept) = Len(old) => kept = old)
    BY <1>1, <1>2, RemainsLength
  <1>6. Len(kept) \in Nat /\ Len(old) \in Nat
    BY <1>2
  <1> QED
    BY <1>4, <1>5, <1>6

InOrderStep ==
  \A s \in Slots :
    observing /\ RoomsAnswered(s) /\ Remains(roomIds, fetches[s].list) =>
      /\ roomIds' = roomIds
      /\ \A r \in ToSet(roomIds), a \in Accounts : lookups'[<<r, a>>] = lookups[<<r, a>>]
InOrderStays == [][InOrderStep]_vars

(* A list that has the stored ids in the order they are stored in takes     *)
(* none away and looks none of them up: as long as order and membership     *)
(* agree, the poll every 5 s is without effect on them, and only an id      *)
(* whose place differs is removed and matched again.                        *)
THEOREM InOrderCorrect == Spec => InOrderStays
  <1>1. TypeOK /\ [Next]_vars => [InOrderStep]_vars
    <2> SUFFICES ASSUME TypeOK, NEW s \in Slots, observing, RoomsAnswered(s),
                        Remains(roomIds, fetches[s].list)
                 PROVE  /\ roomIds' = roomIds
                        /\ \A r \in ToSet(roomIds), a \in Accounts :
                             lookups'[<<r, a>>] = lookups[<<r, a>>]
      BY DEF InOrderStep
    <2> DEFINE list == fetches[s].list
    <2>1. list \in Seq(Rooms) /\ Once(list)
      BY AnswerFacts DEF TypeOK, RoomsAnswered
    <2>2. Compare(list)
      BY DEF RoomsAnswered
    <2>3. Remains(roomIds, list) /\ roomIds \in Seq(Rooms)
      BY DEF TypeOK
    <2> HIDE DEF list
    <2>4. roomIds' = roomIds
      BY <2>1, <2>2, <2>3, KeptWhole DEF Compare
    <2> DEFINE new == ToSet(list) \ ToSet(roomIds')
    <2>5. LookUp(new) /\ new \in SUBSET Rooms
      BY <2>1, <2>2, CompareFacts
    <2>6. \A r \in ToSet(roomIds) : r \in Rooms /\ r \notin new
      BY <2>3, <2>4, ToSetMember
    <2> HIDE DEF new
    <2>7. ASSUME NEW r \in ToSet(roomIds), NEW a \in Accounts
          PROVE  lookups'[<<r, a>>] = lookups[<<r, a>>]
      <3>1. r \in Rooms /\ r \notin new
        BY <2>6
      <3>2. lookups'[<<r, a>>] = lookups[<<r, a>>] + IF r \in new /\ a = account THEN 1 ELSE 0
        BY <2>5, <3>1, LookUpFacts
      <3>3. lookups[<<r, a>>] \in Nat
        BY <3>1 DEF TypeOK, Lookup
      <3> QED
        BY <3>1, <3>2, <3>3
    <2> QED
      BY <2>4, <2>7
  <1> QED
    BY <1>1, TypeCorrect, PTL DEF Spec, InOrderStays

=============================================================================
