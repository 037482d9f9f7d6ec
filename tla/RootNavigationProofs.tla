------------------------- MODULE RootNavigationProofs -------------------------
(* Invariants of RootNavigation, for every bound on view controllers and   *)
(* sign-ins.                                                               *)
EXTENDS RootNavigation, TLAPS

USE BoundsAssumption

-----------------------------------------------------------------------------
(* Types                                                                   *)

LEMMA BeginType ==
  ASSUME TypeOK, Begin
  PROVE  /\ made' \in Views /\ children' \subseteq Views /\ current' \in Views
         /\ overtaken' \subseteq Views /\ running' \subseteq Transition
  <1>1. made' \in Views /\ made' = made + 1
    BY DEF TypeOK, Begin, Views
  <1>2. [from |-> current, to |-> made'] \in Transition
    BY <1>1 DEF TypeOK, Transition
  <1>3. Targets(running) \subseteq Views
    BY DEF TypeOK, Targets, Transition
  <1> QED
    BY <1>1, <1>2, <1>3 DEF TypeOK, Begin

LEMMA AskedType ==
  ASSUME TypeOK, NEW v \in Views, Answered(v)
  PROVE  asked' \in [Views -> 0..MaxAsked]
  BY DEF TypeOK, Answered

LEMMA TypeStep == TypeOK /\ [Next]_vars => TypeOK'
  <1> SUFFICES ASSUME TypeOK, [Next]_vars PROVE TypeOK'
    OBVIOUS
  <1>1. CASE NotLogin \/ LoginSuccess
    BY <1>1, BeginType DEF NotLogin, LoginSuccess, SwitchToLogin, SwitchToTab, TypeOK
  <1>2. ASSUME NEW v \in Views, SignIn(v) PROVE TypeOK'
    BY <1>2 DEF SignIn, TypeOK
  <1>3. ASSUME NEW v \in Views, SignInOk(v) \/ SignInFailed(v) PROVE TypeOK'
    BY <1>3, AskedType, BeginType DEF SignInOk, SignInFailed, SwitchToTab, TypeOK
  <1>4. ASSUME NEW t \in Transition, End(t) PROVE TypeOK'
    BY <1>4 DEF End, Complete, TypeOK, Transition
  <1>5. CASE UNCHANGED vars
    BY <1>5 DEF vars, TypeOK
  <1> QED
    BY <1>1, <1>2, <1>3, <1>4, <1>5 DEF Next

(* Type correctness: every view controller and transition is one made.     *)
THEOREM TypeCorrect == Spec => []TypeOK
  <1>1. Init => TypeOK
    BY DEF Init, TypeOK, Views
  <1> QED
    BY <1>1, TypeStep, PTL DEF Spec

-----------------------------------------------------------------------------
(* What is on display                                                      *)

\* Views that are shown one after the other: the current one, then what the
\* running transitions lead to, the last of which is the last one made.
InOrder ==
  /\ \A v \in children \union {current} \union Targets(running) : v <= made
  /\ \A t \in running : t.to # current /\ t.from <= made
  /\ \A t, r \in running : t.from # r.to /\ (t.to = r.to => t = r)
  /\ IF running = {} THEN current = made ELSE made \in Targets(running)

\* Targets other than the last are overtaken; if a transition starts elsewhere
\* than from the current view controller, that one is overtaken as well.
Behind ==
  /\ children \subseteq {current} \union overtaken \union Targets(running)
  /\ \A t \in running : t.to = made \/ t.to \in overtaken
  /\ \A t \in running : t.from = current \/ current \in overtaken

\* Only what has been on display with no transition running has asked.
Heard ==
  /\ HeardIsCurrent
  /\ \A v \in Views : asked[v] > 0 => v <= made /\ v \notin Targets(running)
  /\ \A t \in running : t.from = current \/ asked[current] = 0

DisplayInv == Transitionable /\ InOrder /\ Behind /\ Heard

\* No request is made.
Quiet == \A v \in Views : asked'[v] <= asked[v]

LEMMA AskedNat == TypeOK => \A v \in Views : asked[v] \in Nat
  BY DEF TypeOK

LEMMA QuietAsked ==
  ASSUME TypeOK, TypeOK', Quiet
  PROVE  \A v \in Views : asked'[v] > 0 => asked[v] > 0
  <1>1. \A v \in Views : asked[v] \in Nat /\ asked'[v] \in Nat
    BY DEF TypeOK
  <1> QED
    BY <1>1 DEF Quiet

LEMMA BeginDisplay == ASSUME TypeOK, DisplayInv, Begin, Quiet, TypeOK' PROVE DisplayInv'
  <1> DEFINE t == [from |-> current, to |-> made']
  <1>1. /\ made' = made + 1 /\ children' = children \union {made'} /\ current' = current
        /\ running' = running \union {t} /\ overtaken' = overtaken \union Targets(running)
        /\ t.from = current /\ t.to = made'
    BY DEF Begin
  <1>2. Targets(running') = Targets(running) \union {made'}
    BY <1>1 DEF Targets
  <1> HIDE DEF t
  <1>3. \A r \in running : r.to \in Targets(running)
    BY DEF Targets
  <1>4. made \in Nat /\ children \subseteq Nat /\ current \in Nat /\ running \subseteq Transition
    BY DEF TypeOK, Views
  <1>5. Targets(running) \subseteq Nat
    BY <1>4 DEF Targets, Transition, Views
  <1>6. Transitionable'
    BY <1>1, <1>2 DEF DisplayInv, Transitionable
  <1>7. InOrder'
    <2>1. \A v \in children' \union {current'} \union Targets(running') : v <= made'
      BY <1>1, <1>2, <1>4, <1>5 DEF DisplayInv, InOrder
    <2>2. \A r \in running' : r.to # current' /\ r.from <= made'
      BY <1>1, <1>4 DEF DisplayInv, InOrder, Transition, Views
    <2>3. \A r, q \in running' : r.from # q.to /\ (r.to = q.to => r = q)
      BY <1>1, <1>3, <1>4 DEF DisplayInv, InOrder, Transition, Views
    <2>4. running' # {} /\ made' \in Targets(running')
      BY <1>1, <1>2
    <2> QED
      BY <2>1, <2>2, <2>3, <2>4 DEF InOrder
  <1>8. Behind'
    BY <1>1, <1>2, <1>3 DEF DisplayInv, Behind
  <1>9. Heard'
    <2>1. \A v \in Views : asked'[v] > 0 => asked[v] > 0
      BY QuietAsked
    <2>2. \A v \in Views : asked'[v] > 0 => v <= made' /\ v \notin Targets(running')
      <3> SUFFICES ASSUME NEW v \in Views, asked'[v] > 0
                   PROVE  v <= made' /\ v \notin Targets(running')
        OBVIOUS
      <3>1. v <= made /\ v \notin Targets(running)
        BY <2>1 DEF DisplayInv, Heard
      <3>2. v \in Nat
        BY DEF Views
      <3> QED
        BY <3>1, <3>2, <1>1, <1>2, <1>4
    <2>3. HeardIsCurrent'
      BY <1>1, <2>1, <2>2, <1>2 DEF DisplayInv, Heard, HeardIsCurrent, TypeOK
    <2>4. \A r \in running' : r.from = current' \/ asked'[current'] = 0
      BY <1>1, <2>1 DEF DisplayInv, Heard, TypeOK
    <2> QED
      BY <2>2, <2>3, <2>4 DEF Heard
  <1> QED
    BY <1>6, <1>7, <1>8, <1>9 DEF DisplayInv

LEMMA EndDisplay ==
  ASSUME TypeOK, DisplayInv, NEW t \in Transition, End(t)
  PROVE  DisplayInv'
  <1>1. /\ t \in running /\ \A r \in running : t.to <= r.to
        /\ current' = t.to /\ children' = children \ {t.from}
        /\ running' = running \ {t}
        /\ UNCHANGED <<made, asked, overtaken>>
    BY DEF End, Complete, First
  <1>2. /\ \A r \in running' : r \in running /\ r.to # t.to
        /\ Targets(running') = Targets(running) \ {t.to}
    BY <1>1 DEF DisplayInv, InOrder, Targets
  <1>3. t.to \in Targets(running) /\ \A r \in running : r.to \in Targets(running)
    BY <1>1 DEF Targets
  <1>4. made \in Nat /\ running \subseteq Transition /\ t.to \in Views
    BY DEF TypeOK, Views, Transition
  \* Another target is later, so this one was not the last made.
  <1>5. ASSUME NEW r \in running' PROVE t.to # made /\ t.to \in overtaken
    <2>1. r \in Transition /\ r.to # t.to /\ t.to <= r.to /\ r.to <= made
      BY <1>1, <1>2, <1>3, <1>4 DEF DisplayInv, InOrder
    <2>2. t.to # made
      BY <2>1, <1>4 DEF Transition, Views
    <2> QED
      BY <1>1, <2>2 DEF DisplayInv, Behind
  <1>6. Transitionable'
    <2>1. t.from # t.to /\ \A r \in running : t.from # r.to
      BY <1>1 DEF DisplayInv, InOrder
    <2>2. t.from \notin Targets(running)
      BY <2>1 DEF Targets
    <2> QED
      BY <1>1, <1>2, <1>3, <2>2 DEF DisplayInv, Transitionable
  <1>7. InOrder'
    <2>1. IF running' = {} THEN current' = made' ELSE made' \in Targets(running')
      <3>1. made \in Targets(running)
        BY <1>1 DEF DisplayInv, InOrder
      <3>2. CASE running' = {}
        <4>1. running = {t}
          BY <1>1, <3>2
        <4> QED
          BY <3>1, <3>2, <4>1, <1>1 DEF Targets
      <3>3. CASE running' # {}
        BY <3>1, <3>3, <1>1, <1>2, <1>5
      <3> QED
        BY <3>2, <3>3
    <2>2. \A v \in children' \union {current'} \union Targets(running') : v <= made'
      BY <1>1, <1>2, <1>3 DEF DisplayInv, InOrder
    <2> QED
      BY <1>1, <1>2, <2>1, <2>2 DEF DisplayInv, InOrder
  <1>8. Behind'
    <2>1. children' \subseteq {current'} \union overtaken' \union Targets(running')
      BY <1>1, <1>2 DEF DisplayInv, Behind
    <2>2. \A r \in running' : current' \in overtaken'
      BY <1>1, <1>5
    <2> QED
      BY <1>1, <1>2, <2>1, <2>2 DEF DisplayInv, Behind
  <1>9. Heard'
    <2>1. asked[t.to] = 0
      <3>1. asked[t.to] \in Nat
        BY <1>4, AskedNat
      <3> QED
        BY <3>1, <1>3, <1>4 DEF DisplayInv, Heard
    <2>2. HeardIsCurrent'
      <3> SUFFICES ASSUME NEW v \in children', asked[v] > 0 PROVE FALSE
        BY <1>1 DEF HeardIsCurrent
      <3>1. v = current /\ v # t.from
        BY <1>1 DEF DisplayInv, Heard, HeardIsCurrent
      <3>2. asked[current] = 0
        BY <1>1, <3>1 DEF DisplayInv, Heard
      <3> QED
        BY <3>1, <3>2
    <2> QED
      BY <1>1, <1>2, <2>1, <2>2 DEF DisplayInv, Heard
  <1> QED
    BY <1>6, <1>7, <1>8, <1>9 DEF DisplayInv

\* Handlers that begin no transition.
LEMMA StillDisplay ==
  ASSUME TypeOK, DisplayInv, Quiet, TypeOK',
         UNCHANGED <<made, children, current, running, overtaken>>
  PROVE  DisplayInv'
  <1>1. Transitionable' /\ InOrder' /\ Behind'
    BY DEF DisplayInv, Transitionable, InOrder, Behind, Targets
  <1>2. \A v \in Views : asked'[v] > 0 => asked[v] > 0
    BY QuietAsked
  <1>3. Heard'
    BY <1>2 DEF DisplayInv, Heard, HeardIsCurrent, Targets, TypeOK
  <1> QED
    BY <1>1, <1>3 DEF DisplayInv

LEMMA DisplayStep == TypeOK /\ DisplayInv /\ TypeOK' /\ [Next]_vars => DisplayInv'
  <1> SUFFICES ASSUME TypeOK, DisplayInv, TypeOK', [Next]_vars PROVE DisplayInv'
    OBVIOUS
  <1>1. CASE NotLogin \/ LoginSuccess
    <2>1. Begin /\ Quiet
      BY <1>1 DEF NotLogin, LoginSuccess, SwitchToLogin, SwitchToTab, Quiet, TypeOK
    <2> QED
      BY <2>1, BeginDisplay
  <1>2. ASSUME NEW v \in Views, SignIn(v) PROVE DisplayInv'
    <2>1. /\ v = current /\ running = {} /\ asked' = [asked EXCEPT ![v] = @ + 1]
          /\ UNCHANGED <<made, children, current, running, overtaken>>
      BY <1>2 DEF SignIn, Touch
    <2>2. Transitionable' /\ InOrder' /\ Behind'
      BY <2>1 DEF DisplayInv, Transitionable, InOrder, Behind, Targets
    <2>3. Heard'
      BY <2>1 DEF DisplayInv, Heard, HeardIsCurrent, InOrder, Targets, TypeOK
    <2> QED
      BY <2>2, <2>3 DEF DisplayInv
  <1>3. ASSUME NEW v \in Views, SignInOk(v) \/ SignInFailed(v) PROVE DisplayInv'
    <2>1. Quiet
      BY <1>3 DEF SignInOk, SignInFailed, Answered, Quiet, TypeOK
    <2>2. \/ Begin
          \/ UNCHANGED <<made, children, current, running, overtaken>>
      BY <1>3 DEF SignInOk, SignInFailed, SwitchToTab
    <2> QED
      BY <2>1, <2>2, BeginDisplay, StillDisplay
  <1>4. ASSUME NEW t \in Transition, End(t) PROVE DisplayInv'
    BY <1>4, EndDisplay
  <1>5. CASE UNCHANGED vars
    BY <1>5, StillDisplay DEF vars, Quiet, TypeOK
  <1> QED
    BY <1>1, <1>2, <1>3, <1>4, <1>5 DEF Next

LEMMA DisplayCorrect == Spec => []DisplayInv
  <1>1. Init => DisplayInv
    BY DEF Init, DisplayInv, Transitionable, InOrder, Behind, Heard, HeardIsCurrent,
           Targets, Views
  <1> QED
    BY <1>1, TypeCorrect, TypeStep, DisplayStep, PTL DEF Spec

(* However transitions overlap, each starts from a child of the root: UIKit *)
(* never raises.                                                            *)
THEOREM NeverRaises == Spec => []Transitionable
  <1>1. DisplayInv => Transitionable
    BY DEF DisplayInv
  <1> QED
    BY <1>1, DisplayCorrect, PTL

(* When no transition runs, what was asked for last is on display.         *)
THEOREM ShowsLast == Spec => []LastShown
  <1>1. DisplayInv => LastShown
    BY DEF DisplayInv, InOrder, LastShown
  <1> QED
    BY <1>1, DisplayCorrect, PTL

(* Only a view controller that was overtaken stays behind.                 *)
THEOREM OnlyOvertakenStay == Spec => []LeftBehind
  <1>1. DisplayInv => LeftBehind
    BY DEF DisplayInv, Behind, LeftBehind, Targets
  <1> QED
    BY <1>1, DisplayCorrect, PTL

(* A sign-in answer that switches was asked for by the current flow.       *)
THEOREM HearsCurrent == Spec => []HeardIsCurrent
  <1>1. DisplayInv => HeardIsCurrent
    BY DEF DisplayInv, Heard
  <1> QED
    BY <1>1, DisplayCorrect, PTL
=============================================================================
