---------------------------- MODULE RootNavigation ----------------------------
(***************************************************************************)
(* RootViewController as a container: the view controllers it has as       *)
(* children, the one it holds as current, and the transitions between      *)
(* them, which take 0.25 s each.  Session has one transition at a time,    *)
(* which others prolong; here each has its own beginning and end.          *)
(*                                                                         *)
(* View controllers are numbered in the order they are made: 0 is the      *)
(* splash screen, and each switch makes a new login flow or tab bar.       *)
(***************************************************************************)
EXTENDS Integers, FiniteSets

CONSTANTS
  MaxViews,   (* bound: view controllers made after the splash screen      *)
  MaxAsked    (* bound: sign-ins in flight from one login flow             *)

ASSUME BoundsAssumption == MaxViews \in Nat /\ MaxAsked \in Nat

VARIABLES
  made,       (* the last view controller made                            *)
  flows,      (* those that are login flows                               *)
  children,   (* children of the root: what is not one is released        *)
  current,    (* currentViewController                                    *)
  running,    (* transitions begun and not ended                          *)
  asked,      (* view controller -> its sign-in requests in flight        *)
  overtaken   (* history: where a transition led when another began       *)

vars == <<made, flows, children, current, running, asked, overtaken>>

Views      == 0..MaxViews
Transition == [from : Views, to : Views]
Targets(ts) == {t.to : t \in ts}

Init ==
  /\ made = 0 /\ flows = {}
  /\ children = {0} /\ current = 0                     \* showSplashView
  /\ running = {}
  /\ asked = [v \in Views |-> 0]
  /\ overtaken = {}

-----------------------------------------------------------------------------
(* Transitions                                                             *)

\* transitionViewController: the new view controller is a child at once, and
\* current only when the animation has ended.
Begin ==
  /\ made < MaxViews
  /\ made' = made + 1
  /\ children' = children \union {made'}
  /\ running' = running \union {[from |-> current, to |-> made']}
  /\ overtaken' = overtaken \union Targets(running)
  /\ UNCHANGED current

SwitchToLogin == Begin /\ flows' = flows \union {made'}
SwitchToTab   == Begin /\ UNCHANGED flows

\* All take as long: they end in the order in which they began.
First(t) == t \in running /\ \A r \in running : t.to <= r.to

KeepCurrent(t) ==                                                     \* mutant
  First(t) /\ UNCHANGED current /\ children' = children \ {t.from}
KeepFrom(t) == First(t) /\ current' = t.to /\ UNCHANGED children      \* mutant
OnlyFromCurrent(t) ==                                                 \* mutant
  /\ First(t) /\ children' = children \ {t.from}
  /\ current' = IF current = t.from THEN t.to ELSE current
\* The completion: the old view controller is released with its screens.
Complete(t) == First(t) /\ current' = t.to /\ children' = children \ {t.from}

End(t) ==
  /\ Complete(t)
  /\ running' = running \ {t}
  /\ UNCHANGED <<made, flows, asked, overtaken>>

-----------------------------------------------------------------------------
(* What switches                                                           *)

\* isRegistered fell to false, or launchApp found nobody registered.
NotLogin == SwitchToLogin /\ UNCHANGED asked

\* The automatic sign-in is answered.
LoginSuccess == SwitchToTab /\ UNCHANGED asked

TouchMoving(v) == v \in flows /\ v = current                          \* mutant
\* A screen of the flow on display.  The views of a running transition take
\* no touches.
Touch(v) == v \in flows /\ running = {} /\ v = current

\* More than one when a delayed dismissal took the HUD down in between
SignIn(v) ==
  /\ Touch(v)
  /\ asked[v] < MaxAsked
  /\ asked' = [asked EXCEPT ![v] = @ + 1]
  /\ UNCHANGED <<made, flows, children, current, running, overtaken>>

Answered(v) == asked[v] > 0 /\ asked' = [asked EXCEPT ![v] = @ - 1]

\* The screen that asked switches to the tab bar, if it is still there: it is
\* until the transition away from it has ended.
SignInOk(v) ==
  /\ Answered(v)
  /\ IF v \in children
       THEN SwitchToTab
       ELSE UNCHANGED <<made, flows, children, current, running, overtaken>>

SignInFailed(v) ==
  Answered(v) /\ UNCHANGED <<made, flows, children, current, running, overtaken>>

Next ==
  \/ NotLogin \/ LoginSuccess
  \/ \E v \in Views : SignIn(v) \/ SignInOk(v) \/ SignInFailed(v)
  \/ \E t \in Transition : End(t)

Spec == Init /\ [][Next]_vars

-----------------------------------------------------------------------------
(* Properties                                                              *)

(* Types.                                                                  *)
TypeOK ==
  /\ made \in Views /\ flows \subseteq Views /\ children \subseteq Views
  /\ current \in Views /\ overtaken \subseteq Views
  /\ running \subseteq Transition
  /\ asked \in [Views -> 0..MaxAsked]

(* A transition starts from a child of the root, or UIKit raises: the      *)
(* current view controller is one however transitions overlap, and so is   *)
(* what each running one leads to.                                         *)
Transitionable == {current} \union Targets(running) \subseteq children

(* Whatever was asked for last is what is on display in the end, although  *)
(* each of several transitions puts its own view controller on display.    *)
LastShown == running = {} => current = made

(* A view controller stays behind, with its streams and its requests, only *)
(* if the next transition began before the one to it had ended.            *)
LeftBehind == running = {} => children \subseteq {current} \union overtaken

(* A sign-in answer switches only if its flow is still the current view    *)
(* controller: on display, or on its way out.                              *)
HeardIsCurrent == \A v \in children : asked[v] > 0 => v = current
=============================================================================
