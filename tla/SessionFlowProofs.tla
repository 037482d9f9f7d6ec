--------------------------- MODULE SessionFlowProofs ---------------------------
(* Five theorems about what a session shows and does, for every set of      *)
(* accounts and slots and every bound: the launch chain, the screens that   *)
(* hear an answer and the end of the HUD; when the account comes apart from *)
(* the one on display; and that Session implements Account.                 *)
EXTENDS SessionProofs

USE NoneAssumption, BoundsAssumption

-----------------------------------------------------------------------------
(* The keyboard                                                            *)

\* It is up only when the team screen has appeared, and no transition runs.
KeyboardShown == keyboard => screen = "team" /\ leaving = "nothing"

\* What a step may do to the keyboard and the screens.
KeyboardStep == \/ UNCHANGED shown
                \/ ~keyboard'
                \/ screen' = "team" /\ leaving' = "nothing"

LEMMA KeyboardKept == KeyboardShown /\ KeyboardStep => KeyboardShown'
  BY DEF KeyboardShown, KeyboardStep, shown

LEMMA KeyboardNext == [Next]_vars => KeyboardStep
  <1> SUFFICES ASSUME [Next]_vars PROVE KeyboardStep
    OBVIOUS
  <1>0. ASSUME NEW rq, NotLogin(rq) \/ Normal(rq) \/ SameScreen(rq) PROVE KeyboardStep
    BY <1>0, Zenon DEF NotLogin, Normal, SwitchTo, SameScreen, KeyboardStep
  <1>1. CASE LaunchApp \/ AutoLoginOk \/ AutoLoginRejected \/ AutoLoginFailed
    BY <1>0, <1>1 DEF LaunchApp, AutoLoginOk, AutoLoginRejected, AutoLoginFailed, ClearUserData
  <1>2. CASE HudTimer \/ InvalidInput \/ UNCHANGED vars
    BY <1>2, Zenon DEF HudTimer, InvalidInput, vars, shown, KeyboardStep
  <1>3. CASE Navigate \/ FocusField \/ TransitionEnds
    BY <1>3 DEF Navigate, FocusField, TransitionEnds, Touch, ReturnKey, KeyboardStep
  <1>4. ASSUME NEW s \in Slots, Answer(s) \/ UserStep(s) PROVE KeyboardStep
    <2>1. CASE SignInOk(s) \/ LogoutOk(s) \/ LogoutFailed(s)
      BY <1>0, <2>1 DEF SignInOk, LogoutOk, LogoutFailed, ClearUserData
    <2>2. CASE TeamFound(s) \/ TeamWithoutId(s) \/ RequestFailed(s) \/ SignUpOk(s)
      BY <2>2, Zenon DEF TeamFound, Push, TeamWithoutId, RequestFailed, SignUpOk, KeyboardStep
    <2>3. CASE DoublePush(s) \/ UserStep(s)
      BY <2>3, Zenon DEF DoublePush, Reboot, UserStep, EnterTeam, TapLogout, TapRegistration,
                         TapSignIn, KeyboardStep
    <2> QED
      BY <1>4, <2>1, <2>2, <2>3 DEF Answer
  <1>5. CASE Die
    BY <1>5, Zenon DEF Die, Kill, KillDuringAutoLogin, KillDuringClear, KillDuringSignIn,
                       KillDuringSignUp, Reboot, KeyboardStep
  <1> QED
    BY <1>1, <1>2, <1>3, <1>4, <1>5 DEF Next

LEMMA KeyboardCorrect == Spec => []KeyboardShown
  <1>1. Init => KeyboardShown
    BY DEF Init, KeyboardShown
  <1> QED
    BY <1>1, KeyboardNext, KeyboardKept, PTL DEF Spec

-----------------------------------------------------------------------------
(* Launch chain, screens and HUD                                           *)

\* A request in flight will lower the HUD, or drop its answer.
Busy(rq) == \E s \in Slots : rq[s] # Idle /\ rq[s].kind # "signOut"

FlowInv == OneLaunchChain /\ HeardOnDisplay /\ HudHasEnd

\* Handlers that leave launchApp and the automatic sign-in alone.
Chain == UNCHANGED <<launchTimer, auto>>

LEMMA ChainStep == OneLaunchChain /\ Chain => OneLaunchChain'
  BY Zenon DEF OneLaunchChain, Chain

\* Whatever a step switches to, the current view controller is still the one
\* that was current: the transition has only begun.
LEMMA SwitchKeepsCurrent ==
  ASSUME TypeOK, NEW rq, NotLogin(rq) \/ Normal(rq) \/ SameScreen(rq)
  PROVE  Current' = Current /\ reqs' = rq
  BY DEF TypeOK, ViewType, NotLogin, Normal, SwitchTo, SameScreen, shown, Current, Screen, Flow

(* A step that asks for nothing new and stays on the flow, or the tab bar,  *)
(* that is current, lets nobody else hear.                                 *)
LEMMA HearLess ==
  ASSUME HeardOnDisplay, \A t \in Slots : reqs'[t] \in {Idle, reqs[t]},
         Current' = Current \/ {Current, Current'} \subseteq Flow
  PROVE  HeardOnDisplay'
  BY DEF HeardOnDisplay, Flow

LEMMA WithoutLess ==
  ASSUME TypeOK, NEW s \in Slots, reqs' = Without(s)
  PROVE  \A t \in Slots : reqs'[t] \in {Idle, reqs[t]}
  BY WithoutType DEF TypeOK, SentType

(* The end of a transition: the screens released hear nothing, what they    *)
(* asked for stays in flight.                                              *)
LEMMA ReleaseFlow ==
  ASSUME TypeOK, TransitionEnds
  PROVE  HeardOnDisplay' /\ (Busy(reqs) => Busy(reqs'))
  <1>1. reqs \in [Slots -> Request \union {Idle}] /\ reqs' = Orphaned(reqs)
    BY DEF TypeOK, SentType, TransitionEnds
  <1>2. HeardOnDisplay'
    BY <1>1, OrphanedType DEF HeardOnDisplay
  <1>3. ASSUME Busy(reqs) PROVE Busy(reqs')
    <2>1. PICK s \in Slots : reqs[s] # Idle /\ reqs[s].kind # "signOut"
      BY <1>3 DEF Busy
    <2>2. reqs'[s] # Idle /\ reqs'[s].kind # "signOut"
      BY <1>1, <2>1, OrphanedType
    <2> QED
      BY <2>2 DEF Busy
  <1> QED
    BY <1>2, <1>3

\* How a step may treat the HUD: rq is what is in flight afterwards.
Ends(rq) == \/ ErrorHud \/ LowerHud \/ DropAnswer
            \/ UNCHANGED display /\ (Busy(reqs) => Busy(rq))
            \/ Busy(rq)

LEMMA EndsStep ==
  ASSUME TypeOK, HudHasEnd, Ends(reqs') PROVE HudHasEnd'
  <1>1. CASE ErrorHud
    <2>1. dismissals' # 0
      BY <1>1 DEF ErrorHud, TypeOK, HudType
    <2> QED
      BY <2>1 DEF HudHasEnd
  <1>2. CASE LowerHud
    BY <1>2 DEF LowerHud, HudHasEnd
  <1>3. CASE DropAnswer
    BY <1>3, Zenon DEF DropAnswer, HudHasEnd
  <1>4. CASE UNCHANGED display /\ (Busy(reqs) => Busy(reqs'))
    BY <1>4, Zenon DEF display, HudHasEnd, Busy
  <1>5. CASE Busy(reqs')
    BY <1>5 DEF HudHasEnd, Busy
  <1> QED
    BY <1>1, <1>2, <1>3, <1>4, <1>5 DEF Ends

LEMMA RebootFlow == ASSUME Reboot PROVE FlowInv'
  <1>1. HeardOnDisplay'
    BY DEF Reboot, HeardOnDisplay
  <1>2. OneLaunchChain' /\ HudHasEnd'
    BY DEF Reboot, OneLaunchChain, HudHasEnd
  <1> QED
    BY <1>1, <1>2 DEF FlowInv

LEMMA LaunchFlow ==
  ASSUME TypeOK, SessionInv, FlowInv,
         LaunchApp \/ AutoLoginOk \/ AutoLoginRejected \/ AutoLoginFailed
  PROVE  FlowInv'
  <1>1. NotLogin(reqs) \/ Normal(reqs) \/ SameScreen(reqs)
    BY DEF LaunchApp, AutoLoginOk, AutoLoginRejected, AutoLoginFailed, ClearUserData
  <1>2. HeardOnDisplay'
    BY <1>1, SwitchKeepsCurrent, HearLess DEF FlowInv
  <1>3. HudHasEnd'
    <2>1. ErrorHud \/ (UNCHANGED display /\ (Busy(reqs) => Busy(reqs')))
      <3>1. reqs' = reqs
        BY <1>1, SwitchKeepsCurrent
      <3> QED
        BY <3>1 DEF LaunchApp, AutoLoginOk, AutoLoginRejected, AutoLoginFailed, Retry
    <2> QED
      BY <2>1, EndsStep DEF Ends, FlowInv
  <1>4. OneLaunchChain'
    <2>1. ~launchTimer' \/ auto' = Idle
      BY DEF LaunchApp, TimerFires, AutoLoginOk, AutoLoginRejected, AutoLoginFailed, Retry
    <2> QED
      BY <2>1 DEF OneLaunchChain
  <1> QED
    BY <1>2, <1>3, <1>4 DEF FlowInv

LEMMA UserFlow ==
  ASSUME TypeOK, FlowInv, KeyboardShown, NEW s \in Slots, UserStep(s)
  PROVE  FlowInv'
  <1>1. PICK u \in Users \union {None} :
          \/ EnterTeam(s) \/ TapLogout(s)
          \/ u \in Users /\ (TapRegistration(s, u) \/ TapSignIn(s, u))
    BY DEF UserStep
  <1>2. reqs \in [Slots -> Request \union {Idle}] /\ UNCHANGED <<screen, leaving>>
    BY <1>1 DEF TypeOK, SentType, EnterTeam, TapLogout, TapRegistration, TapSignIn, shown
  <1>3. PICK kind \in {"team", "signOut", "signUp", "signIn"}, v \in Users \union {None} :
          /\ reqs[s] = Idle
          /\ reqs' = [reqs EXCEPT ![s] = [kind |-> kind, user |-> v, live |-> TRUE]]
          /\ Current \in (IF kind = "signOut" THEN {"normal"} ELSE Flow)
          /\ kind = "signOut" => UNCHANGED display
      BY <1>1 DEF EnterTeam, TapLogout, TapRegistration, TapSignIn, Send, Touch, ReturnKey,
                  KeyboardShown, Current, Flow
  <1>4. HeardOnDisplay'
    BY <1>2, <1>3 DEF HeardOnDisplay, FlowInv, Current
  <1>5. HudHasEnd'
    <2>1. CASE kind = "signOut"
      <3>1. UNCHANGED display /\ (Busy(reqs) => Busy(reqs)')
        BY <1>2, <1>3, <2>1 DEF Busy
      <3> QED
        BY <3>1, EndsStep DEF Ends, FlowInv, Busy
    <2>2. CASE kind # "signOut"
      <3>1. Busy(reqs)'
        BY <1>2, <1>3, <2>2 DEF Busy, Idle
      <3> QED
        BY <3>1, EndsStep DEF Ends, FlowInv, Busy
    <2> QED
      BY <2>1, <2>2
  <1>6. Chain
    BY <1>1 DEF EnterTeam, TapLogout, TapRegistration, TapSignIn, Chain
  <1> QED
    BY <1>4, <1>5, <1>6, ChainStep DEF FlowInv

LEMMA QuietFlow ==
  ASSUME TypeOK, FlowInv,
         InvalidInput \/ Navigate \/ FocusField \/ HudTimer \/ UNCHANGED vars
  PROVE  FlowInv'
  <1>1. Chain /\ UNCHANGED <<reqs, leaving>>
    BY DEF InvalidInput, Navigate, FocusField, HudTimer, vars, Chain, shown
  <1>2. HeardOnDisplay'
    <2>1. UNCHANGED screen \/ {screen, screen'} \subseteq Flow
      BY DEF InvalidInput, Navigate, FocusField, HudTimer, vars, shown, Touch, Flow
    <2>2. Current' = Current \/ {Current, Current'} \subseteq Flow
      BY <1>1, <2>1 DEF Current
    <2> QED
      BY <1>1, <2>2, HearLess DEF FlowInv
  <1>3. HudHasEnd'
    <2>1. CASE InvalidInput
      BY <2>1, EndsStep DEF InvalidInput, Ends, FlowInv
    <2>2. CASE HudTimer
      BY <2>2 DEF HudTimer, HudHasEnd
    <2>3. CASE Navigate \/ FocusField \/ UNCHANGED vars
      <3>1. UNCHANGED display /\ (Busy(reqs) => Busy(reqs)')
        BY <1>1, <2>3, Zenon DEF Navigate, FocusField, vars, display, Busy
      <3> QED
        BY <3>1, EndsStep DEF Ends, FlowInv, Busy
    <2> QED
      BY <2>1, <2>2, <2>3
  <1> QED
    BY <1>1, <1>2, <1>3, ChainStep DEF FlowInv

\* An answer that ends a request and shows no other screen.
LEMMA EndedFlow ==
  ASSUME TypeOK, FlowInv, NEW s \in Slots, reqs' = Without(s), UNCHANGED shown,
         Chain, Ends(reqs')
  PROVE  FlowInv'
  <1>1. HeardOnDisplay'
    BY WithoutLess, HearLess DEF FlowInv, shown, Current
  <1> QED
    BY <1>1, EndsStep, ChainStep DEF FlowInv

\* A sign-out takes no other request with it.
LEMMA BusyWithout ==
  ASSUME TypeOK, NEW s \in Slots, reqs[s].kind = "signOut" \/ reqs[s] = Idle, Busy(reqs)
  PROVE  Busy(Without(s))
  <1>1. PICK t \in Slots : reqs[t] # Idle /\ reqs[t].kind # "signOut"
    BY DEF Busy
  <1>2. Without(s)[t] = reqs[t]
    BY <1>1, WithoutType DEF TypeOK, SentType
  <1> QED
    BY <1>1, <1>2 DEF Busy

LEMMA AnswerFlow ==
  ASSUME TypeOK, FlowInv, NEW s \in Slots,
         \/ TeamFound(s) \/ TeamWithoutId(s) \/ RequestFailed(s) \/ SignUpOk(s)
         \/ SignInOk(s) \/ LogoutOk(s) \/ LogoutFailed(s)
  PROVE  FlowInv'
  <1>0. /\ reqs \in [Slots -> Request \union {Idle}]
        /\ Without(s) \in [Slots -> Request \union {Idle}]
    BY WithoutType DEF TypeOK, SentType
  <1>00. Chain
    BY DEF TeamFound, TeamWithoutId, RequestFailed, SignUpOk, SignInOk, LogoutOk, LogoutFailed,
           Chain
  <1>1. CASE TeamFound(s)
    <2>1. LowerHud \/ DropAnswer
      BY <1>1 DEF TeamFound
    <2>2. HeardOnDisplay'
      <3>1. reqs' = Without(s) /\ (Current' = Current \/ {Current, Current'} \subseteq Flow)
        BY <1>1 DEF TeamFound, Push, shown, Current, Flow
      <3> QED
        BY <3>1, WithoutLess, HearLess DEF FlowInv
    <2> QED
      BY <1>00, <2>1, <2>2, ChainStep, EndsStep DEF Ends, FlowInv
  <1>2. CASE TeamWithoutId(s) \/ RequestFailed(s)
    <2>1. reqs' = Without(s) /\ UNCHANGED shown /\ (DropAnswer \/ ErrorHud)
      BY <1>2 DEF TeamWithoutId, RequestFailed
    <2> QED
      BY <1>00, <2>1, EndedFlow DEF Ends
  <1>3. CASE SignUpOk(s)
    <2>1. CASE reqs[s].live
      <3>1. /\ reqs' = [reqs EXCEPT ![s].kind = "firstSignIn"]
            /\ UNCHANGED <<shown, display>>
            /\ reqs[s] # Idle /\ reqs[s].kind = "signUp" /\ reqs[s] \in Request
        BY <1>0, <1>3, <2>1 DEF SignUpOk, Answering
      <3>2. reqs'[s].kind = "firstSignIn" /\ reqs'[s] # Idle
        BY <1>0, <3>1 DEF Idle, Request
      <3>3. \A t \in Slots \ {s} : reqs'[t] = reqs[t]
        BY <1>0, <3>1
      <3>4. Current \in Flow /\ UNCHANGED Current
        BY <2>1, <3>1 DEF FlowInv, HeardOnDisplay, shown, Current
      <3>5. HeardOnDisplay'
        BY <3>1, <3>2, <3>3, <3>4 DEF FlowInv, HeardOnDisplay
      <3>6. Busy(reqs)'
        BY <3>2 DEF Busy
      <3> QED
        BY <1>00, <3>5, <3>6, ChainStep, EndsStep DEF Ends, FlowInv, Busy
    <2>2. CASE ~reqs[s].live
      <3>1. reqs' = Without(s) /\ DropAnswer /\ UNCHANGED shown
        BY <1>3, <2>2 DEF SignUpOk
      <3> QED
        BY <1>00, <3>1, EndedFlow DEF Ends
    <2> QED
      BY <2>1, <2>2
  <1>4. CASE SignInOk(s)
    <2>1. HudHasEnd'
      <3>1. \/ LowerHud \/ DropAnswer
            \/ dismissals < MaxDismissals /\ dismissals' = dismissals + 1
        BY <1>4 DEF SignInOk
      <3>2. CASE dismissals' = dismissals + 1
        <4>1. dismissals' # 0
          BY <3>2 DEF TypeOK, HudType
        <4> QED
          BY <4>1 DEF HudHasEnd
      <3> QED
        BY <3>1, <3>2, EndsStep DEF Ends, FlowInv
    <2>2. HeardOnDisplay'
      <3>1. Normal(Without(s)) \/ SameScreen(Without(s))
        BY <1>4 DEF SignInOk
      <3> QED
        BY <3>1, SwitchKeepsCurrent, WithoutLess, HearLess DEF FlowInv
    <2> QED
      BY <1>00, <2>1, <2>2, ChainStep DEF FlowInv
  <1>5. CASE LogoutOk(s) \/ LogoutFailed(s)
    <2>1. /\ NotLogin(Without(s)) \/ SameScreen(Without(s))
          /\ reqs[s].kind = "signOut" /\ UNCHANGED display
      BY <1>5 DEF LogoutOk, LogoutFailed, ClearUserData, Answering
    <2>2. Busy(reqs) => Busy(reqs')
      BY <2>1, BusyWithout, SwitchKeepsCurrent
    <2>3. HudHasEnd'
      BY <2>1, <2>2, EndsStep DEF Ends, FlowInv
    <2>4. HeardOnDisplay'
      BY <2>1, SwitchKeepsCurrent, WithoutLess, HearLess DEF FlowInv
    <2> QED
      BY <1>00, <2>3, <2>4, ChainStep DEF FlowInv
  <1> QED
    BY <1>1, <1>2, <1>3, <1>4, <1>5

LEMMA FlowStep ==
  TypeOK /\ SessionInv /\ KeyboardShown /\ FlowInv /\ [Next]_vars => FlowInv'
  <1> SUFFICES ASSUME TypeOK, SessionInv, KeyboardShown, FlowInv, [Next]_vars
               PROVE  FlowInv'
    OBVIOUS
  <1>1. CASE LaunchApp \/ AutoLoginOk \/ AutoLoginRejected \/ AutoLoginFailed
    BY <1>1, LaunchFlow
  <1>2. CASE HudTimer \/ InvalidInput \/ Navigate \/ FocusField \/ UNCHANGED vars
    BY <1>2, QuietFlow
  <1>3. ASSUME NEW s \in Slots, Answer(s) PROVE FlowInv'
    <2>1. CASE DoublePush(s)
      BY <2>1, RebootFlow DEF DoublePush
    <2> QED
      BY <1>3, <2>1, AnswerFlow DEF Answer
  <1>4. ASSUME NEW s \in Slots, UserStep(s) PROVE FlowInv'
    BY <1>4, UserFlow
  <1>5. CASE Die
    BY <1>5, RebootFlow
       DEF Die, Kill, KillDuringAutoLogin, KillDuringClear, KillDuringSignIn, KillDuringSignUp
  <1>6. CASE TransitionEnds
    <2>1. Chain /\ UNCHANGED display
      BY <1>6 DEF TransitionEnds, Chain
    <2>2. HudHasEnd'
      BY <1>6, <2>1, ReleaseFlow, EndsStep DEF Ends, FlowInv
    <2> QED
      BY <1>6, <2>1, <2>2, ReleaseFlow, ChainStep DEF FlowInv
  <1> QED
    BY <1>1, <1>2, <1>3, <1>4, <1>5, <1>6 DEF Next

LEMMA FlowCorrect == Spec => []FlowInv
  <1>1. Init => FlowInv
    BY DEF Init, FlowInv, OneLaunchChain, HeardOnDisplay, HudHasEnd
  <1> QED
    BY <1>1, TypeCorrect, SessionCorrect, KeyboardCorrect, FlowStep, PTL DEF Spec

(* The launchApp of initializedApp(.error) is never scheduled beside       *)
(* another, or beside the sign-in that the last one sent.                  *)
THEOREM LaunchesOnce == Spec => []OneLaunchChain
  BY FlowCorrect, PTL DEF FlowInv

(* A request that still has a screen was sent from the current view        *)
(* controller, on display or on its way out: the completion of             *)
(* transitionViewController releases all of the others.                    *)
THEOREM AnswersHeardOnDisplay == Spec => []HeardOnDisplay
  BY FlowCorrect, PTL DEF FlowInv

(* SVProgressHUD stays up for good only if an answer was dropped.          *)
THEOREM HudAlwaysEnds == Spec => []HudHasEnd
  BY FlowCorrect, PTL DEF FlowInv

-----------------------------------------------------------------------------
(* Session implements Account                                              *)

\* The account the rest of the app sees.
SeenAccount == IF OneSession THEN mem["uid"] ELSE None
SeenVars    == <<SeenAccount, screen = "normal", kills>>

\* Handlers that leave the headers alone show the tab bar only if it was up.
SameHeaders == /\ \A k \in {"uid", "client", "accessToken"} : mem'[k] = mem[k]
               /\ UNCHANGED <<issued, kills>>

LEMMA SameAccount == SameHeaders => SeenAccount' = SeenAccount
  BY DEF SameHeaders, SeenAccount, OneSession

LEMMA StutterSeen ==
  ASSUME SameHeaders, screen' = "normal" <=> screen = "normal"
  PROVE  UNCHANGED SeenVars
  <1>1. (screen = "normal")' = (screen = "normal")
    BY Zenon
  <1> QED
    BY <1>1, SameAccount DEF SeenVars, SameHeaders

LEMMA SignInSeen ==
  ASSUME NEW u \in Users, OneSession', mem'["uid"] = u, UNCHANGED kills,
         screen' = "normal" \/ screen' = screen
  PROVE  Seen!Next
  <1>1. SeenAccount' = u
    BY DEF SeenAccount
  <1>2. (screen = "normal")' \in {screen = "normal", TRUE}
    BY Zenon
  <1>3. Seen!SignIn(u)
    BY <1>1, <1>2 DEF Seen!SignIn, SeenAccount
  <1> QED
    BY <1>3 DEF Seen!Next

\* A sign-in answer leaves its account in the headers.
LEMMA SignedInHeaders ==
  ASSUME TypeOK, SessionInv, NEW u \in Users, NEW keys, Issue(u),
         keys = KeysOf(SignInOrder) \/ keys = KeysOf(AutoOrder),
         disk' = Stored(disk, keys, u, Len(issued')),
         mem' = Stored(mem, keys, u, Len(issued'))
  PROVE  OneSession' /\ mem'["uid"] = u
  <1>1. OneSession'
    BY SignedInSession DEF SessionInv
  <1>2. Len(issued') \in Nat
    BY IssueType DEF TypeOK
  <1>3. "uid" \in keys
    BY DEF KeysOf, SignInOrder, AutoOrder
  <1>4. mem'["uid"] = Answered("uid", u, Len(issued'))
    <2>1. "uid" \in DOMAIN mem
      BY DEF TypeOK, Relay
    <2>2. mem' = [k \in DOMAIN mem |->
                    IF k \in keys THEN Answered(k, u, Len(issued')) ELSE mem[k]]
      BY DEF Stored
    <2> QED
      BY <1>3, <2>1, <2>2
  <1> QED
    BY <1>1, <1>4 DEF Answered

LEMMA ClearSeen ==
  ASSUME TypeOK, SessionInv, NEW rq, ClearUserData(rq), UNCHANGED <<issued, kills>>
  PROVE  Seen!Next
  <1>1. mem'["client"] = None
    BY DEF ClearUserData, Relay
  <1>2. ~OneSession'
    BY <1>1 DEF OneSession, TypeOK
  <1>3. screen' # "normal"
    BY <1>2, ClearSession DEF SessionInv, NormalIsSignedIn
  <1>4. Seen!SignOut
    BY <1>2, <1>3, Zenon DEF Seen!SignOut
  <1> QED
    BY <1>4 DEF Seen!Next

LEMMA RebootSeen ==
  ASSUME TypeOK, Reboot, DiskType', issued' \in Seq(Users)
  PROVE  Seen!Next
  <1>1. SeenAccount' \in Users \union {None}
    BY DEF SeenAccount, OneSession, Reboot, DiskType, Key, Relay
  <1>2. kills' = kills + 1 /\ screen' = "splash"
    BY DEF Reboot
  <1>3. Seen!Restart
    <2>1. ~(screen' = "normal")
      BY <1>2
    <2>2. (screen = "normal")' = FALSE
      BY <2>1, Zenon
    <2> QED
      BY <1>1, <1>2, <2>2 DEF Seen!Restart, SeenAccount
  <1> QED
    BY <1>3 DEF Seen!Next

\* A slot's answer, as the rest of the app sees it.
LEMMA AnswerSeen ==
  ASSUME TypeOK, SessionInv, NEW s \in Slots,
         \/ TeamFound(s) \/ TeamWithoutId(s) \/ RequestFailed(s) \/ SignUpOk(s)
         \/ SignInOk(s) \/ LogoutOk(s) \/ LogoutFailed(s)
  PROVE  [Seen!Next]_SeenVars
  <1>1. CASE TeamFound(s)
    <2>1. mem' = [mem EXCEPT !["teamId"] = Team] /\ UNCHANGED <<issued, kills>>
      BY <1>1 DEF TeamFound
    <2>2. SameHeaders
      BY <2>1 DEF SameHeaders, TypeOK, Relay
    <2>3. screen' = "normal" <=> screen = "normal"
      BY <1>1 DEF TeamFound, Push, shown, Current
    <2> QED
      BY <2>2, <2>3, StutterSeen
  <1>2. CASE TeamWithoutId(s) \/ RequestFailed(s) \/ LogoutFailed(s)
    <2>1. SameHeaders /\ UNCHANGED screen
      BY <1>2 DEF TeamWithoutId, RequestFailed, LogoutFailed, SameScreen, shown, SameHeaders
    <2> QED
      BY <2>1, StutterSeen
  <1>3. CASE SignUpOk(s)
    <2>1. reqs[s].user \in Users
      BY <1>3, AnsweringType DEF SignUpOk
    <2>2. /\ disk' = Stored(disk, KeysOf(SignUpOrder), reqs[s].user, None)
          /\ mem' = Stored(mem, KeysOf(SignUpOrder), reqs[s].user, None)
          /\ UNCHANGED <<issued, kills, screen>>
      BY <1>3 DEF SignUpOk, shown
    <2>3. KeysOf(SignUpOrder) = {"email", "password"}
      BY DEF KeysOf, SignUpOrder
    <2>4. \A k \in Relay : mem'[k] = IF k \in KeysOf(SignUpOrder)
                                   THEN Answered(k, reqs[s].user, None) ELSE mem[k]
      BY <2>1, <2>2, WritesAgree DEF SessionInv
    <2>5. \A k \in {"uid", "client", "accessToken"} : mem'[k] = mem[k]
      BY <2>3, <2>4 DEF Relay
    <2> QED
      BY <2>2, <2>5, StutterSeen DEF SameHeaders
  <1>4. CASE SignInOk(s)
    <2>1. reqs[s].user \in Users
      BY <1>4, AnsweringType DEF SignInOk
    <2>2. OneSession' /\ mem'["uid"] = reqs[s].user
      BY <1>4, <2>1, SignedInHeaders DEF SignInOk
    <2>4. UNCHANGED kills /\ (screen' = "normal" \/ screen' = screen)
      BY <1>4 DEF SignInOk, Normal, SwitchTo, SameScreen, shown
    <2> QED
      BY <2>1, <2>2, <2>4, SignInSeen
  <1>5. CASE LogoutOk(s)
    BY <1>5, ClearSeen DEF LogoutOk
  <1> QED
    BY <1>1, <1>2, <1>3, <1>4, <1>5

LEMMA LaunchSeen ==
  ASSUME TypeOK, SessionInv,
         \/ LaunchApp \/ AutoLoginOk \/ AutoLoginRejected \/ AutoLoginFailed
  PROVE  [Seen!Next]_SeenVars
  <1>1. CASE LaunchApp
    <2>1. SameHeaders
      BY <1>1 DEF LaunchApp, SameHeaders
    <2>2. OneSession => Registered(mem)
      BY DEF OneSession, Registered, TypeOK
    <2>3. screen' = "normal" <=> screen = "normal"
      BY <1>1, <2>2 DEF LaunchApp, NotLogin, SwitchTo, SameScreen, shown, SessionInv,
                        NormalIsSignedIn
    <2> QED
      BY <2>1, <2>3, StutterSeen
  <1>2. CASE AutoLoginOk
    <2>1. auto.mail \in Users
      BY <1>2 DEF AutoLoginOk, Accepted, AutoRequest, TypeOK, SentType
    <2>2. OneSession' /\ mem'["uid"] = auto.mail
      BY <1>2, <2>1, SignedInHeaders DEF AutoLoginOk
    <2> QED
      BY <1>2, <2>1, <2>2, SignInSeen DEF AutoLoginOk, Normal, SwitchTo
  <1>3. CASE AutoLoginRejected
    BY <1>3, ClearSeen DEF AutoLoginRejected
  <1>4. CASE AutoLoginFailed
    <2>1. SameHeaders /\ UNCHANGED screen
      BY <1>4 DEF AutoLoginFailed, SameScreen, shown, SameHeaders
    <2> QED
      BY <2>1, StutterSeen
  <1> QED
    BY <1>1, <1>2, <1>3, <1>4

\* A process that died is well typed again, and is at its splash screen.
LEMMA DieSeen ==
  ASSUME TypeOK, Die \/ \E s \in Slots : DoublePush(s) PROVE Seen!Next
  <1>1. DiskType' /\ issued' \in Seq(Users)
    BY DieType DEF TypeOK
  <1>2. Reboot
    BY DEF Die, Kill, KillDuringAutoLogin, KillDuringClear, KillDuringSignIn,
           KillDuringSignUp, DoublePush
  <1> QED
    BY <1>1, <1>2, RebootSeen

LEMMA SeenStep == TypeOK /\ SessionInv /\ [Next]_vars => [Seen!Next]_SeenVars
  <1> SUFFICES ASSUME TypeOK, SessionInv, [Next]_vars PROVE [Seen!Next]_SeenVars
    OBVIOUS
  <1>1. CASE LaunchApp \/ AutoLoginOk \/ AutoLoginRejected \/ AutoLoginFailed
    BY <1>1, LaunchSeen
  <1>2. ASSUME NEW s \in Slots, Answer(s) PROVE [Seen!Next]_SeenVars
    <2>1. CASE DoublePush(s)
      BY <2>1, DieSeen
    <2> QED
      BY <1>2, <2>1, AnswerSeen DEF Answer
  <1>3. ASSUME NEW s \in Slots, UserStep(s) PROVE [Seen!Next]_SeenVars
    <2>1. SameHeaders /\ UNCHANGED screen
      BY <1>3 DEF UserStep, EnterTeam, TapLogout, TapRegistration, TapSignIn, shown, SameHeaders
    <2> QED
      BY <2>1, StutterSeen
  <1>4. CASE HudTimer \/ InvalidInput \/ Navigate \/ FocusField \/ TransitionEnds
    <2>1. SameHeaders
      BY <1>4 DEF HudTimer, InvalidInput, Navigate, FocusField, TransitionEnds, SameHeaders
    <2>2. screen' = "normal" <=> screen = "normal"
      BY <1>4 DEF HudTimer, InvalidInput, Navigate, FocusField, TransitionEnds, Touch, shown
    <2> QED
      BY <2>1, <2>2, StutterSeen
  <1>5. CASE Die
    BY <1>5, DieSeen
  <1>6. CASE UNCHANGED vars
    <2>1. SameHeaders /\ UNCHANGED screen
      BY <1>6 DEF vars, SameHeaders
    <2> QED
      BY <2>1, StutterSeen
  <1> QED
    BY <1>1, <1>2, <1>3, <1>4, <1>5, <1>6 DEF Next

(* Session implements Account: whatever answers, kills and screens come    *)
(* between, the rest of the app sees its account change by a whole sign-in *)
(* answer, a sign-out or a restart, and nothing else takes the tab bar     *)
(* down.                                                                   *)
THEOREM ImplementsAccount == Spec => SeenAsAccount
  <1>1. Init => Seen!Init
    <2> SUFFICES ASSUME Init PROVE Seen!Init
      OBVIOUS
    <2>1. mem["client"] = None /\ None \notin Nat
      BY DEF Init, Relay
    <2>2. ~OneSession
      BY <2>1 DEF OneSession, Init
    <2>3. (screen = "normal") = FALSE
      BY Zenon DEF Init
    <2> QED
      BY <2>2, <2>3 DEF Seen!Init, Init
  <1>2. Spec => []SessionInv
    BY SessionCorrect
  <1> QED
    BY <1>1, <1>2, TypeCorrect, SeenStep, PTL
       DEF Spec, SeenAsAccount, Seen!Spec, SeenVars, SeenAccount

-----------------------------------------------------------------------------
(* When the session and the account on display come apart                  *)

Mixed == OneAccount /\ ~OneAccount'
Excuse == \/ kills' # kills
          \/ auto # Idle /\ auto' = Idle /\ auto.mail # disk["email"]
          \/ \E s \in Slots : /\ reqs[s] # Idle /\ reqs[s].kind = "signUp"
                              /\ reqs'[s] # reqs[s]

LEMMA MixNone ==
  ASSUME \A k \in {"uid", "client", "accessToken", "email"} : mem'[k] = mem[k]
  PROVE  ~Mixed
  BY DEF Mixed, OneAccount, Registered

LEMMA MixClear == ASSUME NEW rq, ClearUserData(rq) PROVE ~Mixed
  BY DEF ClearUserData, Mixed, OneAccount, Registered, Relay

LEMMA MixReboot == ASSUME TypeOK, Reboot PROVE Excuse
  BY DEF Reboot, TypeOK, Excuse

LEMMA MixLaunch ==
  ASSUME TypeOK, SessionInv,
         LaunchApp \/ AutoLoginOk \/ AutoLoginRejected \/ AutoLoginFailed
  PROVE  Mixed => Excuse
  <1>1. CASE LaunchApp \/ AutoLoginFailed
    BY <1>1, MixNone DEF LaunchApp, AutoLoginFailed
  <1>2. CASE AutoLoginOk
    <2>1. auto.mail \in Users /\ auto # Idle /\ auto' = Idle
      BY <1>2 DEF AutoLoginOk, Accepted, AutoRequest, TypeOK, SentType
    <2>2. /\ DiskAgrees' /\ disk'["email"] = disk["email"]
          /\ mem'["uid"] = auto.mail
      BY <1>2, <2>1, SignedInSession, SignedInHeaders DEF AutoLoginOk, SessionInv
    <2>3. mem'["email"] = disk["email"]
      BY <2>2 DEF DiskAgrees, Relay
    <2> QED
      BY <2>1, <2>2, <2>3 DEF Mixed, Excuse, OneAccount
  <1>3. CASE AutoLoginRejected
    BY <1>3, MixClear DEF AutoLoginRejected
  <1> QED
    BY <1>1, <1>2, <1>3

LEMMA MixAnswer ==
  ASSUME TypeOK, SessionInv, NEW s \in Slots,
         \/ TeamFound(s) \/ TeamWithoutId(s) \/ RequestFailed(s) \/ SignUpOk(s)
         \/ SignInOk(s) \/ LogoutOk(s) \/ LogoutFailed(s)
  PROVE  Mixed => Excuse
  <1>1. CASE TeamFound(s)
    <2>1. mem' = [mem EXCEPT !["teamId"] = Team]
      BY <1>1 DEF TeamFound
    <2>2. \A k \in {"uid", "client", "accessToken", "email"} : mem'[k] = mem[k]
      BY <2>1 DEF TypeOK, Relay
    <2> QED
      BY <2>2, MixNone
  <1>2. CASE TeamWithoutId(s) \/ RequestFailed(s) \/ LogoutFailed(s)
    BY <1>2, MixNone DEF TeamWithoutId, RequestFailed, LogoutFailed
  <1>3. CASE SignUpOk(s)
    <2>1. reqs[s] \in Request /\ reqs[s].kind = "signUp" /\ reqs[s] # Idle
      BY <1>3, AnsweringType DEF SignUpOk, Answering
    <2>2. /\ Without(s)[s] = Idle
          /\ [reqs EXCEPT ![s].kind = "firstSignIn"][s].kind = "firstSignIn"
      BY <2>1, WithoutType DEF TypeOK, SentType, Request
    <2>3. reqs'[s] # reqs[s]
      BY <1>3, <2>1, <2>2 DEF SignUpOk
    <2> QED
      BY <2>1, <2>3 DEF Excuse
  <1>4. CASE SignInOk(s)
    <2>1. reqs[s].user \in Users
      BY <1>4, AnsweringType DEF SignInOk
    <2>2. /\ DiskAgrees' /\ disk'["email"] = reqs[s].user
          /\ mem'["uid"] = reqs[s].user
      BY <1>4, <2>1, SignedInSession, SignedInHeaders DEF SignInOk, SessionInv
    <2>3. mem'["email"] = mem'["uid"]
      BY <2>2 DEF DiskAgrees, Relay
    <2> QED
      BY <2>3 DEF Mixed, OneAccount
  <1>5. CASE LogoutOk(s)
    BY <1>5, MixClear DEF LogoutOk
  <1> QED
    BY <1>1, <1>2, <1>3, <1>4, <1>5

LEMMA MixStep == TypeOK /\ SessionInv /\ [Next]_vars => [Mixed => Excuse]_vars
  <1> SUFFICES ASSUME TypeOK, SessionInv, Next PROVE Mixed => Excuse
    OBVIOUS
  <1>1. CASE LaunchApp \/ AutoLoginOk \/ AutoLoginRejected \/ AutoLoginFailed
    BY <1>1, MixLaunch
  <1>2. ASSUME NEW s \in Slots, Answer(s) PROVE Mixed => Excuse
    <2>1. CASE DoublePush(s)
      BY <2>1, MixReboot DEF DoublePush
    <2> QED
      BY <1>2, <2>1, MixAnswer DEF Answer
  <1>3. ASSUME NEW s \in Slots, UserStep(s) PROVE ~Mixed
    BY <1>3, MixNone DEF UserStep, EnterTeam, TapLogout, TapRegistration, TapSignIn
  <1>4. CASE HudTimer \/ InvalidInput \/ Navigate \/ FocusField \/ TransitionEnds
    BY <1>4, MixNone DEF HudTimer, InvalidInput, Navigate, FocusField, TransitionEnds
  <1>5. CASE Die
    BY <1>5, MixReboot
       DEF Die, Kill, KillDuringAutoLogin, KillDuringClear, KillDuringSignIn, KillDuringSignUp
  <1> QED
    BY <1>1, <1>2, <1>3, <1>4, <1>5 DEF Next

(* The headers and the account on display come apart in three ways only: a *)
(* kill, an automatic sign-in answered after the stored mail changed, or a *)
(* sign-up answered when somebody has signed in meanwhile.                 *)
THEOREM AccountsMixUp == Spec => MixUp
  <1>1. Spec => []SessionInv
    BY SessionCorrect
  <1> QED
    BY <1>1, TypeCorrect, MixStep, PTL DEF Spec, MixUp, Mixed, Excuse
=============================================================================
