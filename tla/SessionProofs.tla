---------------------------- MODULE SessionProofs ----------------------------
(* Invariants of Session, proved for every set of accounts and slots and   *)
(* every bound.                                                            *)
EXTENDS Session, TLAPS

USE NoneAssumption, BoundsAssumption

-----------------------------------------------------------------------------
(* What the operators of the model return.                                 *)

(* Storing the answer to the n-th sign-in of u keeps a store well typed.   *)
LEMMA StoredType ==
  ASSUME NEW K, NEW store \in [K -> Value], NEW keys, NEW u \in Users,
         NEW n \in Nat \union {None}
  PROVE  /\ Stored(store, keys, u, n) \in [K -> Value]
         /\ \A k \in K : Stored(store, keys, u, n)[k] =
              IF k \in keys THEN Answered(k, u, n) ELSE store[k]
  BY DEF Stored, Answered, Value

(* Releasing the screens keeps the requests, with their kinds.             *)
LEMMA OrphanedType ==
  ASSUME NEW rq \in [Slots -> Request \union {Idle}]
  PROVE  /\ Orphaned(rq) \in [Slots -> Request \union {Idle}]
         /\ \A s \in Slots : rq[s] = Idle <=> Orphaned(rq)[s] = Idle
         /\ \A s \in Slots : rq[s] # Idle =>
              /\ ~Orphaned(rq)[s].live
              /\ Orphaned(rq)[s].kind = rq[s].kind
  <1>1. ASSUME NEW s \in Slots, rq[s] # Idle
        PROVE  /\ [rq[s] EXCEPT !.live = FALSE] \in Request
               /\ [rq[s] EXCEPT !.live = FALSE] # Idle
               /\ ~[rq[s] EXCEPT !.live = FALSE].live
               /\ [rq[s] EXCEPT !.live = FALSE].kind = rq[s].kind
    BY <1>1 DEF Request, Idle
  <1> QED
    BY <1>1 DEF Orphaned

LEMMA WithoutType ==
  ASSUME reqs \in [Slots -> Request \union {Idle}], NEW s \in Slots
  PROVE  /\ Without(s) \in [Slots -> Request \union {Idle}]
         /\ \A t \in Slots : Without(s)[t] = IF t = s THEN Idle ELSE reqs[t]
  BY DEF Without

\* The screens a step may show, and the requests it leaves in flight.
LEMMA ScreenType ==
  ASSUME NEW rq \in [Slots -> Request \union {Idle}], ViewType,
         NotLogin(rq) \/ Normal(rq) \/ SameScreen(rq)
  PROVE  ViewType' /\ reqs' \in [Slots -> Request \union {Idle}]
  <1>1. CASE NotLogin(rq) \/ Normal(rq)
    <2>1. screen' \in Screen /\ leaving' \in Screen \union {"nothing"}
      BY <1>1 DEF NotLogin, Normal, SwitchTo, Current, ViewType, Screen, Flow
    <2>2. keyboard' \in BOOLEAN /\ reqs' = rq
      BY <1>1, Zenon DEF NotLogin, Normal, SwitchTo
    <2> QED
      BY <2>1, <2>2 DEF ViewType
  <1>2. CASE SameScreen(rq)
    BY <1>2 DEF SameScreen, shown, ViewType
  <1> QED
    BY <1>1, <1>2

\* The HUD stays well typed whatever a handler does to it.
HudStep == RaiseHud \/ LowerHud \/ ErrorHud \/ DropAnswer \/ UNCHANGED display

LEMMA HudStepType == HudType /\ HudStep => HudType'
  <1> SUFFICES ASSUME HudType, HudStep PROVE HudType'
    OBVIOUS
  <1>1. dismissals' \in 0..MaxDismissals
    BY DEF HudType, HudStep, RaiseHud, LowerHud, ErrorHud, DropAnswer, display
  <1>2. hud' \in BOOLEAN /\ dropped' \in BOOLEAN
    BY Zenon DEF HudType, HudStep, RaiseHud, LowerHud, ErrorHud, DropAnswer, display
  <1> QED
    BY <1>1, <1>2 DEF HudType

\* A sign-in is issued to an account, and its number is a natural number.
LEMMA IssueType ==
  ASSUME issued \in Seq(Users), NEW u \in Users, Issue(u)
  PROVE  /\ issued' \in Seq(Users)
         /\ Len(issued') = Len(issued) + 1 /\ Len(issued') \in Nat
         /\ issued'[Len(issued')] = u
         /\ \A n \in 1..Len(issued) : issued'[n] = issued[n]
  BY DEF Issue

\* A process that dies is well typed again when it has restarted.
LEMMA RebootType ==
  ASSUME TypeOK, Reboot, DiskType', issued' \in Seq(Users)
  PROVE  TypeOK'
  <1>1. mem' \in [Relay -> Value]
    BY DEF Reboot, DiskType, Key, Relay
  <1>2. kills' \in 0..MaxKills
    BY DEF Reboot, TypeOK
  <1>3. SentType'
    BY DEF Reboot, SentType
  <1>4. dismissals' \in 0..MaxDismissals
    BY DEF Reboot
  <1>5. hud' \in BOOLEAN /\ dropped' \in BOOLEAN /\ launchTimer' \in BOOLEAN
    BY Zenon DEF Reboot
  <1>6. ViewType'
    BY DEF Reboot, ViewType, Screen
  <1> QED
    BY <1>1, <1>2, <1>3, <1>4, <1>5, <1>6 DEF TypeOK, HudType

-----------------------------------------------------------------------------
(* Type correctness, one lemma for each group of actions.                  *)

\* A process that goes on: each part of the state is well typed again.
LEMMA RunningType ==
  ASSUME TypeOK, DiskType', mem' \in [Relay -> Value], ViewType', SentType',
         launchTimer' \in BOOLEAN, HudStep, issued' \in Seq(Users), UNCHANGED kills
  PROVE  TypeOK'
  BY HudStepType DEF TypeOK

\* What an answer writes to disk and to the relays.
LEMMA AnswerType ==
  ASSUME TypeOK, NEW keys, NEW u \in Users, NEW n \in Nat \union {None},
         disk' = Stored(disk, keys, u, n)
  PROVE  /\ DiskType'
         /\ \A k \in Key : disk'[k] = IF k \in keys THEN Answered(k, u, n) ELSE disk[k]
         /\ Stored(mem, keys, u, n) \in [Relay -> Value]
         /\ \A k \in Relay : Stored(mem, keys, u, n)[k] =
              IF k \in keys THEN Answered(k, u, n) ELSE mem[k]
  <1>1. disk \in [Key -> Value] /\ mem \in [Relay -> Value]
    BY DEF TypeOK, DiskType
  <1>2. /\ disk' \in [Key -> Value]
        /\ \A k \in Key : disk'[k] = IF k \in keys THEN Answered(k, u, n) ELSE disk[k]
    BY <1>1, StoredType
  <1>3. \A k \in {"email", "password", "uid"} : disk'[k] \in Users \union {None}
    BY <1>2 DEF TypeOK, DiskType, Answered, Key, Relay
  <1> QED
    BY <1>1, <1>2, <1>3, StoredType DEF DiskType

LEMMA ClearType ==
  ASSUME TypeOK, NEW rq \in [Slots -> Request \union {Idle}], ClearUserData(rq)
  PROVE  /\ DiskType' /\ mem' \in [Relay -> Value]
         /\ ViewType' /\ reqs' \in [Slots -> Request \union {Idle}]
  <1>1. DiskType' /\ mem' \in [Relay -> Value]
    BY DEF ClearUserData, DiskType, Empty, Value, Key, Relay
  <1>2. NotLogin(rq) \/ SameScreen(rq)
    BY DEF ClearUserData
  <1> QED
    BY <1>1, <1>2, ScreenType DEF TypeOK

LEMMA SendType ==
  ASSUME TypeOK, NEW s \in Slots, NEW u \in Users,
         \/ Send(s, "team", None) \/ Send(s, "signOut", None)
         \/ Send(s, "signUp", u) \/ Send(s, "signIn", u)
  PROVE  reqs' \in [Slots -> Request \union {Idle}]
  <1>1. PICK r \in Request : reqs' = [reqs EXCEPT ![s] = r]
    BY DEF Send, Request
  <1> QED
    BY <1>1 DEF TypeOK, SentType

LEMMA LaunchType ==
  ASSUME TypeOK,
         LaunchApp \/ AutoLoginOk \/ AutoLoginRejected \/ AutoLoginFailed
  PROVE  TypeOK'
  <1> USE DEF TypeOK, SentType
  <1>1. CASE LaunchApp
    <2>1. ViewType' /\ reqs' \in [Slots -> Request \union {Idle}]
      BY <1>1, ScreenType DEF LaunchApp
    <2>2. auto' \in AutoRequest \union {Idle}
      <3>1. disk["email"] \in Users \union {None} /\ disk["password"] \in Users \union {None}
        BY DEF DiskType
      <3>2. auto' = auto \/ auto' \in AutoRequest
        BY <1>1, <3>1 DEF LaunchApp, AutoRequest
      <3> QED
        BY <3>2
    <2>3. DiskType' /\ mem' \in [Relay -> Value]
      BY <1>1 DEF LaunchApp, DiskType
    <2>4. launchTimer' \in BOOLEAN
      BY <1>1 DEF LaunchApp, TimerFires
    <2> QED
      <3>1. UNCHANGED <<display, issued, kills>>
        BY <1>1 DEF LaunchApp
      <3> QED
        BY <2>1, <2>2, <2>3, <2>4, <3>1, RunningType DEF HudStep
  <1>2. CASE AutoLoginOk
    <2>1. auto.mail \in Users
      BY <1>2 DEF AutoLoginOk, Accepted, AutoRequest
    <2>2. issued' \in Seq(Users) /\ Len(issued') \in Nat
      BY <1>2, <2>1, IssueType DEF AutoLoginOk
    <2>3. DiskType' /\ mem' \in [Relay -> Value]
      BY <1>2, <2>1, <2>2, AnswerType DEF AutoLoginOk
    <2>4. ViewType' /\ SentType'
      BY <1>2, ScreenType DEF AutoLoginOk
    <2> QED
      BY <1>2, <2>2, <2>3, <2>4, RunningType DEF AutoLoginOk, HudStep
  <1>3. CASE AutoLoginRejected
    <2>1. DiskType' /\ mem' \in [Relay -> Value] /\ ViewType' /\ SentType'
      BY <1>3, ClearType DEF AutoLoginRejected, Retry
    <2> QED
      BY <1>3, <2>1, RunningType DEF AutoLoginRejected, Retry, HudStep
  <1>4. CASE AutoLoginFailed
    <2>1. DiskType' /\ mem' \in [Relay -> Value] /\ ViewType' /\ SentType'
      BY <1>4 DEF AutoLoginFailed, Retry, SameScreen, shown, DiskType, ViewType
    <2> QED
      BY <1>4, <2>1, RunningType DEF AutoLoginFailed, Retry, HudStep
  <1> QED
    BY <1>1, <1>2, <1>3, <1>4

LEMMA UserType ==
  ASSUME TypeOK, NEW s \in Slots,
         UserStep(s)
  PROVE  TypeOK'
  <1> USE DEF TypeOK, SentType, ViewType, DiskType
  <1> SUFFICES ASSUME NEW u \in Users \union {None},
                      \/ EnterTeam(s) \/ TapLogout(s)
                      \/ u \in Users /\ (TapRegistration(s, u) \/ TapSignIn(s, u))
               PROVE  TypeOK'
    BY DEF UserStep
  <1>1. PICK r \in Request : reqs' = [reqs EXCEPT ![s] = r]
    BY DEF EnterTeam, TapLogout, TapRegistration, TapSignIn, Send, Request
  <1>2. reqs' \in [Slots -> Request \union {Idle}]
    BY <1>1
  <1>3. /\ UNCHANGED <<disk, mem, screen, leaving, auto, launchTimer, issued, kills>>
        /\ HudStep
    BY DEF EnterTeam, TapLogout, TapRegistration, TapSignIn, shown, HudStep
  <1>4. keyboard' \in BOOLEAN
    BY Zenon DEF EnterTeam, TapLogout, TapRegistration, TapSignIn, shown
  <1> QED
    BY <1>2, <1>3, <1>4, RunningType

LEMMA ScreenInputType ==
  ASSUME TypeOK, InvalidInput \/ Navigate \/ FocusField \/ TransitionEnds
  PROVE  TypeOK'
  <1> USE DEF TypeOK, SentType, ViewType, DiskType
  <1>1. CASE Navigate
    <2>1. screen' \in Screen
      BY <1>1 DEF Navigate, Screen, Flow
    <2>2. keyboard' \in BOOLEAN
      BY <1>1, Zenon DEF Navigate
    <2>3. UNCHANGED <<disk, mem, leaving, reqs, auto, launchTimer, issued, kills>> /\ HudStep
      BY <1>1 DEF Navigate, HudStep
    <2> QED
      BY <2>1, <2>2, <2>3, RunningType
  <1>2. CASE InvalidInput \/ FocusField
    <2>1. keyboard' \in BOOLEAN
      BY <1>2, Zenon DEF InvalidInput, FocusField
    <2>2. /\ UNCHANGED <<disk, mem, screen, leaving, reqs, auto, launchTimer, issued, kills>>
          /\ HudStep
      BY <1>2 DEF InvalidInput, FocusField, HudStep
    <2> QED
      BY <2>1, <2>2, RunningType
  <1>3. CASE TransitionEnds
    <2>1. keyboard' \in BOOLEAN
      BY <1>3, Zenon DEF TransitionEnds
    <2>2. reqs' \in [Slots -> Request \union {Idle}]
      BY <1>3, OrphanedType DEF TransitionEnds
    <2>3. /\ UNCHANGED <<disk, mem, screen, auto, launchTimer, issued, kills>> /\ HudStep
          /\ leaving' = "nothing"
      BY <1>3 DEF TransitionEnds, HudStep
    <2> QED
      BY <2>1, <2>2, <2>3, RunningType
  <1> QED
    BY <1>1, <1>2, <1>3

LEMMA HudTimerType ==
  ASSUME TypeOK, HudTimer
  PROVE  TypeOK'
  <1> USE DEF TypeOK, SentType, ViewType, DiskType
  <1>1. dismissals' \in 0..MaxDismissals
    BY DEF HudTimer, HudType
  <1>2. hud' \in BOOLEAN /\ dropped' \in BOOLEAN
    BY Zenon DEF HudTimer
  <1>3. /\ UNCHANGED <<disk, mem, screen, leaving, keyboard>>
        /\ UNCHANGED <<reqs, auto, launchTimer, issued, kills>>
    BY DEF HudTimer, shown
  <1> QED
    BY <1>1, <1>2, <1>3 DEF HudType

\* The request in a slot whose answer arrives.
LEMMA AnsweringType ==
  ASSUME TypeOK, NEW s \in Slots, NEW kinds, Answering(s, kinds)
  PROVE  /\ reqs[s] \in Request /\ reqs[s].kind \in kinds
         /\ reqs[s].kind \in {"signUp", "firstSignIn", "signIn"} => reqs[s].user \in Users
         /\ Without(s) \in [Slots -> Request \union {Idle}]
  <1>1. reqs[s] \in Request /\ reqs[s].kind \in kinds
    BY DEF Answering, TypeOK, SentType
  <1> QED
    BY <1>1, WithoutType DEF Request, TypeOK, SentType

LEMMA AnsweredType ==
  ASSUME TypeOK, NEW s \in Slots,
         \/ TeamFound(s) \/ TeamWithoutId(s) \/ RequestFailed(s) \/ SignUpOk(s)
         \/ SignInOk(s) \/ LogoutOk(s) \/ LogoutFailed(s)
  PROVE  TypeOK'
  <1> USE DEF TypeOK, SentType, ViewType
  <1>1. CASE TeamFound(s)
    <2>1. Without(s) \in [Slots -> Request \union {Idle}]
      BY <1>1, AnsweringType DEF TeamFound
    <2>2. DiskType' /\ mem' \in [Relay -> Value]
      BY <1>1 DEF TeamFound, DiskType, Value, Key, Relay
    <2>3. screen' \in Screen /\ leaving' \in Screen \union {"nothing"} /\ HudStep
      BY <1>1 DEF TeamFound, Push, shown, Screen, Flow, HudStep
    <2>4. keyboard' \in BOOLEAN
      BY <1>1, Zenon DEF TeamFound, Push, shown
    <2> QED
      BY <1>1, <2>1, <2>2, <2>3, <2>4, RunningType DEF TeamFound
  <1>2. CASE TeamWithoutId(s) \/ RequestFailed(s)
    <2>1. Without(s) \in [Slots -> Request \union {Idle}]
      BY <1>2, AnsweringType DEF TeamWithoutId, RequestFailed
    <2>2. /\ UNCHANGED <<disk, mem, screen, leaving, keyboard, auto, launchTimer, issued, kills>>
          /\ HudStep /\ reqs' = Without(s)
      BY <1>2 DEF TeamWithoutId, RequestFailed, shown, HudStep
    <2> QED
      BY <2>1, <2>2, RunningType DEF DiskType
  <1>3. CASE SignUpOk(s)
    <2>1. /\ reqs[s] \in Request /\ reqs[s].kind = "signUp" /\ reqs[s].user \in Users
          /\ Without(s) \in [Slots -> Request \union {Idle}]
      BY <1>3, AnsweringType DEF SignUpOk
    <2>2. DiskType' /\ mem' \in [Relay -> Value]
      BY <1>3, <2>1, AnswerType DEF SignUpOk
    <2>3. reqs' \in [Slots -> Request \union {Idle}]
      <3>1. [reqs[s] EXCEPT !.kind = "firstSignIn"] \in Request
        BY <2>1 DEF Request
      <3> QED
        BY <1>3, <2>1, <3>1 DEF SignUpOk
    <2>4. HudStep /\ UNCHANGED <<screen, leaving, keyboard, auto, launchTimer, issued, kills>>
      BY <1>3 DEF SignUpOk, shown, HudStep
    <2> QED
      BY <2>2, <2>3, <2>4, RunningType
  <1>4. CASE SignInOk(s)
    <2>1. reqs[s].user \in Users /\ Without(s) \in [Slots -> Request \union {Idle}]
      BY <1>4, AnsweringType DEF SignInOk
    <2>2. issued' \in Seq(Users) /\ Len(issued') \in Nat
      BY <1>4, <2>1, IssueType DEF SignInOk
    <2>3. DiskType' /\ mem' \in [Relay -> Value]
      BY <1>4, <2>1, <2>2, AnswerType DEF SignInOk
    <2>4. ViewType' /\ reqs' \in [Slots -> Request \union {Idle}]
      BY <1>4, <2>1, ScreenType DEF SignInOk
    <2>5. \/ /\ dismissals < MaxDismissals /\ dismissals' = dismissals + 1
             /\ UNCHANGED <<hud, dropped>>
          \/ HudStep
      BY <1>4 DEF SignInOk, HudStep
    <2>6. HudType'
      BY <2>5, HudStepType DEF HudType
    <2> QED
      BY <1>4, <2>2, <2>3, <2>4, <2>6 DEF SignInOk
  <1>5. CASE LogoutOk(s)
    <2>1. Without(s) \in [Slots -> Request \union {Idle}]
      BY <1>5, AnsweringType DEF LogoutOk
    <2>2. /\ DiskType' /\ mem' \in [Relay -> Value]
          /\ ViewType' /\ reqs' \in [Slots -> Request \union {Idle}]
      BY <1>5, <2>1, ClearType DEF LogoutOk
    <2> QED
      BY <1>5, <2>2, RunningType DEF LogoutOk, HudStep
  <1>6. CASE LogoutFailed(s)
    <2>1. Without(s) \in [Slots -> Request \union {Idle}]
      BY <1>6, AnsweringType DEF LogoutFailed
    <2> QED
      BY <1>6, <2>1, RunningType DEF LogoutFailed, SameScreen, shown, HudStep, DiskType
  <1> QED
    BY <1>1, <1>2, <1>3, <1>4, <1>5, <1>6

LEMMA DieType ==
  ASSUME TypeOK, Die \/ \E s \in Slots : DoublePush(s)
  PROVE  TypeOK'
  <1> USE DEF TypeOK
  <1>1. CASE Kill
    BY <1>1, RebootType DEF Kill, DiskType
  <1>2. CASE KillDuringAutoLogin
    <2>1. auto.mail \in Users
      BY <1>2 DEF KillDuringAutoLogin, Accepted, AutoRequest, SentType
    <2>2. issued' \in Seq(Users) /\ Len(issued') \in Nat
      BY <1>2, <2>1, IssueType DEF KillDuringAutoLogin
    <2>3. DiskType'
      BY <1>2, <2>1, <2>2, AnswerType DEF KillDuringAutoLogin
    <2> QED
      BY <1>2, <2>2, <2>3, RebootType DEF KillDuringAutoLogin
  <1>3. CASE KillDuringClear
    <2>1. DiskType'
      BY <1>3 DEF KillDuringClear, DiskType, Value, Key, Relay
    <2> QED
      BY <1>3, <2>1, RebootType DEF KillDuringClear
  <1>4. ASSUME NEW s \in Slots, KillDuringSignIn(s) PROVE TypeOK'
    <2>1. reqs[s].user \in Users
      BY <1>4, AnsweringType DEF KillDuringSignIn
    <2>2. issued' \in Seq(Users) /\ Len(issued') \in Nat
      BY <1>4, <2>1, IssueType DEF KillDuringSignIn
    <2>3. DiskType'
      BY <1>4, <2>1, <2>2, AnswerType DEF KillDuringSignIn
    <2> QED
      BY <1>4, <2>2, <2>3, RebootType DEF KillDuringSignIn
  <1>5. ASSUME NEW s \in Slots, KillDuringSignUp(s) PROVE TypeOK'
    <2>1. reqs[s].user \in Users
      BY <1>5, AnsweringType DEF KillDuringSignUp
    <2>2. DiskType'
      BY <1>5, <2>1, AnswerType DEF KillDuringSignUp
    <2> QED
      BY <1>5, <2>2, RebootType DEF KillDuringSignUp
  <1>6. ASSUME NEW s \in Slots, DoublePush(s) PROVE TypeOK'
    <2>1. DiskType'
      BY <1>6 DEF DoublePush, DiskType, Value, Key, Relay
    <2> QED
      BY <1>6, <2>1, RebootType DEF DoublePush
  <1> QED
    BY <1>1, <1>2, <1>3, <1>4, <1>5, <1>6 DEF Die

LEMMA TypeStep == TypeOK /\ [Next]_vars => TypeOK'
  <1> SUFFICES ASSUME TypeOK, [Next]_vars PROVE TypeOK'
    OBVIOUS
  <1>1. CASE LaunchApp \/ AutoLoginOk \/ AutoLoginRejected \/ AutoLoginFailed
    BY <1>1, LaunchType
  <1>2. ASSUME NEW s \in Slots, Answer(s) PROVE TypeOK'
    BY <1>2, AnsweredType, DieType DEF Answer
  <1>3. ASSUME NEW s \in Slots, UserStep(s) PROVE TypeOK'
    BY <1>3, UserType
  <1>4. CASE HudTimer
    BY <1>4, HudTimerType
  <1>5. CASE Die
    BY <1>5, DieType
  <1>6. CASE InvalidInput \/ Navigate \/ FocusField \/ TransitionEnds
    BY <1>6, ScreenInputType
  <1>7. CASE UNCHANGED vars
    BY <1>7 DEF vars, TypeOK, DiskType, ViewType, SentType, HudType
  <1> QED
    BY <1>1, <1>2, <1>3, <1>4, <1>5, <1>6, <1>7 DEF Next

(* Type correctness: every store, screen, request and token has its type   *)
(* in every reachable state.                                               *)
THEOREM TypeCorrect == Spec => []TypeOK
  <1>1. Init => TypeOK
    <2> SUFFICES ASSUME Init PROVE TypeOK
      OBVIOUS
    <2>1. DiskType /\ mem \in [Relay -> Value]
      BY DEF Init, Empty, DiskType, Value, Key, Relay
    <2>2. SentType /\ ViewType
      BY DEF Init, SentType, ViewType, Screen
    <2>3. hud \in BOOLEAN /\ dropped \in BOOLEAN /\ launchTimer \in BOOLEAN
      BY Zenon DEF Init
    <2>4. dismissals \in 0..MaxDismissals /\ kills \in 0..MaxKills /\ issued \in Seq(Users)
      BY DEF Init
    <2> QED
      BY <2>1, <2>2, <2>3, <2>4 DEF TypeOK, HudType
  <1> QED
    BY <1>1, TypeStep, PTL DEF Spec

-----------------------------------------------------------------------------
(* The session: disk and relays agree, the tab bar shows one whole         *)
(* sign-in, and the credentials of the next automatic sign-in match.       *)

SessionInv == DiskAgrees /\ NormalIsSignedIn /\ StoredPair

\* A step that leaves the stores, the server and the automatic request alone
\* keeps the session, unless it brings the tab bar up.
LEMMA QuietStep ==
  ASSUME SessionInv, UNCHANGED <<disk, mem, issued, auto>>,
         screen' = "normal" => screen = "normal"
  PROVE  SessionInv'
  BY DEF SessionInv, DiskAgrees, NormalIsSignedIn, OneSession, StoredPair, Accepted

\* A restart reads the relays from the disk and is not on the tab bar.
LEMMA RebootSession ==
  ASSUME Reboot PROVE SessionInv'
  BY DEF Reboot, SessionInv, DiskAgrees, NormalIsSignedIn, StoredPair, Accepted, Idle

\* An answer that writes the same keys on disk and in the relays.
LEMMA WritesAgree ==
  ASSUME TypeOK, DiskAgrees, NEW keys, NEW u \in Users, NEW n \in Nat \union {None},
         disk' = Stored(disk, keys, u, n), mem' = Stored(mem, keys, u, n)
  PROVE  /\ DiskAgrees'
         /\ \A k \in Key : disk'[k] = IF k \in keys THEN Answered(k, u, n) ELSE disk[k]
         /\ \A k \in Relay : mem'[k] = IF k \in keys THEN Answered(k, u, n) ELSE mem[k]
  <1>1. \A k \in Key : disk'[k] = IF k \in keys THEN Answered(k, u, n) ELSE disk[k]
    BY AnswerType
  <1>2. \A k \in Relay : mem'[k] = IF k \in keys THEN Answered(k, u, n) ELSE mem[k]
    BY AnswerType
  <1>3. DiskAgrees'
    BY <1>1, <1>2 DEF DiskAgrees, Key
  <1> QED
    BY <1>1, <1>2, <1>3

\* What a sign-in answer leaves: its own tokens, on disk and in the relays.
LEMMA SignedInSession ==
  ASSUME TypeOK, DiskAgrees, NEW u \in Users, NEW keys, Issue(u),
         keys = KeysOf(SignInOrder) \/ keys = KeysOf(AutoOrder),
         disk' = Stored(disk, keys, u, Len(issued')),
         mem' = Stored(mem, keys, u, Len(issued'))
  PROVE  /\ DiskAgrees' /\ OneSession'
         /\ keys = KeysOf(SignInOrder) => disk'["email"] = u /\ disk'["password"] = u
         /\ keys = KeysOf(AutoOrder) => /\ disk'["email"] = disk["email"]
                                        /\ disk'["password"] = disk["password"]
  <1> DEFINE n == Len(issued')
  <1>1. n \in Nat /\ n \in 1..n /\ issued'[n] = u
    <2>1. issued \in Seq(Users)
      BY DEF TypeOK
    <2> QED
      BY <2>1, IssueType
  <1>2. disk' = Stored(disk, keys, u, n) /\ mem' = Stored(mem, keys, u, n)
    OBVIOUS
  <1> HIDE DEF n
  <1>3. /\ DiskAgrees'
        /\ \A k \in Key : disk'[k] = IF k \in keys THEN Answered(k, u, n) ELSE disk[k]
        /\ \A k \in Relay : mem'[k] = IF k \in keys THEN Answered(k, u, n) ELSE mem[k]
    BY <1>1, <1>2, WritesAgree
  <1>4. /\ \A k \in {"uid", "client", "accessToken"} : k \in keys
        /\ keys = KeysOf(SignInOrder) => "email" \in keys /\ "password" \in keys
        /\ keys = KeysOf(AutoOrder) => "email" \notin keys /\ "password" \notin keys
    <2>1. KeysOf(AutoOrder) = {"uid", "client", "accessToken"}
      BY DEF KeysOf, AutoOrder
    <2>2. KeysOf(SignInOrder) = {"uid", "client", "accessToken", "email", "password"}
      BY DEF KeysOf, SignInOrder
    <2> QED
      BY <2>1, <2>2
  <1>5. mem'["uid"] = u /\ mem'["client"] = n /\ mem'["accessToken"] = n
    BY <1>3, <1>4 DEF Answered, Relay
  <1>6. OneSession'
    BY <1>1, <1>5 DEF OneSession, n
  <1> QED
    BY <1>3, <1>4, <1>6 DEF Answered, Key, Relay

\* After resetALL nothing is stored, and the tab bar is gone: it was up only
\* with a session, whose end shows the login flow.
LEMMA ClearSession ==
  ASSUME TypeOK, SessionInv, NEW rq, ClearUserData(rq), UNCHANGED issued
  PROVE  SessionInv'
  <1>1. \A k \in Key : disk'[k] = None
    BY DEF ClearUserData, Empty
  <1>2. \A k \in Relay : mem'[k] = None
    BY DEF ClearUserData
  <1>3. DiskAgrees'
    BY <1>1, <1>2 DEF DiskAgrees, Key
  <1>4. screen' # "normal"
    <2>1. CASE Registered(mem)
      BY <2>1 DEF ClearUserData, NotLogin, SwitchTo
    <2>2. CASE ~Registered(mem)
      <3>1. ~OneSession
        BY <2>2, NoneAssumption DEF OneSession, Registered, TypeOK
      <3> QED
        BY <2>2, <3>1 DEF ClearUserData, SameScreen, shown, SessionInv, NormalIsSignedIn
    <2> QED
      BY <2>1, <2>2
  <1>5. StoredPair'
    BY <1>1 DEF StoredPair, Key, Relay
  <1> QED
    BY <1>3, <1>4, <1>5 DEF SessionInv, NormalIsSignedIn

\* The answers to an automatic sign-in, and the timers.
LEMMA LaunchSession ==
  ASSUME TypeOK, SessionInv,
         \/ LaunchApp \/ AutoLoginOk \/ AutoLoginRejected \/ AutoLoginFailed
         \/ HudTimer \/ InvalidInput \/ Navigate \/ FocusField \/ TransitionEnds
  PROVE  SessionInv'
  <1>1. CASE LaunchApp
    <2>1. DiskAgrees' /\ UNCHANGED <<disk, mem, issued>>
      BY <1>1 DEF LaunchApp, SessionInv, DiskAgrees
    <2>2. CASE Registered(mem)
      <3>1. /\ auto' = [kind |-> "auto", mail |-> disk["email"], pass |-> disk["password"]]
            /\ UNCHANGED screen
        BY <1>1, <2>2 DEF LaunchApp, SameScreen, shown
      <3>2. NormalIsSignedIn'
        BY <2>1, <3>1 DEF SessionInv, NormalIsSignedIn, OneSession
      <3>3. Accepted' => disk'["email"] = disk'["password"]
        BY <2>1, <3>1 DEF Accepted
      <3>4. screen' = "normal" => disk'["email"] = disk'["password"]
        BY <2>1, <3>1 DEF SessionInv, StoredPair
      <3> QED
        BY <2>1, <3>2, <3>3, <3>4 DEF SessionInv, StoredPair
    <2>3. CASE ~Registered(mem)
      <3>1. screen' = "team" /\ UNCHANGED auto
        BY <1>1, <2>3 DEF LaunchApp, NotLogin, SwitchTo
      <3> QED
        BY <2>1, <3>1, QuietStep
    <2> QED
      BY <2>2, <2>3
  <1>2. CASE AutoLoginOk
    <2>1. auto.mail \in Users /\ disk["email"] = disk["password"]
      BY <1>2 DEF AutoLoginOk, Accepted, AutoRequest, TypeOK, SentType, SessionInv, StoredPair
    <2>2. /\ DiskAgrees' /\ OneSession'
          /\ disk'["email"] = disk["email"] /\ disk'["password"] = disk["password"]
      BY <1>2, <2>1, SignedInSession DEF AutoLoginOk, SessionInv
    <2> QED
      BY <2>1, <2>2 DEF SessionInv, NormalIsSignedIn, StoredPair
  <1>3. CASE AutoLoginRejected
    BY <1>3, ClearSession DEF AutoLoginRejected, Retry
  <1>4. CASE AutoLoginFailed
    <2>1. UNCHANGED <<disk, mem, issued, screen>> /\ ~Accepted'
      BY <1>4 DEF AutoLoginFailed, Retry, SameScreen, shown, Accepted
    <2> QED
      BY <2>1 DEF SessionInv, DiskAgrees, NormalIsSignedIn, OneSession, StoredPair
  <1>5. CASE HudTimer \/ InvalidInput \/ Navigate \/ FocusField \/ TransitionEnds
    BY <1>5, QuietStep DEF HudTimer, InvalidInput, Navigate, FocusField, TransitionEnds, shown
  <1> QED
    BY <1>1, <1>2, <1>3, <1>4, <1>5

LEMMA AnswerSession ==
  ASSUME TypeOK, SessionInv, NEW s \in Slots,
         \/ TeamFound(s) \/ TeamWithoutId(s) \/ RequestFailed(s) \/ SignUpOk(s)
         \/ SignInOk(s) \/ LogoutOk(s) \/ LogoutFailed(s)
  PROVE  SessionInv'
  <1>1. CASE TeamFound(s)
    <2>1. /\ disk' = [disk EXCEPT !["teamId"] = Team]
          /\ mem' = [mem EXCEPT !["teamId"] = Team]
          /\ UNCHANGED <<auto, issued>>
          /\ screen' = "normal" => screen = "normal"
      BY <1>1 DEF TeamFound, Push, shown
    <2>2. DiskAgrees'
      BY <2>1 DEF SessionInv, DiskAgrees, TypeOK, DiskType, Key
    <2>3. \A k \in {"uid", "client", "accessToken"} : mem'[k] = mem[k]
      BY <2>1 DEF TypeOK, Relay
    <2>4. \A k \in {"email", "password"} : disk'[k] = disk[k]
      BY <2>1 DEF TypeOK, DiskType, Key, Relay
    <2> QED
      BY <2>1, <2>2, <2>3, <2>4
         DEF SessionInv, NormalIsSignedIn, OneSession, StoredPair, Accepted
  <1>2. CASE TeamWithoutId(s) \/ RequestFailed(s)
    BY <1>2, QuietStep DEF TeamWithoutId, RequestFailed, shown
  <1>3. CASE SignUpOk(s)
    <2>1. reqs[s].user \in Users
      BY <1>3, AnsweringType DEF SignUpOk
    <2>2. /\ disk' = Stored(disk, KeysOf(SignUpOrder), reqs[s].user, None)
          /\ mem' = Stored(mem, KeysOf(SignUpOrder), reqs[s].user, None)
          /\ UNCHANGED <<auto, issued, screen>>
      BY <1>3 DEF SignUpOk, shown
    <2>3. KeysOf(SignUpOrder) = {"email", "password"}
      BY DEF KeysOf, SignUpOrder
    <2>4. DiskAgrees' /\ \A k \in {"uid", "client", "accessToken"} : mem'[k] = mem[k]
      BY <2>1, <2>2, <2>3, WritesAgree DEF SessionInv, Relay
    <2>5. disk'["email"] = reqs[s].user /\ disk'["password"] = reqs[s].user
      <3>1. \A k \in Key : disk'[k] = IF k \in KeysOf(SignUpOrder)
                                     THEN Answered(k, reqs[s].user, None) ELSE disk[k]
        BY <2>1, <2>2, WritesAgree DEF SessionInv
      <3> QED
        BY <2>3, <3>1 DEF Answered, Key, Relay
    <2> QED
      BY <2>2, <2>4, <2>5 DEF SessionInv, NormalIsSignedIn, OneSession, StoredPair
  <1>4. CASE SignInOk(s)
    <2>1. reqs[s].user \in Users
      BY <1>4, AnsweringType DEF SignInOk
    <2>2. /\ DiskAgrees' /\ OneSession'
          /\ disk'["email"] = reqs[s].user /\ disk'["password"] = reqs[s].user
      BY <1>4, <2>1, SignedInSession DEF SignInOk, SessionInv
    <2> QED
      BY <2>2 DEF SessionInv, NormalIsSignedIn, StoredPair
  <1>5. CASE LogoutOk(s)
    BY <1>5, ClearSession DEF LogoutOk
  <1>6. CASE LogoutFailed(s)
    BY <1>6, QuietStep DEF LogoutFailed, SameScreen, shown
  <1> QED
    BY <1>1, <1>2, <1>3, <1>4, <1>5, <1>6

LEMMA SessionStep == TypeOK /\ SessionInv /\ [Next]_vars => SessionInv'
  <1> SUFFICES ASSUME TypeOK, SessionInv, [Next]_vars PROVE SessionInv'
    OBVIOUS
  <1>1. CASE \/ LaunchApp \/ AutoLoginOk \/ AutoLoginRejected \/ AutoLoginFailed
             \/ HudTimer \/ InvalidInput \/ Navigate \/ FocusField \/ TransitionEnds
    BY <1>1, LaunchSession
  <1>2. ASSUME NEW s \in Slots, Answer(s) PROVE SessionInv'
    <2>1. CASE DoublePush(s)
      BY <2>1, RebootSession DEF DoublePush
    <2> QED
      BY <1>2, <2>1, AnswerSession DEF Answer
  <1>3. ASSUME NEW s \in Slots, UserStep(s) PROVE SessionInv'
    BY <1>3, QuietStep DEF UserStep, EnterTeam, TapLogout, TapRegistration, TapSignIn, shown
  <1>4. CASE Die
    BY <1>4, RebootSession
       DEF Die, Kill, KillDuringAutoLogin, KillDuringClear, KillDuringSignIn, KillDuringSignUp
  <1>5. CASE UNCHANGED vars
    BY <1>5, QuietStep DEF vars
  <1> QED
    BY <1>1, <1>2, <1>3, <1>4, <1>5 DEF Next

LEMMA SessionCorrect == Spec => []SessionInv
  <1>1. Init => SessionInv
    BY DEF Init, Empty, SessionInv, DiskAgrees, NormalIsSignedIn, StoredPair, Accepted, Idle, Key
  <1> QED
    BY <1>1, TypeCorrect, SessionStep, PTL DEF Spec

(* A restart finds what the relays held: no interleaving of answers, kills *)
(* and screens makes the two stores of UserModel differ.                   *)
THEOREM DiskAlwaysAgrees == Spec => []DiskAgrees
  BY SessionCorrect, PTL DEF SessionInv

(* The tab bar, which initializedApp(.normal) shows, is on screen only     *)
(* with the three headers of one sign-in the server issued.                *)
THEOREM NormalHasOneSession == Spec => []NormalIsSignedIn
  BY SessionCorrect, PTL DEF SessionInv

(* The account that the next autoLoginAccount will send is one account's   *)
(* mail and password whenever the app is, or is about to be, signed in.    *)
THEOREM StoredPairMatches == Spec => []StoredPair
  BY SessionCorrect, PTL DEF SessionInv
=============================================================================
