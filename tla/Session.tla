------------------------------- MODULE Session -------------------------------
(***************************************************************************)
(* The signed-in session of the app: what UserDefaults keeps, what the     *)
(* relays of UserModel hold, which screen RootViewController shows, and    *)
(* the requests whose answers change them.                                 *)
(*                                                                         *)
(* Every callback runs on the main queue, so a handler is one step.  What  *)
(* interleaves is the answers of the server, the delayed launchApp, the    *)
(* delayed dismissals of the progress HUD, the ends of the transitions     *)
(* between the root's view controllers, the user, and the system killing   *)
(* the process - between two handlers or between two of the UserDefaults   *)
(* writes of one handler.                                                  *)
(***************************************************************************)
EXTENDS Integers, Sequences

CONSTANTS
  Users,         (* accounts: a user stands for a mail address, its name, *)
                 (* its password and the uid the server gives it          *)
  Team,          (* the team whose code the user enters                   *)
  None,          (* the default of every key: "" or 0                     *)
  Slots,         (* requests sent from a screen that can be in flight     *)
  MaxSignIns,    (* bound: successful sign-ins of a behaviour             *)
  MaxDismissals, (* bound: delayed HUD dismissals pending at once         *)
  MaxKills       (* bound: times the system kills the process             *)

ASSUME NoneAssumption   == None \notin Users \union {Team} \union Nat
ASSUME BoundsAssumption == /\ MaxSignIns \in Nat
                           /\ MaxDismissals \in Nat \ {0}
                           /\ MaxKills \in Nat

VARIABLES
  disk,          (* UserDefaults, by key                                  *)
  mem,           (* the relays of UserModel                               *)
  screen,        (* the top screen of what the root shows or moves to     *)
  leaving,       (* the top screen of what the root moves away from       *)
  reqs,          (* Slots -> the request in flight there                  *)
  auto,          (* the autoLoginAccount request in flight, or Idle       *)
  launchTimer,   (* a launchApp is scheduled (1 s at start, 5 s later)    *)
  hud,           (* SVProgressHUD is up; its mask swallows every touch    *)
  keyboard,      (* the keyboard of the team screen is up                 *)
  dismissals,    (* SVProgressHUD.dismiss(withDelay:) still to run        *)
  issued,        (* server: issued[n] is the account of the n-th sign-in  *)
  dropped,       (* history: an answer reached no screen since hud rose   *)
  kills          (* how often the process was killed                      *)

vars == <<disk, mem, screen, leaving, reqs, auto, launchTimer, hud, keyboard,
          dismissals, issued, dropped, kills>>
display == <<hud, dismissals, dropped>>  \* the HUD and its pending dismissals
shown   == <<screen, leaving, keyboard>> \* what is on display under the HUD

-----------------------------------------------------------------------------
(* State                                                                   *)

Relay == {"teamId", "email", "uid", "client", "accessToken"}
Key   == Relay \union {"password"}
Flow  == {"team", "registration", "login"}
Screen == Flow \union {"splash", "normal"}

Idle == [kind |-> "idle"]
AutoRequest == [kind : {"auto"}, mail : Users \union {None}, pass : Users \union {None}]
Request == [kind : {"team", "signOut"}, user : {None}, live : BOOLEAN] \union
           [kind : {"signUp", "firstSignIn", "signIn"}, user : Users, live : BOOLEAN]

Empty == [k \in Key |-> None]
Registered(m) == m["uid"] # None /\ m["client"] # None /\ m["accessToken"] # None

Init ==
  /\ disk = Empty
  /\ mem = [k \in Relay |-> None]
  /\ screen = "splash" /\ leaving = "nothing"
  /\ reqs = [s \in Slots |-> Idle]
  /\ auto = Idle
  /\ launchTimer = TRUE
  /\ hud = FALSE /\ dismissals = 0 /\ dropped = FALSE
  /\ keyboard = FALSE
  /\ issued = <<>>
  /\ kills = 0

-----------------------------------------------------------------------------
(* Writes.  Both sign-in answers and the sign-up answer assign some keys,  *)
(* each on disk first and then in the relay of the same name.              *)

AnsweredSwapped(k, u, n) == IF k = "uid" THEN n ELSE u               \* mutant
\* What the answer to the n-th sign-in, of account u, puts under key k.
Answered(k, u, n) == IF k \in {"client", "accessToken"} THEN n ELSE u

Stored(store, keys, u, n) ==
  [k \in DOMAIN store |-> IF k \in keys THEN Answered(k, u, n) ELSE store[k]]

\* The keys each handler writes, in the order of the source.
NoMailOrder     == <<"uid", "client", "accessToken", "password">>    \* mutant
NoPasswordOrder == <<"uid", "client", "accessToken", "email">>       \* mutant
NoTokenOrder    == <<"uid", "client">>                               \* mutant
SignInOrder == <<"uid", "client", "accessToken", "email", "password">>
AutoOrder   == <<"uid", "client", "accessToken">>
SignUpOrder == <<"email", "password">>

KeysOf(order)   == {order[j] : j \in 1..Len(order)}
Prefixes(order) == {{order[j] : j \in 1..i} : i \in 0..Len(order)}

-----------------------------------------------------------------------------
(* Screens.  The root moves to a new view controller in 0.25 s, and only   *)
(* then releases the old one with its screens: the requests they sent stay *)
(* in flight, but no screen hears the answer any more.                     *)

Retained(rq) == rq                                                   \* mutant
Orphaned(rq) == [s \in Slots |-> IF rq[s] = Idle THEN Idle
                                 ELSE [rq[s] EXCEPT !.live = FALSE]]

Without(s) == [reqs EXCEPT ![s] = Idle]

\* The top screen of currentViewController, which is the old one until the
\* transition has ended.  New screens take no input before, so whatever an
\* answer is heard by is there.
Current == IF leaving = "nothing" THEN screen ELSE leaving

\* transitionViewController, which always starts from currentViewController.
\* The text field of the team screen resigns as it disappears.  rq is what is
\* in flight after the answer at hand.
SwitchTo(new, rq) ==
  screen' = new /\ leaving' = Current /\ keyboard' = FALSE /\ reqs' = rq

\* initializedApp(.notLogin): a new login flow, which starts at the team code
NotLogin(rq) == SwitchTo("team", rq)
\* switchViewType(.normal): a new tab bar
Normal(rq)   == SwitchTo("normal", rq)
SameScreen(rq) == UNCHANGED shown /\ reqs' = rq

\* The completion.  The field of the team screen becomes first responder when
\* it has appeared.
TransitionEnds ==
  /\ leaving # "nothing"
  /\ leaving' = "nothing"
  /\ reqs' = Orphaned(reqs)
  /\ keyboard' = (screen = "team")
  /\ UNCHANGED <<disk, mem, screen, auto, launchTimer, display, issued, kills>>

RaiseHud   == hud' = TRUE /\ UNCHANGED <<dismissals, dropped>>
KeepHud    == UNCHANGED display                                      \* mutant
LowerHud   == hud' = FALSE /\ dropped' = FALSE /\ UNCHANGED dismissals
\* showError(withStatus:) followed by dismiss(withDelay:)
ErrorHud   == /\ dismissals < MaxDismissals
              /\ hud' = TRUE /\ dismissals' = dismissals + 1
              /\ UNCHANGED dropped
DropAnswer == dropped' = hud /\ UNCHANGED <<hud, dismissals>>

\* A delayed dismissal fires; it also takes down a HUD that was raised since.
HudTimer ==
  /\ dismissals > 0
  /\ dismissals' = dismissals - 1
  /\ hud' = FALSE /\ dropped' = FALSE
  /\ UNCHANGED <<disk, mem, shown, reqs, auto, launchTimer, issued, kills>>

-----------------------------------------------------------------------------
(* Start and automatic sign-in                                             *)

RepeatingTimer == launchTimer /\ UNCHANGED launchTimer               \* mutant
TimerFires     == launchTimer /\ launchTimer' = FALSE

\* The scheduled launchApp: sign in again with the stored account, or login.
LaunchApp ==
  /\ TimerFires
  /\ \/ /\ Registered(mem)
        /\ auto' = [kind |-> "auto", mail |-> disk["email"], pass |-> disk["password"]]
        /\ SameScreen(reqs)
     \/ ~Registered(mem) /\ NotLogin(reqs) /\ UNCHANGED auto
  /\ UNCHANGED <<disk, mem, display, issued, kills>>

\* The server signs a mail in only with the password of that mail.
Accepted == auto # Idle /\ auto.mail # None /\ auto.mail = auto.pass
Issue(u) == Len(issued) < MaxSignIns /\ issued' = Append(issued, u)

AutoLoginOk ==
  /\ Accepted /\ Issue(auto.mail)
  /\ disk' = Stored(disk, KeysOf(AutoOrder), auto.mail, Len(issued'))
  /\ mem'  = Stored(mem, KeysOf(AutoOrder), auto.mail, Len(issued'))
  /\ auto' = Idle
  /\ Normal(reqs)
  /\ UNCHANGED <<launchTimer, display, kills>>

\* initializedApp(.error): the error HUD, and launchApp again in 5 s.
RetryForgotten == auto' = Idle /\ UNCHANGED launchTimer /\ ErrorHud   \* mutant
Retry          == auto' = Idle /\ launchTimer' = TRUE /\ ErrorHud

\* resetALL and the relays re-read; isRegistered falling to false shows the
\* login flow.
ClearDisk(rq) ==                                                     \* mutant
  /\ disk' = Empty /\ UNCHANGED mem
  /\ IF Registered(mem) THEN NotLogin(rq) ELSE SameScreen(rq)
ClearUserData(rq) ==
  /\ disk' = Empty
  /\ mem' = [k \in Relay |-> None]
  /\ IF Registered(mem) THEN NotLogin(rq) ELSE SameScreen(rq)

\* 400 or 401
AutoLoginRejected ==
  /\ auto # Idle
  /\ ClearUserData(reqs)
  /\ Retry
  /\ UNCHANGED <<issued, kills>>

\* Any other status, missing headers, or no answer
AutoLoginFailed ==
  /\ auto # Idle
  /\ Retry
  /\ SameScreen(reqs)
  /\ UNCHANGED <<disk, mem, issued, kills>>

-----------------------------------------------------------------------------
(* The login flow: team code, then registration, then login                *)

Send(s, kind, u) == /\ reqs[s] = Idle
                    /\ reqs' = [reqs EXCEPT ![s] = [kind |-> kind, user |-> u, live |-> TRUE]]

\* The HUD's mask covers the window; while it is up no control can be touched,
\* nor while a transition is running.
Touch(sc) == screen = sc /\ ~hud /\ leaving = "nothing"

\* The keyboard's own window lies above the mask.  The return key resigns.
ReturnKey == screen = "team" /\ keyboard

\* The keyboard goes when the onboarding covers the team screen, and comes
\* when that is closed or the text field is touched.
FocusField ==
  /\ Touch("team") \/ ReturnKey
  /\ keyboard' = ~keyboard
  /\ UNCHANGED <<disk, mem, screen, leaving, reqs, auto, launchTimer, display, issued, kills>>

EnterTeam(s) ==
  /\ ReturnKey
  /\ Send(s, "team", None)
  /\ RaiseHud
  /\ keyboard' = FALSE
  /\ UNCHANGED <<disk, mem, screen, leaving, auto, launchTimer, issued, kills>>

\* An empty field on any of the three screens, or a sign-up without a team
\* (registerAccount answers false at once).
InvalidInput ==
  /\ Touch("registration") \/ Touch("login") \/ ReturnKey
  /\ ErrorHud
  /\ keyboard' = FALSE
  /\ UNCHANGED <<disk, mem, screen, leaving, reqs, auto, launchTimer, issued, kills>>

TapRegistration(s, u) ==
  /\ Touch("registration") /\ mem["teamId"] # None
  /\ Send(s, "signUp", u)
  /\ RaiseHud
  /\ UNCHANGED <<disk, mem, shown, auto, launchTimer, issued, kills>>

TapSignIn(s, u) ==
  /\ Touch("login")
  /\ Send(s, "signIn", u)
  /\ RaiseHud
  /\ UNCHANGED <<disk, mem, shown, auto, launchTimer, issued, kills>>

\* The login button of the registration screen, and the back buttons
Navigate ==
  /\ \/ Touch("registration") /\ screen' \in {"team", "login"}
     \/ Touch("login") /\ screen' = "registration"
  /\ keyboard' = (screen' = "team")
  /\ UNCHANGED <<disk, mem, leaving, reqs, auto, launchTimer, display, issued, kills>>

Answering(s, kinds) == reqs[s] # Idle /\ reqs[s].kind \in kinds

\* The team screen pushes its one registration screen, on its own flow.
Push == /\ keyboard' = FALSE
        /\ IF leaving = "nothing" THEN screen' = "registration" /\ UNCHANGED leaving
                                  ELSE leaving' = "registration" /\ UNCHANGED screen

\* 200 with an id
TeamFound(s) ==
  /\ Answering(s, {"team"})
  /\ disk' = [disk EXCEPT !["teamId"] = Team]
  /\ mem'  = [mem EXCEPT !["teamId"] = Team]
  /\ reqs' = Without(s)
  /\ \/ reqs[s].live /\ Current = "team" /\ LowerHud /\ Push
     \/ ~reqs[s].live /\ DropAnswer /\ UNCHANGED shown
  /\ UNCHANGED <<auto, launchTimer, issued, kills>>

\* 200 whose body has no id: checkTeamId tells its observer nothing.
TeamWithoutId(s) ==
  /\ Answering(s, {"team"})
  /\ reqs' = Without(s)
  /\ DropAnswer
  /\ UNCHANGED <<disk, mem, shown, auto, launchTimer, issued, kills>>

\* A refusal or no answer, shown by the screen that asked
RequestFailed(s) ==
  /\ Answering(s, {"team", "signUp", "firstSignIn", "signIn"})
  /\ reqs' = Without(s)
  /\ IF reqs[s].live THEN ErrorHud ELSE DropAnswer
  /\ UNCHANGED <<disk, mem, shown, auto, launchTimer, issued, kills>>

\* The account is created: store it, and sign in if the screen still listens.
SignUpOk(s) ==
  /\ Answering(s, {"signUp"})
  /\ disk' = Stored(disk, KeysOf(SignUpOrder), reqs[s].user, None)
  /\ mem'  = Stored(mem, KeysOf(SignUpOrder), reqs[s].user, None)
  /\ IF reqs[s].live
       THEN reqs' = [reqs EXCEPT ![s].kind = "firstSignIn"] /\ UNCHANGED display
       ELSE reqs' = Without(s) /\ DropAnswer
  /\ UNCHANGED <<shown, auto, launchTimer, issued, kills>>

\* saveUserData, which then copies the relays to disk, changes nothing more.
SignInOk(s) ==
  /\ Answering(s, {"firstSignIn", "signIn"}) /\ Issue(reqs[s].user)
  /\ disk' = Stored(disk, KeysOf(SignInOrder), reqs[s].user, Len(issued'))
  /\ mem'  = Stored(mem, KeysOf(SignInOrder), reqs[s].user, Len(issued'))
  /\ \/ /\ reqs[s].live /\ reqs[s].kind = "signIn"
        /\ dismissals < MaxDismissals /\ dismissals' = dismissals + 1
        /\ UNCHANGED <<hud, dropped>>                 \* dismiss(withDelay: 1)
     \/ reqs[s].live /\ reqs[s].kind = "firstSignIn" /\ LowerHud
     \/ ~reqs[s].live /\ DropAnswer
  /\ IF reqs[s].live THEN Normal(Without(s)) ELSE SameScreen(Without(s))
  /\ UNCHANGED <<auto, launchTimer, kills>>

-----------------------------------------------------------------------------
(* Logout, from the account screen of the tab bar                          *)

TapLogout(s) ==
  /\ Touch("normal")
  /\ Send(s, "signOut", None)
  /\ UNCHANGED <<disk, mem, shown, auto, launchTimer, display, issued, kills>>

LogoutOk(s) ==
  /\ Answering(s, {"signOut"})
  /\ ClearUserData(Without(s))
  /\ UNCHANGED <<auto, launchTimer, display, issued, kills>>

LogoutFailed(s) ==
  /\ Answering(s, {"signOut"})
  /\ SameScreen(Without(s))
  /\ UNCHANGED <<disk, mem, auto, launchTimer, display, issued, kills>>

-----------------------------------------------------------------------------
(* The process dies and is started again.                                  *)

Reboot ==
  /\ kills < MaxKills
  /\ kills' = kills + 1
  /\ mem' = [k \in Relay |-> disk'[k]]
  /\ screen' = "splash" /\ leaving' = "nothing" /\ keyboard' = FALSE
  /\ reqs' = [s \in Slots |-> Idle]
  /\ auto' = Idle /\ launchTimer' = TRUE
  /\ hud' = FALSE /\ dismissals' = 0 /\ dropped' = FALSE

Kill == UNCHANGED <<disk, issued>> /\ Reboot

\* In the middle of the writes of a sign-in, automatic sign-in or sign-up
\* answer: a prefix of them has reached the disk.
KillDuringSignIn(s) ==
  /\ Answering(s, {"firstSignIn", "signIn"}) /\ Issue(reqs[s].user)
  /\ \E keys \in Prefixes(SignInOrder) :
       disk' = Stored(disk, keys, reqs[s].user, Len(issued'))
  /\ Reboot

KillDuringAutoLogin ==
  /\ Accepted /\ Issue(auto.mail)
  /\ \E keys \in Prefixes(AutoOrder) :
       disk' = Stored(disk, keys, auto.mail, Len(issued'))
  /\ Reboot

KillDuringSignUp(s) ==
  /\ Answering(s, {"signUp"})
  /\ \E keys \in Prefixes(SignUpOrder) :
       disk' = Stored(disk, keys, reqs[s].user, None)
  /\ Reboot /\ UNCHANGED issued

\* resetALL removes the keys one by one, in the order of a dictionary.
KillDuringClear ==
  /\ auto # Idle \/ \E s \in Slots : Answering(s, {"signOut"})
  /\ \E keys \in SUBSET Key :
       disk' = [k \in Key |-> IF k \in keys THEN None ELSE disk[k]]
  /\ Reboot /\ UNCHANGED issued

\* UIKit raises when a view controller is pushed that is on the stack already:
\* the screen that pushed it was not on top any more.
DoublePush(s) ==
  /\ Answering(s, {"team"}) /\ reqs[s].live /\ Current # "team"
  /\ disk' = [disk EXCEPT !["teamId"] = Team]
  /\ Reboot /\ UNCHANGED issued

-----------------------------------------------------------------------------
(* Specification                                                           *)

Answer(s) == TeamFound(s) \/ TeamWithoutId(s) \/ RequestFailed(s) \/ SignUpOk(s)
             \/ SignInOk(s) \/ LogoutOk(s) \/ LogoutFailed(s) \/ DoublePush(s)
UserStep(s) == EnterTeam(s) \/ TapLogout(s)
               \/ \E u \in Users : TapRegistration(s, u) \/ TapSignIn(s, u)
Die == Kill \/ KillDuringAutoLogin \/ KillDuringClear
       \/ \E s \in Slots : KillDuringSignIn(s) \/ KillDuringSignUp(s)

Next ==
  \/ LaunchApp \/ AutoLoginOk \/ AutoLoginRejected \/ AutoLoginFailed
  \/ HudTimer \/ TransitionEnds \/ InvalidInput \/ Navigate \/ FocusField
  \/ \E s \in Slots : Answer(s) \/ UserStep(s)
  \/ Die

Spec == Init /\ [][Next]_vars

\* Fairness.  Timers fire, and every request ends: the server answers it or
\* URLSession times it out.  A server that is asked again and again to sign
\* the stored account in does not fail to decide each time.
Fairness ==
  /\ WF_vars(LaunchApp) /\ WF_vars(HudTimer)
  /\ WF_vars(AutoLoginOk \/ AutoLoginRejected \/ AutoLoginFailed)
  /\ SF_vars(AutoLoginOk \/ AutoLoginRejected)
  /\ \A s \in Slots : WF_vars(Answer(s))

FairSpec == Spec /\ Fairness

-----------------------------------------------------------------------------
(* Properties                                                              *)

Value == Users \union {Team, None} \union Nat

DiskType == /\ disk \in [Key -> Value]
            /\ \A k \in {"email", "password", "uid"} : disk[k] \in Users \union {None}
ViewType == /\ screen \in Screen /\ leaving \in Screen \union {"nothing"}
            /\ keyboard \in BOOLEAN
SentType == reqs \in [Slots -> Request \union {Idle}] /\ auto \in AutoRequest \union {Idle}
HudType  == hud \in BOOLEAN /\ dismissals \in 0..MaxDismissals /\ dropped \in BOOLEAN

(* Types.  A token is the number of a sign-in the server has issued.       *)
TypeOK ==
  /\ DiskType
  /\ mem \in [Relay -> Value]
  /\ ViewType
  /\ SentType
  /\ launchTimer \in BOOLEAN
  /\ HudType
  /\ issued \in Seq(Users)
  /\ kills \in 0..MaxKills

(* The relays the requests take their headers from and the keys a restart  *)
(* reads never differ, whichever answers, kills and screens came between.  *)
DiskAgrees == \A k \in Relay : disk[k] = mem[k]

(* uid, client and accessToken are the headers of one sign-in answer.      *)
OneSession == /\ mem["client"] \in 1..Len(issued)
              /\ mem["accessToken"] = mem["client"]
              /\ mem["uid"] = issued[mem["client"]]

(* The tab bar is on screen only with the headers of one whole sign-in     *)
(* answer: never signed out, and never with headers that a kill in the     *)
(* middle of an earlier answer left mixed on disk.                         *)
NormalIsSignedIn == screen = "normal" => OneSession

(* While the tab bar is on screen, or about to be because the server will   *)
(* accept the automatic sign-in, the mail and the password kept for the    *)
(* next one belong together (or both are gone), although three handlers    *)
(* write them and a kill can separate them.                                *)
StoredPair == screen = "normal" \/ Accepted => disk["email"] = disk["password"]

(* There is one chain of launchApp, sign-in request and retry: a retry is  *)
(* never scheduled twice nor while a request is still in flight.           *)
OneLaunchChain == ~(launchTimer /\ auto # Idle)

(* An answer is heard only by the flow on display or, until the transition *)
(* away from it has ended, by the one on its way out: afterwards no old    *)
(* login flow can bring the tab bar up, push a screen or show a message.   *)
HeardOnDisplay ==
  \A s \in Slots : reqs[s] # Idle /\ reqs[s].live =>
    Current \in (IF reqs[s].kind = "signOut" THEN {"normal"} ELSE Flow)

(* The HUD, which blocks the whole app, is up only while its dismissal is  *)
(* scheduled or a request that lowers it is in flight - unless an answer   *)
(* reached no screen, which is the way the app can be stuck behind it.     *)
HudHasEnd ==
  hud /\ dismissals = 0 /\ ~dropped =>
    \E s \in Slots : reqs[s] # Idle /\ reqs[s].kind # "signOut"

(* The session and the account on display come apart in three ways only: a *)
(* kill, an automatic sign-in answered after the stored account changed,   *)
(* or a sign-up answered when somebody has signed in meanwhile.            *)
OneAccount == Registered(mem) => mem["email"] = mem["uid"]
MixUp ==
  [][OneAccount /\ ~OneAccount' =>
       \/ kills' # kills
       \/ auto # Idle /\ auto' = Idle /\ auto.mail # disk["email"]
       \/ \E s \in Slots : /\ reqs[s] # Idle /\ reqs[s].kind = "signUp"
                           /\ reqs'[s] # reqs[s]]_vars

(* Session implements Account.  As the rest of the app sees it, the        *)
(* account changes only by a whole sign-in answer, a sign-out, which takes *)
(* the tab bar with it, or a restart; and the tab bar goes only with one   *)
(* of the last two.                                                        *)
Seen == INSTANCE Account WITH
  Accounts <- Users,
  account  <- IF OneSession THEN mem["uid"] ELSE None,
  tab      <- screen = "normal"
SeenAsAccount == Seen!Spec

(* The splash screen is left: by a sign-in, or for the login flow.         *)
LeavesSplash == screen = "splash" ~> screen # "splash"

(* The HUD is lowered, or the answer meant to lower it reached no screen.  *)
HudLowered == hud ~> ~hud \/ dropped
=============================================================================
