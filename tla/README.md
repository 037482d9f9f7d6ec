# マッチマッチ (karupasu): a TLA+ model of the iOS app

This directory models the logic of the iOS app under `src/ios/karupasu`
(paths below are relative to it): TLA+ modules, TLC configurations that check
them on small instances, and theorems whose proofs TLAPS checks.  The app finds
company for events inside a team: sign in with a team code, search events,
bookmark them, apply for a prefecture, create and edit events, and see the talk
rooms of the events that found enough participants.

The app is written with RxSwift and Unio: every screen has a *view stream* that
turns inputs (taps, `viewWillAppear`) into outputs, and singletons under
`Model/` own relays (observable values) and send requests through Moya
providers.  All callbacks of the app's own code run on the main queue, so **one
handler is one step of the models**.  What interleaves is everything between
handlers: answers of the server (in any order, or never), delayed calls
(`asyncAfter`, the HUD's `dismiss(withDelay:)`), the polling thread, Firebase
uploads, the user, and the system killing the process.  The repository has no
tests.

## Inventory

| Component | State | Operations | Interacts with | What is hard |
|---|---|---|---|---|
| **Session** (`Model/UserModel`, `Common/AppData`, `Util/UserDefaults`, `Controller/Root`, `Controller/Login`, `Controller/Team`, `Controller/Account`) | UserDefaults keys, the relays of `UserModel`, the view controller on display, requests in flight, the progress HUD | team check, sign-up, sign-in, automatic sign-in with retry, logout, clear | all requests take their headers from its relays; its clear removes every key; its screens own the view streams | answers after the screen or the session that asked is gone; the retry chain; kills between two writes; a HUD that blocks the app |
| **Talk rooms** (`Model/RoomModel`, `RootViewStream.observe`, `Controller/Chat/TalkRoom*`) | the `rooms` relay, `roomIds` in UserDefaults, the list on display, lookups in flight | poll, compare, look up, append, show | headers of the session; removed by its clear; event search | lists and lookups out of order; lookups of two polls at once; answers under another account; an empty list is never told |
| **Event detail, application and option list** (`EventDetail*`, `EventApply*`, `EventOptionSelect*`) | one reused screen of each kind: current event, picked options, old options, `optionFlag`, marks of the table | open, pick, confirm (apply and cancel requests), close, reload | event requests, `prefectures` relay, the event list opens it | one screen serves event after event, so a late answer or a kept choice lands on the wrong event; request order decides the result |
| **Event list, search and bookmarks** (`EventCollection*`, `Search*`, `Bookmark*`) | items on display, bookmark toggles in flight, keyword and filter | search per change, toggle, reload | event requests, detail screen, genre filter | results out of order, write-back by stale index, optimistic button |
| **Event creation and editing** (`EventCreate*`, `EventEdit*`, `Event*Confirm*`, `PlaceSelect*`, `GenreSelect*`) | form fields, confirmation, upload and post in flight | fill, validate, upload, post or put | `uploadThumbnail`, event requests, HUD | two requests in a row of which either can fail or answer late |
| **Genres** (`Model/GenreModel`, `PlaceModel`, `EventFilter*`, `EventGenreSelect*`) | the genres of the last answer, the marked rows of two tables, the filter and the pick | fetch, open, mark, unmark | the search, the form | an empty or undecodable answer produces no event at all; answers replace rows under marks, in the window or out of it |
| **Root navigation** (`RootViewController.transitionViewController`, `TabBarMenu*`) | children, current view controller, transitions running | replace, present | session | a second transition inside the 0.25 s of the first; a flow on its way out that still hears answers |

Not modelled: `View/*` and `Extention/*` (layout and helpers), `Splash`,
`Onboarding`, `Navigation` (static screens; `Over`, the match screen, is part of
`EventForm`), the tabs of `TabBarMenu`, `Library/SemiModal`
(animation), `Controller/Chat/TalkViewController` (a mock conversation that no
server backs), `Provider/*` beyond their headers (paths and HTTP methods),
assets and project files, and `Pods`, which is third-party code, but for what the
app depends on in it: the mask of SVProgressHUD and its delayed dismissals
(`Session`, `EventForm`), and what the table data sources of RxDataSources do to
rows and marks (`EventList`, `Genres`).  The prefectures, which are fetched and
kept as the genres are, are part of `EventApply`.

The app is Swift, some twelve thousand lines of it; nearly all other source in
the repository is the vendored C, C++ and Objective-C of Firebase, gRPC and
BoringSSL.  Measured against all of that, what the modules map is next to
nothing; of the app's own view streams and models they map most.

What makes each component correct:

* Session: the two copies of the session agree; the app shows its tab bar only
  with the headers of one sign-in; the credentials of the next automatic sign-in
  belong together; one launch chain; nothing hears an answer but what is on
  display or on its way out; the HUD comes down; the splash screen is left.
* Talk rooms: the list shows matched rooms of the account signed in, each once;
  a full room is stored and a room that was left is forgotten.
* Application: what is sent to the server is the difference between what the
  user had and what the user picked, for the event on display.
* Root navigation: what was asked for last is on display in the end, and nothing
  that is not on display, or on its way out, is heard.
* Genres: what is marked is what is used.
* Event list: an item shows the last answer of the server about it; toggles are
  not lost.
* Forms: a confirmation posts what the form shows, once, and ends with an answer.

## Modules

| Module | Models | Composes / extends |
|---|---|---|
| `Session` | the session component | - |
| `Account` | what the rest of the app sees of the session: abstract | - |
| `MCSession` | a small instance for TLC | `Session` |
| `SessionProofs`, `SessionFlowProofs` | theorems about `Session` | `Session`, and `Account` by refinement |
| `Rooms` | the talk rooms component | composed with `Account` |
| `MCRooms` | small instances for TLC | `Rooms` |
| `RoomsProofs` | theorems about `Rooms` | `Rooms` |
| `EventApply` | event detail, application sheet and option list | - |
| `MCEventApply` | small instances for TLC | `EventApply` |
| `EventApplyProofs` | theorems about `EventApply` | `EventApply` |
| `EventList` | the lists of events: search, bookmarks, applications | - |
| `MCEventList` | a small instance for TLC | `EventList` |
| `EventListProofs` | theorems about `EventList` | `EventList` |
| `EventForm` | the form of an event, new or edited, and its confirmation | - |
| `MCEventForm` | small instances for TLC | `EventForm` |
| `EventFormProofs` | theorems about `EventForm` | `EventForm` |
| `RootNavigation` | transitions between the root's view controllers | - |
| `RootNavigationProofs` | theorems about `RootNavigation` | `RootNavigation` |
| `Genres` | the genres, the filter popover and the genre picker | - |
| `MCGenres` | a small instance for TLC | `Genres` |
| `GenresProofs` | theorems about `Genres` | `Genres` |

### Session

`disk` is UserDefaults and `mem` the relays of `UserModel`.  A *user* stands for
a mail address together with its name, password and uid; a *token* for
`client` and `access-token` is the number of the sign-in that issued it, so that
"the headers of one sign-in" can be stated (`OneSession`).  The actions are the
handlers: `LaunchApp`, `AutoLoginOk/Rejected/Failed`, `EnterTeam`, `TeamFound`,
`TeamWithoutId`, `RequestFailed`, `TapRegistration`, `SignUpOk`, `TapSignIn`,
`SignInOk`, `Navigate`, `FocusField`, `InvalidInput`, `TapLogout`,
`LogoutOk/Failed`, `HudTimer`, `TransitionEnds`, and the ways to die.  `screen`
is the top screen of what the root shows or moves to, and `leaving` that of what
it moves away from, as long as it does.

Points where the code's behaviour is less than obvious:

* The screens of the login flow are stored by their parents, so they all live as
  long as the flow.  A switch of the root begins a transition (`SwitchTo`), and
  its completion, 0.25 s later, releases the old flow (`TransitionEnds`).  Until
  then the old flow hears answers and acts on them: it pushes, shows messages and
  switches once more.  Afterwards the model's part of an answer (`loginAccount`
  writing the session) still runs, the screen's part does not.  That is the
  `live` flag of a request.  `HeardOnDisplay` says that whoever still hears an
  answer is a screen of `Current`, which is what the root holds as
  `currentViewController`.
* `SVProgressHUD.dismiss(withDelay:)` cannot be cancelled; a delayed dismissal
  takes down whatever HUD is up when it fires (`HudTimer`).  While the HUD is up
  its mask takes every touch, but not the keyboard, which has its own window
  (`ReturnKey`).
* `checkTeamId` calls its observer only if the body has an id (`TeamWithoutId`).
* `initializedApp(.notLogin)` is also sent when `isRegistered` falls to false
  (`ClearUserData`), also at the 401 of an automatic sign-in, which in addition
  schedules the launch 5 s later: that launch replaces the login flow the user
  may be typing in.
* UserDefaults writes are separate; a kill between two of them leaves a prefix
  of them (`KillDuring...`).  A push of a view controller that is already on the
  stack raises in UIKit (`DoublePush`).
* A switch that begins while a transition is running starts from the same
  `currentViewController`, so `leaving` stays what it was, and one
  `TransitionEnds` ends them both.  What became of the view controller in
  between - it is a child for good, and never asked for anything - is what
  `RootNavigation` is about.
* The keyboard of the team screen comes when the screen has appeared and goes as
  it disappears; the onboarding covers it for a while, and a touch of the field
  brings it back (`FocusField`).

### Account

The interface of the session to everything that runs under it: the account of
the headers, whether the tab bar is up, and how often the process was started.
It changes by a sign-in (which can put somebody in place of somebody else, with
or without the tab bar coming up), a sign-out and a restart.  `Session`
implements it (`SeenAsAccount`): the account is that of `uid`, if the three
header keys are of one sign-in, or else nobody.  `Rooms` uses its actions, so
what `Rooms` assumes about sign-ins is what `Session` was shown to do.

### Rooms

`listed` is what the server would answer, `rooms` the relay, `roomIds` the
stored ids, `shown` the rooms the talk tab lists (their order, which is that of
`rooms`, is left out).  `Compare` is the subscription of
`RootViewStream`: it keeps a longest common subsequence of the stored ids and
the new list (`Kept`, what `Remains` of both after removals; which one
`difference(from:)` finds, if there are several, is left open), drops the other ids, and sends a lookup for each id the list has beside
them.  `LookupMatched` appends an id per full event of the room's title.
`Joined` is the filter of `TalkRoomViewStream`, which runs after `Compare`
because it subscribed later.  Sign-in, sign-out and restart are the actions of
`Account`, each with what it does to this component.  An account can be replaced
without a sign-out, and a restart can bring up other headers than it went down
with: then the stored ids are those of the account before, until a list of the
new one heals them (`ListHeals`); `late` records it.

The ids are appended in the order of the answers, and a longest common
subsequence depends on order.  So a stored id whose place differs from the list's
is removed and looked up again, and the match screen comes up again: with ids
`<<2, 3, 1>>` and list `<<1, 2, 3>>` at every poll, because 1 is always appended
last.  No property forbids it - it is what the code does - but `ShownJoined`,
`DuplicateSource` and `MatchIsKept` bound its effects, and `InOrderCorrect`
proves that ids in the order of the list are left alone.

### EventApply

`screen` is the top screen.  `detail`, `sheet` and `options` are the states of
the three view streams, which live as long as the event list that owns them:
nothing is reset when another event is opened, so each of them can be about a
different event.  `joined` is what the server knows.  `loads` are the detail
requests of the option list, `for` the sheet (`setEvent`: the answer goes on to
the sheet) or for the list alone (`reloadView`); an answer is the details as they
were when asked for or as they are now.  `sent` and `answers` are the apply and
cancel requests before and after the server has served them.

* `optionFlag` is raised after the request for the details is sent; the first
  choice the sheet hears of is taken for what the user had (`Heard`) - whatever
  request it answers.
* `picked` changes only when the option list is confirmed.  A sheet for another
  event still has the choice of the one before, and confirms it, while its label
  (left out) shows what the user had applied for with the new event.
* The rows of the table are compared by prefecture, so an answer while the list
  is up changes what will be confirmed and not what the rows show (`Follow`).
* `configureCell` selects the row of a joined prefecture, but only rows in view
  are configured, of 47 prefectures a dozen or so, and those that scroll away and
  back are configured again (`DrawRows`, in any choice of rows, at opening and
  whenever the list is scrolled).  A tap then takes the selected rows for the
  choice (`ToggleRow`): a joined prefecture that was never in view is dropped, and
  one the user has taken out and scrolled past is back.  `RowsTellChoice` says
  that this happens to joined prefectures only: whatever else is chosen has its
  row selected, and whatever else is selected is chosen, unless options came while
  the list was up and no row was tapped since (`mixed`).
* `success` is told for every answer, also for a refusal, and takes down
  whatever is up by then (`Dismiss`).  The match screen, left out here, would
  take its place as it does in `EventForm`.
* The option list scrolls to its first row when it appears; before the first
  answer there is none, and UIKit raises (`dead`).  `RowsStay` says that this is
  over with the first answer: an answer that fails, or has no prefectures, tells
  nobody anything.
* A choice is a set: the code's lists are ordered by the server and by the
  table's selection, and `difference(from:)` keeps a longest common subsequence.
  The model leaves the order open, so what two choices have in common may be kept
  in part (`Kept`) and the rest both cancelled and applied for.  For a choice
  nobody touched the code keeps all, which is one of the model's cases.

`OldIsJoined` and `SendsDifference` say when the screens work: if nothing was in
flight as the sheet opened and its own answer came before anything was confirmed
(`calm`, `flag`).  Without either of the two TLC finds a confirmation that
leaves the server with something else than the user picked.

### EventList

`items` is `currentEvents`, `cells` what is on screen.  One module stands for the
three lists, which share `EventCollectionViewStream` and its view controller;
`bookmarks` tells which it is, and both kinds are initial states.  The
search tab has a `word` (keyword with filter), the bookmarks hold only what is
bookmarked and reload after each toggle (`Reloaded`), the applications do
neither.  `lists` are the searches in flight and `toggles` the bookmark toggles,
which are two requests each: the toggle itself, then the details of the event.
An answer holds what the server knew when asked or what it knows now.  What the
server finds for a word, and in which order it lists what is bookmarked, are the
constants `Matches` and `Bookmarked`.

* An answer replaces the list, whichever search it is for (`ListAnswered`): with
  two keywords the list may end on the older one.  `Settled` says when it does
  not: answers in order, no toggle that overlapped with anything, and since the
  search none from the detail screen or another list (`calm`).  Those are the
  action `ToggledElsewhere`, which changes what the server knows at any time.
* A toggle takes the list as it is when the button is tapped, and writes that
  list back when its answers are in (`WriteBack`), on top of whatever came in
  between.
* The data source compares items by all they show (`EventCellModel.identity`) and
  keeps the cells of those that have not changed, unless the list is out of the
  window, when it reloads.  A kept cell has the index path it was configured
  with, for its button and for `updateCell`; `shifted` records that a cell was
  kept at a new place, after which a tap can reach another event or, in a list
  that is shorter by now, raise (`dead`).  `InPlace` says that nothing else makes
  it so.  A cell that is scrolled away and back is configured anew (`Redraw`).
* The button changes at the tap.  If the details do not come, nothing changes it
  back (`DetailsFailed`, `deaf`).

### EventForm

One module for both forms: `New` opens `EventCreate*` with `EventConfirm*`, `Old`
opens `EventEdit*` with `EventUpdateConfirm*`, which can also delete.  `shown` is what the fields on screen show, `told` the last value
each field told the view stream.  `state.current` is complete when all five were
told once (`combineLatest`); what `setEvent` puts there has no image and is
refused all the same, so `Complete` is the check of `tapConfirm`.  `data` is what
the confirmation was given, `posts` the confirmations in flight (upload, then
post), `hud` what SVProgressHUD shows.

* A text field tells its text when it is subscribed to, so a new form has told an
  empty title; the number of members is told only when it is a number.
* The form of an event tells image, place and genre only if the image is in the
  cache and the genres are loaded (`Old`).  The image can come later, into the
  image view alone, and over an image the user picked (`ImageLoaded`, `late`).
* Each message is dismissed after a second, and nothing can be touched before, so
  here a dismissal is never stale (`HudTimer`).  The keyboard is above the mask:
  the text fields can be typed in while the HUD is up.
* If the upload fails nobody is told (`UploadFailed`, `stuck`).
* The server may store an event whose answer is lost, or answer with another
  title; either is an error to the user, who can post again (`lost`).
* The match screen of `RootViewController.showOver` is presented over whatever is
  on top (`over`).  UIKit's `dismiss`, sent to a screen that presents another,
  takes down that other one.  So an event stored while the match screen is up
  leaves the form open, to be posted again (`Dismiss`, `covered`); `OneEvent`
  says that this and a lost answer are the only ways to have it twice.

Left out: the list of places but for the choice made there (that of genres is in
`Genres`), the dialogues of the photo library, and a kill of the process (nothing
of a form is stored).

`form_asks` shows a disagreement with the message of the check, "全項目を埋めてください"
(fill in all fields): an event without a title is not refused, nor is one whose
number was cleared, and an edited event is refused with all of its fields filled
in, when image or genres were not there as the form opened and not all three
choices were made again.

### RootNavigation

View controllers are numbers in the order they are made.  `children` are those
the root holds, `current` is `currentViewController`, which the *end* of a
transition sets and the beginning of the next one reads (`Begin`, `Complete`).
So a second transition that begins within 0.25 s of the first starts from the
same view controller, and what the first one led to is never removed: `overtaken`
records it, and `LeftBehind` says that it stays for no other reason.  `asked` are
sign-ins in flight from a login flow: their answers switch to the tab bar as long
as the flow is a child, also during the transition away from it.  All transitions
take the same time, so they end in order (`First`).

### Genres

`genres` is what `GenreModel` keeps; the filter popover and the picker of the
form are two lists over it.  A list is `bound` when its view was loaded.  A tap
marks a row, unmarks its section, and sends what is marked on: `chosen`.  An
answer replaces the rows of every bound list.  One in the window animates the
difference and keeps the marks of rows that stay; one that is not reloads and
loses all marks, and in neither case is anybody told, so the search goes on with
a a genre nobody sees (`lost`).  The filter is a `UITableViewController` that leaves
`clearsSelectionOnViewWillAppear` at its default, so opening it again clears its
marks as well, and again not the filter (`Reshown`); the picker is a plain view
controller and keeps them.  `MarkedIsChosen` says that there is no third way for
the two to part, that a mark never stands for something that is not used, and
that one row of a section is used at most.  Genres can come and go on the server.
Opened before there are genres, a list scrolls to a row it does not have (`dead`).

## Runs

| Run | Instance | Shows |
|---|---|---|
| `session_safety` | 2 users, 2 request slots beside the automatic sign-in, 2 sign-ins, 2 dismissals, 2 kills; slots symmetric | types, `DiskAgrees`, `NormalIsSignedIn`, `StoredPair`, `OneLaunchChain`, `HeardOnDisplay`, `HudHasEnd`, `MixUp`, `SeenAsAccount` |
| `session_live` | the same with 1 dismissal and 1 kill, without symmetry, with fairness | `LeavesSplash`, `HudLowered` |
| `rooms_safety` | 2 accounts of a team with 2 rooms and 1 of these, 2 room requests and 2 lookups in flight, up to 2 full events per title, 1 change of the lists, 1 kill; slots symmetric | types, `ShownJoined`, `DuplicateSource`, `OwnRooms`, `ListHeals` |
| `rooms_live` | 1 account, 2 rooms, 1 room request and 2 lookups in flight, 2 changes, 1 kill, with fairness | `MatchIsKept`, `LeftIsForgotten` |
| `apply_events` | 2 events, 1 prefecture, 1 detail request of each kind and 2 changes in flight | types, `OldIsJoined`, `RowsStay` |
| `apply_choices` | 1 event, 2 prefectures, the same bounds | `RowsTellChoice`, `SendsDifference` |
| `apply_live` | 1 event, 1 prefecture, the same bounds, with fairness | `SheetIsLeft` |
| `list` | 2 events, 2 words that find both or the last, 2 searches in flight; 1 toggle in flight in a search list, 2 in the bookmarks; both events toggled elsewhere in a search list, 1 in the bookmarks | types, `InPlace`, `ButtonsTell`, `Settled` |
| `form` | a new event or an old one, two values for each field, 2 taps of the post button, with fairness | types, `HudIsBusy`, `OneEvent`, `AsShown`, `HudLowered` |
| `form_asks` | the same, 1 tap | a violation of `AsksForBlanks` |
| `nav` | 5 view controllers after the splash screen, 2 sign-ins in flight from each | `Transitionable`, `LastShown`, `LeftBehind`, `HeardIsCurrent` |
| `genres` | 3 genres, 2 places, 2 requests in flight; all symmetric | types, `MarkedIsChosen`, `DiesBeforeFirstAnswer` |

Why the bounds are enough: two users and two sign-ins are what it takes for a
late answer to meet a session of somebody else; that more sign-ins add nothing
to the safety properties is proved.  Two slots let an answer overtake another.  Two dismissals are pending when
one is stale.  The first kill is what brings an automatic sign-in about, the second can come in
the middle of its answer; more add nothing, since a restart forgets
everything but the disk.  Two rooms are enough to be out of order, two lookups
to be of the same room, and two accounts for an answer to come under the wrong
one.  Every initial order of the server's lists is tried.  Two events are what it
takes for a choice, or an answer, to be of the event before, one prefecture what
it takes to be in a choice or not; two prefectures to apply for one and cancel
the other in one confirmation, or to confirm twice.  Two events are enough for a
cell to move up and for an index to be past the end, two words for an answer to
be of the wrong one, and two toggles to overwrite each other.  Two values tell a field that was changed
from one that was not, and two posts are what it takes to store an event twice.
Five view controllers are enough for three transitions at once and two more that
start after these; two sign-ins from one flow for an answer that finds the first
already switching.  Three genres are one to keep, one to mark and one to lose.

The types of `RootNavigation` are not a property of its run: they are proved.

`MixUp` is an action property: the account on display and the account of the
headers come apart only by a kill, by an automatic sign-in answered after the
stored account changed, or by a sign-up answered when somebody signed in
meanwhile.  The last two are reachable, so the run also says which late answers
a fix would have to drop.

The runs of `Session` switch the deadlock check off because the app can really
stop: a team answer whose screen is gone, or that has no id, leaves the HUD up
for good, and with it nothing can be touched (after the bounded kills nothing
else happens).  `HudHasEnd` and `HudLowered` say that this is the only way.  In
the runs of `EventApply` the app stops where UIKit raises, in those of `EventList`
where an index is out of range, in those of `EventForm` a form that is closed
does nothing more, and in that of `RootNavigation` there is a last view
controller.

### Fairness

`Session`: timers fire; every request ends, because URLSession times out; and
the server, asked again and again to sign the stored account in, does not fail
to *decide* each time (strong fairness on acceptance or rejection) - with a
server that is unreachable forever the app retries forever.  `Rooms`: the loop
in `observe` never ends, requests end, and a server that is asked again and
again answers now and then.  `EventApply`: apply and cancel requests are served or
refused, or time out, which the code does not tell from a refusal.  `EventForm`: uploads and requests
end, and timers fire.  Nothing is
assumed of the user.

## Proofs

`SessionProofs` proves, for any sets of users and slots and any bounds:

* `TypeCorrect`: `Spec => []TypeOK`.
* `DiskAlwaysAgrees`, `NormalHasOneSession`, `StoredPairMatches`: the three
  properties of the stored session.

The inductive invariant is `TypeOK /\ SessionInv`, where `SessionInv` is the
conjunction of the three.  They need each other: the tab bar stays signed in
over a clear because a session that is whole is registered, so the clear shows
the login flow (`ClearSession`); an automatic sign-in keeps the pair because the
server accepted it, which `StoredPair` covers before the tab bar is up
(`LaunchSession`); and a restart copies the disk, so nothing about the relays
survives it but `DiskAgrees` (`RebootSession`).  The argument is by the writes:
`WritesAgree` says that the same keys are written in both stores, whatever the
handler, and `SignedInSession` that the three header keys are among them.  The
assumptions are the two of `Session`: `None` is not a value, and the bounds are
numbers.

`EventFormProofs` proves, for any values, any event edited and any number of
posts:

* `TypeCorrect`: `Spec => []TypeOK`.
* `HudAlwaysBusy` and `FormStoresOneEvent`: `HudIsBusy` and `OneEvent`, from the
  inductive `OneRequest`.  That a form stores one event is not inductive: it rests
  on there being one request (no touch gets past the HUD, which is up while there
  is one), on the request keeping its confirmation on screen, and on the answer that
  stores the event closing it.
* `ConfirmationIsShown`: `AsShown`, from `ShownIsTold`: every field was told what
  it shows, up to the two exceptions, all along, and not only as the confirmation
  comes up.

The assumptions are that `None` and `Blank` are no values, that the event edited
has all fields, and that the bound is a number.

`OneRequest` also carries what the match screen does: as long as the form is not
closed, every event stored from it is one of those `OneEvent` counts.

`SessionFlowProofs` proves `LaunchesOnce`, `AnswersHeardOnDisplay` and
`HudAlwaysEnds` (`OneLaunchChain`, `HeardOnDisplay`, `HudHasEnd`), for any sets of
users and slots and any bounds.  Together they are inductive over `TypeOK` and
`SessionInv`.  The launch chain is one token that is either a timer or a
request; a switch leaves `Current` what it was, so everything heard before it is
heard by the same flow, and what the root moves to takes no touch before the
transition has ended, so when `TransitionEnds` changes `Current`, `Orphaned` has
released all there was to hear (`HearLess`, `ReleaseFlow`); the keyboard, whose
return key asks without a touch, is up only over the team screen (`KeyboardShown`);
the HUD rests on a request that is not a logout (`Busy`), which releasing a screen
leaves in flight.

It also proves two action properties from the same invariants:

* `ImplementsAccount`: `Spec => SeenAsAccount`, the refinement.  Every handler is
  a sign-in, a sign-out, a restart or nothing, as the rest of the app sees it.
  A sign-in answer writes the headers whole, so the account afterwards is its
  own (`SignedInHeaders`); a clear takes the tab bar down in the same step,
  because by `NormalIsSignedIn` whoever is under the tab bar is registered
  (`ClearSeen`); whatever a kill leaves on disk is somebody or nobody
  (`RebootSeen`).
* `AccountsMixUp`: `Spec => MixUp`.

`RootNavigationProofs` proves the types and, from the inductive `DisplayInv`, the
four properties of the run, for any number of view controllers and sign-ins.
The invariant's core is `InOrder`: what the running transitions lead to are
different view controllers, all after the current one, the last of them the last
made.  So the transition that ends last is the one asked for last, and one that
has not ended cannot lead to what another removes (`Transitionable`).  `Heard`
adds that only what has been on display at rest has asked for anything.

`GenresProofs` proves the types, `MarksAreChosen` and `DiesOnlyEarly`, for any
genres, places and requests.  They rest on a list that is not bound having no
marks (`TypeInv`), on marks only ever going, but for a tap (`FewerMarks`), and on
an answer having been taken only if it has genres.

The assumptions are those of the modules: that `None` and the bounds are what
they are called, and that a genre is not a place.

`RoomsProofs` proves, for any finite set of rooms, any accounts, slots and
bounds, all the safety properties of the two runs of `Rooms`:

* `TypeCorrect`: the types, with the lists in flight being lists the server can
  send: no room twice, all of them the account's (`ListFacts`).
* `ShownCorrect`: `ShownJoined`, with `TabInv`: without a tab bar nothing is
  listed.
* `DuplicatesCorrect`: `DuplicateSource`, from `OnceInv`.  That an id is stored
  once says nothing of the lookups that will append it.  `SingleInv` adds it: a
  room that was not looked up twice is looked up by one account, once, and not
  while its id is stored.  A list that arrives looks up only what it does not
  keep (`CompareOnce`), and the answer uses its lookup up (`AskedFacts`).
* `OwnRoomsCorrect`: `OwnRooms`, from `OwnInv`, which adds the lookups in flight,
  and that nobody's ids are stored while nobody is signed in; without that the
  next sign-in would break it.
* `ListHealsCorrect`: `ListHeals`; the ids kept are what remains of a list without
  duplicates (`RemainsFacts`).
* `InOrderCorrect`: a list that has the stored ids in the order in which they are
  stored removes none of them and looks none of them up.  No run checks it as a
  property.  It rests on `KeptWhole`: if all of the ids remain of the list, the
  longest common subsequence is all of them - a subsequence as long as the
  sequence is the sequence (`RemainsLength`), because an increasing map of `1..n`
  into itself leaves every index where it is (`IncreasingFixed`, by counting what
  is below and above an index).

The assumptions: `None` is no account, the rooms of an account are rooms, there
are finitely many, and the bounds are numbers.

`EventApplyProofs` proves, for any events, prefectures and bounds:

* `TypeCorrect`: the types.
* `MarksCorrect`: `RowsTellChoice`, which is inductive: drawing rows selects
  joined ones only and deselects none (`DrawnRowsTell`), options that come leave
  nothing chosen but what is joined (`FollowTells`), and a tap makes the choice
  what is selected.
* `OldCorrect` and `SendsCorrect`: `OldIsJoined` and `SendsDifference`, from
  `CalmInv`: on a calm sheet nothing is on its way to the server or back, every
  detail request holds what the server has, and a request for the sheet is for
  the event of the sheet.  So whichever answer raises the flag, it brings the
  right options; and a bag of requests that was empty holds after a confirmation
  what the confirmation sent.
* `RowsCorrect`: `RowsStay`, which needs the types alone.

The assumptions: `None` is no event, there is a prefecture, and the bounds are
numbers.

`EventListProofs` proves, for any events, words, answers of the server and
bounds:

* `TypeCorrect`: the types, with one cell for each item and every toggle at an
  index of the list it was tapped in.
* `InPlaceCorrect` and `ButtonsCorrect`: `InPlace` and `ButtonsTell`, from
  `CellsInv`.  That the buttons tell what the items tell is not inductive: a
  toggle in flight excuses the button at its index, and only that one
  (`ButtonsInv`).
* `SettledCorrect`: `Settled`, from `CalmInv`.  Nothing in flight, searches alone
  and a toggle alone are three kinds of calm: the list is the server's answer;
  every search in flight holds the answer to its word and the last is for the
  current word (`Searched`); the list a toggle writes back is, with its event
  toggled, what the server will answer (`Toggled`).

The assumptions are that the server finds each event once, and, for `Bookmarked`,
that it lists exactly what is bookmarked.

Only model-checked is liveness (`LeavesSplash`, `HudLowered` of `Session` and of
`EventForm`, `MatchIsKept`, `LeftIsForgotten`, `SheetIsLeft`): fairness and
`ENABLED` are outside what TLAPS does here.  So every property of a passing run
that is not about liveness is a theorem.

## Plan

In this order; what is done is marked.

1. `Session`, its runs, type correctness and the session invariant - done.
2. `Rooms` and its runs - done.
3. `EventApply`: detail, application sheet and option list, with the events that
   reuse them, and its runs - done.
4. `EventList`: search, reload and bookmark toggles; out-of-order results and
   lost updates - done.
5. `EventForm`: create and edit, with upload, post and HUD, its runs and its
   theorems - done.
6. `Genres` and `RootNavigation`, with their theorems - done.
7. Composition: `Rooms` with `Account`, the interface `Session` implements - done.
   Left: the event screens with `Account` (a sign-out takes them all down), and
   the match screen of `Rooms` over the sheet of `EventApply`.
8. Abstract specifications: `Account` - done, checked and proved.  Left: a set of
   matched rooms that `Rooms` implements when its answers are in order.
9. Theorems: all safety properties of all modules - done, but for
   `AsksForBlanks`, which does not hold.  Left: what `Rooms` owes the abstract
   specification of item 8, once it is stated.
10. Left: SVProgressHUD with its own timers and fades, in place of the `hud` of
    `Session` and `EventForm`.
