------------------------------- MODULE EventForm -------------------------------
(***************************************************************************)
(* The form of an event, to create one or to edit one, with its screen of  *)
(* confirmation: EventCreate*, EventEdit*, EventConfirm*,                  *)
(* EventUpdateConfirm*.  What the form shows and what its view stream was  *)
(* told are two things.  A confirmation uploads the image, then posts the  *)
(* event; the progress HUD keeps every touch away until an answer is in.   *)
(* The match screen of RootViewController comes over whatever is on top,   *)
(* and what dismisses the form then dismisses the match screen instead.    *)
(***************************************************************************)
EXTENDS Integers

CONSTANTS
  Values,   (* what can stand in a field                                  *)
  None,     (* not told yet                                               *)
  Blank,    (* an empty field                                             *)
  Event,    (* the event edited, field by field                           *)
  MaxPosts  (* bound: taps of the post button                             *)

Picks  == {"place", "genre", "image"}
Fields == {"title", "member"} \union Picks

ASSUME ValuesAssumption ==
  /\ None \notin Values \union {Blank} /\ Blank \notin Values
  /\ Event \in [Fields -> Values]
ASSUME BoundAssumption == MaxPosts \in Nat

VARIABLES
  screen,    (* "form", "confirm" or "closed"                             *)
  over,      (* match screens are over the form, one or more            *)
  shown,     (* what the fields on screen show                            *)
  told,      (* the last value the view stream was told of each field     *)
  loading,   (* the image of the event edited is on its way               *)
  eventId,   (* the view stream knows the event edited                    *)
  data,      (* what the screen of confirmation shows and will post       *)
  posts,     (* confirmations in flight: which tap, what it waits for     *)
  deleting,  (* a deletion is in flight                                   *)
  hud,       (* SVProgressHUD: down, progress, or a message               *)
  taps,      (* taps of the post button so far                            *)
  stored,    (* server: events stored from this form                      *)
  lost,      (* history: of these, with an error for an answer            *)
  covered,   (* history: of these, answered under the match screen      *)
  stuck,     (* history: an upload failed                                 *)
  late       (* history: the image came after another was picked          *)

vars == <<screen, over, shown, told, loading, eventId, data, posts, deleting, hud, taps,
          stored, lost, covered, stuck, late>>

view    == <<screen, over>>
form    == <<shown, told, loading, late>>
server  == <<stored, lost, covered>>
request == <<posts, deleting, taps, server, stuck>>

-----------------------------------------------------------------------------
(* State                                                                   *)

\* A new form: its title field tells the empty text when it is subscribed to.
New ==
  /\ shown = [f \in Fields |-> Blank]
  /\ told = [f \in Fields |-> IF f = "title" THEN Blank ELSE None]
  /\ loading = FALSE /\ eventId = FALSE

\* viewDidLoad with an event: what is picked is told if the image is in the
\* cache and the genres are there.
Old(cached, genres) ==
  /\ shown = [f \in Fields |-> IF \/ f = "image" /\ ~cached
                                  \/ f = "genre" /\ ~genres THEN Blank ELSE Event[f]]
  /\ told = [f \in Fields |-> IF f \in Picks /\ ~(cached /\ genres) THEN None ELSE Event[f]]
  /\ loading = ~cached /\ eventId = genres

Init ==
  /\ screen = "form" /\ over = FALSE /\ data = None
  /\ New \/ \E cached, genres \in BOOLEAN : Old(cached, genres)
  /\ posts = {} /\ deleting = FALSE /\ hud = "down"
  /\ taps = 0 /\ stored = 0 /\ lost = 0 /\ covered = 0 /\ stuck = FALSE /\ late = FALSE

-----------------------------------------------------------------------------
(* The match screen                                                        *)

\* showOver, from the polling loop: present on top of the form.
MatchFound ==
  /\ screen # "closed" /\ ~over /\ over' = TRUE
  /\ UNCHANGED <<screen, form, eventId, data, hud, request>>

\* A tap anywhere on it
TapOver ==
  /\ over /\ hud = "down" /\ over' = FALSE
  /\ UNCHANGED <<screen, form, eventId, data, hud, request>>

\* Nothing of sc is out of reach, behind the match screen or the HUD's mask.
Touch(sc) == screen = sc /\ ~over /\ hud = "down"

-----------------------------------------------------------------------------
(* The form                                                                *)

TypeUntold(text) ==                                                  \* mutant
  /\ screen = "form"
  /\ shown' = [shown EXCEPT !["title"] = text] /\ UNCHANGED told
  /\ UNCHANGED <<view, loading, late, eventId, data, hud, request>>

\* The keyboard has its own window, above the mask of the HUD.
TypeTitle(text) ==
  /\ screen = "form"
  /\ shown' = [shown EXCEPT !["title"] = text] /\ told' = [told EXCEPT !["title"] = text]
  /\ UNCHANGED <<view, loading, late, eventId, data, hud, request>>

Unparsed(text) == [told EXCEPT !["member"] = text]                   \* mutant
\* Only a number is told.
Parsed(text) == IF text = Blank THEN told ELSE [told EXCEPT !["member"] = text]

TypeMember(text) ==
  /\ screen = "form"
  /\ shown' = [shown EXCEPT !["member"] = text] /\ told' = Parsed(text)
  /\ UNCHANGED <<view, loading, late, eventId, data, hud, request>>

\* A place or a genre from its list, an image from the library.
Pick(field, value) ==
  /\ Touch("form")
  /\ shown' = [shown EXCEPT ![field] = value] /\ told' = [told EXCEPT ![field] = value]
  /\ UNCHANGED <<view, loading, late, eventId, data, hud, request>>

\* The image view takes the image when it comes, whatever it shows by then.
ImageLoaded ==
  /\ loading /\ loading' = FALSE /\ screen # "closed"
  /\ shown' = [shown EXCEPT !["image"] = Event["image"]]
  /\ late' = (told["image"] # None)
  /\ UNCHANGED <<view, told, eventId, data, hud, request>>

\* state.current has all five, once all five were told.
Complete == \A f \in Fields : told[f] # None

\* The screen of confirmation, or a message to fill in all fields.
TapConfirm ==
  /\ Touch("form")
  /\ IF Complete THEN screen' = "confirm" /\ data' = told /\ hud' = hud
                 ELSE hud' = "unfilled" /\ UNCHANGED <<view, data>>
  /\ UNCHANGED <<over, form, eventId, request>>

Leave ==
  /\ Touch("form") /\ screen' = "closed"
  /\ UNCHANGED <<over, form, eventId, data, hud, request>>

DismissTop == over' = FALSE /\ UNCHANGED screen                        \* mutant
\* dismiss of a screen of the form: UIKit dismisses what is presented on top
\* of it, if something is.
Dismiss == \/ over /\ over' = FALSE /\ UNCHANGED screen
           \/ ~over /\ screen' = "closed" /\ UNCHANGED over

\* The button is on the form of an event; without its id the tap does nothing.
TapDelete ==
  /\ Touch("form") /\ eventId
  /\ deleting' = TRUE /\ hud' = "progress"
  /\ UNCHANGED <<view, form, eventId, data, posts, taps, server, stuck>>

DeleteOk ==
  /\ deleting /\ deleting' = FALSE /\ hud' = "down" /\ Dismiss
  /\ UNCHANGED <<form, eventId, data, posts, taps, server, stuck>>

DeleteFailed ==
  /\ deleting /\ deleting' = FALSE /\ hud' = "result"
  /\ UNCHANGED <<view, form, eventId, data, posts, taps, server, stuck>>

-----------------------------------------------------------------------------
(* The confirmation                                                        *)

\* The pen or the back button: the screen goes, and its view stream with it.
Fix ==
  /\ Touch("confirm") /\ screen' = "form" /\ data' = None
  /\ UNCHANGED <<over, form, eventId, hud, request>>

\* An image that cannot be encoded is an error at once.
TapPost ==
  /\ Touch("confirm") /\ taps < MaxPosts
  /\ taps' = taps + 1
  /\ \/ posts' = posts \union {[tap |-> taps', waits |-> "upload"]} /\ hud' = "progress"
     \/ hud' = "result" /\ UNCHANGED posts
  /\ UNCHANGED <<view, form, eventId, data, deleting, server, stuck>>

Uploaded(p) ==
  /\ p.waits = "upload"
  /\ posts' = (posts \ {p}) \union {[p EXCEPT !.waits = "post"]}
  /\ UNCHANGED <<view, form, eventId, data, hud, deleting, taps, server, stuck>>

\* Nobody is told.
UploadFailed(p) ==
  /\ p.waits = "upload" /\ posts' = posts \ {p} /\ stuck' = TRUE
  /\ UNCHANGED <<view, form, eventId, data, hud, deleting, taps, server>>

Posted(p) ==
  /\ p.waits = "post" /\ posts' = posts \ {p}
  /\ stored' = stored + 1 /\ hud' = "result" /\ Dismiss
  /\ covered' = IF over THEN covered + 1 ELSE covered
  /\ UNCHANGED <<form, eventId, data, deleting, taps, lost, stuck>>

Silent == UNCHANGED hud                                              \* mutant
Message == hud' = "result"

\* Refused, lost on either way, or answered with another title.
PostFailed(p) ==
  /\ p.waits = "post" /\ posts' = posts \ {p} /\ Message
  /\ \/ UNCHANGED <<stored, lost>>
     \/ stored' = stored + 1 /\ lost' = lost + 1
  /\ UNCHANGED <<view, form, eventId, data, deleting, taps, covered, stuck>>

\* The delayed dismissal of a message.
HudTimer ==
  /\ hud \in {"unfilled", "result"} /\ hud' = "down"
  /\ UNCHANGED <<view, form, eventId, data, request>>

-----------------------------------------------------------------------------
(* Specification                                                           *)

Answer(p) == Uploaded(p) \/ UploadFailed(p) \/ Posted(p) \/ PostFailed(p)

Next ==
  \/ \E text \in Values \union {Blank} : TypeTitle(text) \/ TypeMember(text)
  \/ \E field \in Picks, value \in Values : Pick(field, value)
  \/ ImageLoaded \/ TapConfirm \/ Leave \/ TapDelete \/ DeleteOk \/ DeleteFailed
  \/ Fix \/ TapPost
  \/ \E p \in posts : Answer(p)
  \/ HudTimer \/ MatchFound \/ TapOver

Spec == Init /\ [][Next]_vars

\* Requests end, uploads too, and timers fire.
Fairness ==
  /\ WF_vars(\E p \in posts : Answer(p))
  /\ WF_vars(DeleteOk \/ DeleteFailed)
  /\ WF_vars(HudTimer)

FairSpec == Spec /\ Fairness

-----------------------------------------------------------------------------
(* Properties                                                              *)

Form == [Fields -> Values \union {Blank}]
Told == {t \in [Fields -> Values \union {Blank, None}] :
           \A f \in Fields \ {"title"} : t[f] # Blank}

Post == [tap : Nat, waits : {"upload", "post"}]

(* Types: what was told is a text, a number and three picked values.       *)
TypeOK ==
  /\ screen \in {"form", "confirm", "closed"} /\ shown \in Form /\ told \in Told
  /\ data \in Told \union {None} /\ posts \subseteq Post
  /\ hud \in {"down", "progress", "unfilled", "result"}
  /\ taps \in Nat /\ stored \in Nat /\ lost \in Nat /\ covered \in Nat
  /\ {over, loading, eventId, deleting, stuck, late} \subseteq BOOLEAN

(* The progress HUD, which takes every touch, is up exactly as long as a   *)
(* request of the form is in flight, or for good after a failed upload.    *)
HudIsBusy == hud = "progress" <=> posts # {} \/ deleting \/ stuck

(* A form stores one event, and one more for each that was stored with an *)
(* error for an answer, or with an answer that came under the match screen *)
(* and dismissed that instead of the form.                                 *)
OneEvent == stored <= lost + covered + 1

(* The screen of confirmation posts what the form under it shows; but for  *)
(* the number of members, if what stands there is none, and the image, if  *)
(* that of the event came after another was picked.                        *)
AsShown ==
  screen = "confirm" =>
    \A f \in Fields : \/ data[f] = shown[f]
                      \/ f = "member" /\ shown[f] = Blank
                      \/ f = "image" /\ late

(* The HUD comes down, unless an upload failed.                            *)
HudLowered == []<>(hud = "down" \/ stuck)

(* The user is told to fill in all fields, instead of being shown the     *)
(* confirmation, exactly if one of them is empty.                          *)
AsksForBlanks ==
  [][Touch("form") /\ (screen' = "confirm" \/ hud' = "unfilled") =>
       (hud' = "unfilled" <=> \E f \in Fields : shown[f] = Blank)]_vars
=============================================================================
