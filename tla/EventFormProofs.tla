---------------------------- MODULE EventFormProofs ----------------------------
(***************************************************************************)
(* Theorems about EventForm, for any values and any bound: its types, that *)
(* the HUD guards the one request in flight, that a form stores one event, *)
(* and that the confirmation posts what the form shows.                    *)
(***************************************************************************)
EXTENDS EventForm, TLAPS

-----------------------------------------------------------------------------
(* Types                                                                   *)

USE ValuesAssumption, BoundAssumption

(* What is told of a field keeps its type when the field is written.       *)
LEMMA ToldField ==
  ASSUME told \in Told, NEW f \in Fields, NEW value \in Values \union {Blank},
         value = Blank => f = "title"
  PROVE  [told EXCEPT ![f] = value] \in Told
BY DEF Told, Fields, Picks

(* What is shown likewise.                                                 *)
LEMMA ShownField ==
  ASSUME shown \in Form, NEW f \in Fields, NEW value \in Values \union {Blank}
  PROVE  [shown EXCEPT ![f] = value] \in Form
BY DEF Form, Fields, Picks

LEMMA InitTypes == Init => TypeOK
<1> SUFFICES ASSUME Init PROVE TypeOK
  OBVIOUS
<1>1. shown \in Form /\ told \in Told /\ {loading, eventId} \subseteq BOOLEAN
  <2>1. CASE ~New
    <3>1. PICK cached, genres \in BOOLEAN : Old(cached, genres)
      BY <2>1 DEF Init
    <3>2. shown \in Form
      BY <3>1 DEF Old, Form
    <3>3. told \in Told
      BY <3>1 DEF Old, Told, Fields, Picks
    <3> QED
      BY <3>1, <3>2, <3>3 DEF Old
  <2>2. CASE New
    BY <2>2 DEF Init, New, Form, Told, Fields, Picks
  <2> QED
    BY <2>1, <2>2
<1> QED
  BY <1>1 DEF Init, TypeOK

LEMMA NextTypes == TypeOK /\ [Next]_vars => TypeOK'
<1> SUFFICES ASSUME TypeOK, [Next]_vars PROVE TypeOK'
  OBVIOUS
<1> USE DEF TypeOK, view, form, server, request, Dismiss
<1>1. ASSUME NEW text \in Values \union {Blank}, TypeTitle(text) PROVE TypeOK'
  <2>1. shown' \in Form /\ told' \in Told
    BY <1>1, ToldField, ShownField DEF TypeTitle, Fields
  <2> QED
    BY <1>1, <2>1 DEF TypeTitle
<1>2. ASSUME NEW text \in Values \union {Blank}, TypeMember(text) PROVE TypeOK'
  <2>1. shown' \in Form /\ told' \in Told
    BY <1>2, ToldField, ShownField DEF TypeMember, Parsed, Fields
  <2> QED
    BY <1>2, <2>1 DEF TypeMember
<1>3. ASSUME NEW field \in Picks, NEW value \in Values, Pick(field, value) PROVE TypeOK'
  <2>1. shown' \in Form /\ told' \in Told
    BY <1>3, ToldField, ShownField DEF Pick, Fields
  <2> QED
    BY <1>3, <2>1 DEF Pick, Touch
<1>4. CASE ImageLoaded
  <2>1. shown' \in Form
    BY <1>4, ShownField DEF ImageLoaded, Fields, Picks
  <2> QED
    BY <1>4, <2>1 DEF ImageLoaded
<1>5. CASE TapConfirm
  BY <1>5 DEF TapConfirm, Touch
<1>6. CASE Leave \/ Fix \/ HudTimer \/ MatchFound \/ TapOver
  BY <1>6 DEF Touch, Leave, Fix, HudTimer, MatchFound, TapOver
<1>7. CASE TapDelete \/ DeleteOk \/ DeleteFailed
  BY <1>7 DEF Touch, TapDelete, DeleteOk, DeleteFailed
<1>8. CASE TapPost
  <2>1. posts' \subseteq Post /\ taps' \in Nat
    BY <1>8 DEF Touch, TapPost, Post
  <2> QED
    BY <1>8, <2>1 DEF TapPost, Touch
<1>9. ASSUME NEW p \in posts, Answer(p) PROVE TypeOK'
  <2>1. p \in Post /\ [p EXCEPT !.waits = "post"] \in Post
    BY DEF Post
  <2>2. CASE Uploaded(p)
    BY <2>1, <2>2 DEF Uploaded
  <2>3. CASE UploadFailed(p)
    BY <2>3 DEF UploadFailed
  <2>4. CASE Posted(p)
    <3>1. stored' \in Nat /\ covered' \in Nat
      BY <2>4 DEF Posted
    <3>2. over' \in BOOLEAN /\ screen' \in {"form", "confirm", "closed"}
      BY <2>4, Zenon DEF Posted
    <3>3. UNCHANGED <<form, eventId, data, deleting, taps, lost, stuck>>
      BY <2>4 DEF Posted
    <3>4. hud' = "result" /\ posts' \subseteq posts
      BY <2>4 DEF Posted
    <3> QED
      BY <3>1, <3>2, <3>3, <3>4
  <2>5. CASE PostFailed(p)
    BY <2>5 DEF PostFailed, Message
  <2> QED
    BY <1>9, <2>2, <2>3, <2>4, <2>5 DEF Answer
<1>10. CASE UNCHANGED vars
  BY <1>10 DEF vars
<1> QED
  BY <1>1, <1>2, <1>3, <1>4, <1>5, <1>6, <1>7, <1>8, <1>9, <1>10 DEF Next

(* What the view stream was told of a field is a value of that field, and  *)
(* no request, message or counter leaves its range.                        *)
THEOREM TypeCorrect == Spec => []TypeOK
BY InitTypes, NextTypes, PTL DEF Spec

-----------------------------------------------------------------------------
(* One request at a time                                                   *)

(* What HudIsBusy and OneEvent need of each other: a request keeps its     *)
(* screen up and the HUD over it, so there is no second, and the answer    *)
(* that stores the event closes the form, or is one of those counted.      *)
OneRequest ==
  /\ HudIsBusy /\ OneEvent
  /\ \A p, q \in posts : p = q
  /\ posts # {} => screen = "confirm" /\ ~deleting
  /\ deleting => screen = "form"
  /\ stuck => posts = {} /\ ~deleting
  /\ screen # "closed" => stored = lost + covered

LEMMA InitOneRequest == Init => OneRequest
BY DEF Init, OneRequest, HudIsBusy, OneEvent

LEMMA NextOneRequest == TypeOK /\ OneRequest /\ [Next]_vars => OneRequest'
<1> SUFFICES ASSUME TypeOK, OneRequest, [Next]_vars PROVE OneRequest'
  OBVIOUS
<1> USE DEF OneRequest, HudIsBusy, OneEvent, view, form, server, request
<1>0. stored \in Nat /\ lost \in Nat /\ covered \in Nat
  BY DEF TypeOK
<1>1. ASSUME NEW text \in Values \union {Blank}, TypeTitle(text) \/ TypeMember(text)
      PROVE  OneRequest'
  BY <1>1 DEF TypeTitle, TypeMember
<1>2. ASSUME NEW field \in Picks, NEW value \in Values, Pick(field, value)
      PROVE  OneRequest'
  BY <1>2 DEF Pick, Touch
<1>3. CASE ImageLoaded
  BY <1>3 DEF ImageLoaded
<1>4. CASE TapConfirm
  BY <1>4 DEF TapConfirm, Touch
<1>5. CASE Leave
  BY <1>0, <1>5 DEF Leave, Touch
<1>6. CASE TapDelete
  BY <1>6 DEF TapDelete, Touch
<1>7. CASE DeleteOk
  BY <1>0, <1>7 DEF DeleteOk, Dismiss
<1>8. CASE DeleteFailed
  BY <1>8 DEF DeleteFailed
<1>9. CASE Fix
  BY <1>9 DEF Fix, Touch
<1>10. CASE TapPost
  <2>1. posts = {} /\ ~deleting /\ ~stuck
    BY <1>10 DEF TapPost, Touch
  <2> QED
    BY <1>10, <2>1 DEF TapPost, Touch
<1>11. ASSUME NEW p \in posts, Answer(p) PROVE OneRequest'
  <2>1. posts = {p} /\ ~deleting /\ ~stuck /\ hud = "progress" /\ screen = "confirm"
    OBVIOUS
  <2>2. CASE Uploaded(p)
    <3>1. posts' = {[p EXCEPT !.waits = "post"]}
      BY <2>1, <2>2 DEF Uploaded
    <3>2. \A q, r \in posts' : q = r
      BY <3>1
    <3>3. posts' # {} /\ UNCHANGED <<screen, deleting, stuck, hud, stored, lost, covered>>
      BY <2>2, <3>1 DEF Uploaded
    <3> QED
      BY <2>1, <3>2, <3>3
  <2>3. CASE UploadFailed(p)
    BY <2>1, <2>3 DEF UploadFailed
  <2>4. CASE Posted(p)
    <3>1. posts' = {} /\ hud' = "result" /\ stored' = stored + 1 /\ lost' = lost
      BY <2>1, <2>4 DEF Posted
    <3>2. \/ covered' = covered + 1
          \/ screen' = "closed" /\ covered' = covered
      BY <2>4, Zenon DEF Posted, Dismiss
    <3>3. ~deleting' /\ ~stuck'
      BY <2>1, <2>4, Zenon DEF Posted
    <3>4. stored = lost + covered
      BY <2>1
    <3> QED
      BY <1>0, <3>1, <3>2, <3>3, <3>4
  <2>5. CASE PostFailed(p)
    BY <1>0, <2>1, <2>5 DEF PostFailed, Message
  <2> QED
    BY <1>11, <2>2, <2>3, <2>4, <2>5 DEF Answer
<1>12. CASE HudTimer \/ MatchFound \/ TapOver
  BY <1>12 DEF HudTimer, MatchFound, TapOver
<1>13. CASE UNCHANGED vars
  BY <1>13 DEF vars
<1> QED
  BY <1>1, <1>2, <1>3, <1>4, <1>5, <1>6, <1>7, <1>8, <1>9, <1>10, <1>11, <1>12, <1>13
     DEF Next

LEMMA OneRequestHolds == Spec => []OneRequest
BY TypeCorrect, InitOneRequest, NextOneRequest, PTL DEF Spec

(* SVProgressHUD.show and dismiss come in pairs around every request of    *)
(* the form, but for an upload that fails.                                 *)
THEOREM HudAlwaysBusy == Spec => []HudIsBusy
<1>1. OneRequest => HudIsBusy
  BY DEF OneRequest
<1> QED
  BY <1>1, OneRequestHolds, PTL

(* However often the post button is tapped, a form that stores an event    *)
(* closes, but under the match screen, or if its answer says otherwise.    *)
THEOREM FormStoresOneEvent == Spec => []OneEvent
<1>1. OneRequest => OneEvent
  BY DEF OneRequest
<1> QED
  BY <1>1, OneRequestHolds, PTL

-----------------------------------------------------------------------------
(* The confirmation shows the form                                         *)

(* A field tells what it shows, up to the two exceptions of AsShown.       *)
Tells(f) ==
  \/ told[f] = None \/ told[f] = shown[f]
  \/ f = "member" /\ shown[f] = Blank
  \/ f = "image" /\ late

ShownIsTold ==
  /\ \A f \in Fields : Tells(f)
  /\ screen = "confirm" => Complete /\ data = told

LEMMA InitShownIsTold == Init => ShownIsTold
<1> SUFFICES ASSUME Init PROVE ShownIsTold
  OBVIOUS
<1>1. screen = "form"
  BY DEF Init
<1>2. CASE ~New
  <2>1. PICK cached, genres \in BOOLEAN : Old(cached, genres)
    BY <1>2 DEF Init
  <2> QED
    BY <1>1, <2>1 DEF Old, ShownIsTold, Tells, Fields, Picks
<1>3. CASE New
  BY <1>1, <1>3 DEF Init, New, ShownIsTold, Tells, Fields, Picks
<1> QED
  BY <1>2, <1>3

(* Writing a field in both places keeps every field telling.               *)
LEMMA TellsField ==
  ASSUME TypeOK, ShownIsTold, NEW f \in Fields, NEW value,
         shown' = [shown EXCEPT ![f] = value], told' = [told EXCEPT ![f] = value],
         UNCHANGED late
  PROVE  \A g \in Fields : Tells(g)'
BY DEF TypeOK, Form, Told, ShownIsTold, Tells

LEMMA NextShownIsTold == TypeOK /\ ShownIsTold /\ [Next]_vars => ShownIsTold'
<1> SUFFICES ASSUME TypeOK, ShownIsTold, [Next]_vars PROVE ShownIsTold'
  OBVIOUS
<1> USE DEF view, form, server, request
<1>1. ASSUME NEW text \in Values \union {Blank}, TypeTitle(text) PROVE ShownIsTold'
  BY <1>1, TellsField DEF TypeTitle, ShownIsTold, Fields
<1>2. ASSUME NEW text \in Values \union {Blank}, TypeMember(text) PROVE ShownIsTold'
  <2>1. CASE text = Blank
    BY <1>2, <2>1 DEF TypeMember, Parsed, TypeOK, Form, Told, ShownIsTold, Tells, Fields
  <2>2. CASE text # Blank
    BY <1>2, <2>2, TellsField DEF TypeMember, Parsed, ShownIsTold, Fields
  <2> QED
    BY <2>1, <2>2
<1>3. ASSUME NEW field \in Picks, NEW value \in Values, Pick(field, value)
      PROVE  ShownIsTold'
  BY <1>3, TellsField DEF Touch, Pick, ShownIsTold, Fields
<1>4. CASE ImageLoaded
  <2>1. \A f \in Fields : Tells(f)'
    BY <1>4 DEF ImageLoaded, TypeOK, Form, ShownIsTold, Tells, Fields, Picks
  <2> QED
    BY <1>4, <2>1 DEF ImageLoaded, ShownIsTold, Complete
<1>5. CASE TapConfirm
  BY <1>5 DEF Touch, TapConfirm, ShownIsTold, Tells, Complete
<1>6. CASE Leave \/ Fix \/ HudTimer \/ MatchFound \/ TapOver
  BY <1>6 DEF Touch, Leave, Fix, HudTimer, MatchFound, TapOver, ShownIsTold, Tells, Complete
<1>7. CASE TapDelete \/ DeleteOk \/ DeleteFailed
  BY <1>7 DEF Touch, TapDelete, DeleteOk, DeleteFailed, Dismiss, ShownIsTold, Tells, Complete
<1>8. CASE TapPost
  BY <1>8 DEF Touch, TapPost, ShownIsTold, Tells, Complete
<1>9. ASSUME NEW p \in posts, Answer(p) PROVE ShownIsTold'
  BY <1>9 DEF Answer, Uploaded, UploadFailed, Posted, Dismiss, PostFailed, ShownIsTold,
              Tells, Complete
<1>10. CASE UNCHANGED vars
  BY <1>10 DEF vars, ShownIsTold, Tells, Complete
<1> QED
  BY <1>1, <1>2, <1>3, <1>4, <1>5, <1>6, <1>7, <1>8, <1>9, <1>10 DEF Next

(* setData hands over what the form shows, up to the number that is none   *)
(* and the image that came late.                                           *)
THEOREM ConfirmationIsShown == Spec => []AsShown
<1>1. ShownIsTold => AsShown
  BY DEF ShownIsTold, Tells, Complete, AsShown
<1> QED
  BY <1>1, TypeCorrect, InitShownIsTold, NextShownIsTold, PTL DEF Spec
=============================================================================
