---------------------------- MODULE MediaIsolation ----------------------------
(***************************************************************************)
(* Gestures on a paused video in devices/glkvm/hosts-prototype/app.js:     *)
(* they are for the browser's own Play control, and are kept from the      *)
(* stock handlers that type and click on the host.                         *)
(*                                                                         *)
(* A step is one event, decided by captureMediaControl and, on the video   *)
(* itself, stopped by isolateMediaControl.  A browser sends a gesture as a *)
(* fixed run of events of one button; keys go down and up beside it, on    *)
(* whatever has the focus.                                                 *)
(***************************************************************************)
EXTENDS Integers, FiniteSets, Sequences

CONSTANTS Keys

ASSUME MediaAssumption == "gesture" \notin Keys

VARIABLES
    beingWatched,    \* observedVideo: "none", "paused" (or without a frame), "frames"
    gesture,     \* mediaPointerGesture
    keyIsolation, keyClick,  \* mediaKeyIsolation, mediaKeyboardClick
    browser,     \* which events its gestures consist of
    rest,        \* of the gesture in progress: the events still to come
    decisions,   \* history: what its events were decided
    held,        \* history: keys that are down
    onHost,      \* history: keys whose press the stock handlers saw, and not its release
    excused      \* history: keys, and the gesture, whose decision was forgotten on the way
isolation == <<gesture, keyIsolation, keyClick>>
mediaVars == <<beingWatched, isolation, browser, rest, decisions, held, onHost, excused>>

NoGesture == [source |-> "none", isolate |-> FALSE]
Unset == "unset"
\* The runs of events of the input devices of a browser.
Gestures ==
    [pointer |-> {<<"pointerdown", "mousedown", "pointerup", "mouseup", "click">>,
                  <<"pointerdown", "mousedown", "pointerup", "mouseup">>,
                  <<"pointerdown", "touchstart", "pointerup", "touchend", "mousedown", "mouseup", "click">>,
                  <<"pointerdown", "touchstart", "pointercancel", "touchcancel">>},
     touch   |-> {<<"touchstart", "touchend", "mousedown", "mouseup", "click">>,
                  <<"touchstart", "touchend">>, <<"touchstart", "touchcancel">>},
     mouse   |-> {<<"mousedown", "mouseup", "click">>, <<"mousedown", "mouseup">>}]

MediaInit ==
    /\ beingWatched \in {"none", "paused", "frames"}
    /\ gesture = NoGesture /\ keyIsolation = [k \in Keys |-> Unset] /\ keyClick = Unset
    /\ browser \in DOMAIN Gestures /\ rest = <<>> /\ decisions = {}
    /\ held = {} /\ onHost = {} /\ excused = {}

\* observeVideo: another element or none, and nothing left of the gestures on the last one.
Observe(v) ==
    /\ beingWatched' = v
    /\ gesture' = NoGesture /\ keyClick' = Unset /\ keyIsolation' = [k \in Keys |-> Unset]
    /\ excused' = excused \cup held \cup {"gesture"}
    /\ UNCHANGED <<browser, rest, decisions, held, onHost>>
\* The video starts, stalls or pauses.
VideoGoes ==
    /\ beingWatched # "none" /\ beingWatched' \in {"paused", "frames"} \ {beingWatched}
    /\ UNCHANGED <<isolation, browser, rest, decisions, held, onHost, excused>>
-----------------------------------------------------------------------------
StartsPaused(onVideo) == onVideo /\ beingWatched = "paused"

OpensGesture(type) ==
    \/ type = "pointerdown"
    \/ type = "touchstart" /\ gesture.source # "pointer"
    \/ type = "mousedown" /\ gesture.source \in {"none", "mouse"}
Source(type) == CASE type = "pointerdown" -> "pointer" [] type = "touchstart" -> "touch" [] OTHER -> "mouse"
Isolated(type, paused) ==
    IF OpensGesture(type) THEN paused
    ELSE IF gesture.source # "none" THEN gesture.isolate ELSE paused
Closes(type) == type \in {"click", "pointercancel", "touchcancel"}

\* The next event of a gesture, or the first of a new one.  What is not isolated reaches
\* the stock handlers, as everything does while no video is observed.
Gesture(onVideo) ==
    \E run \in IF rest = <<>> THEN Gestures[browser] ELSE {rest} :
       LET type == Head(run)
           paused == StartsPaused(onVideo)
           isolate == beingWatched # "none" /\ Isolated(type, paused) IN
       /\ rest' = Tail(run)
       /\ decisions' = (IF rest = <<>> THEN {} ELSE decisions) \cup {isolate}
       /\ excused' = (IF rest = <<>> THEN excused \ {"gesture"} ELSE excused)
                        \cup IF Closes(type) /\ rest' # <<>> THEN {"gesture"} ELSE {}
       /\ IF beingWatched = "none" THEN UNCHANGED isolation
          ELSE /\ gesture' = IF Closes(type) THEN NoGesture
                             ELSE IF OpensGesture(type) THEN [source |-> Source(type), isolate |-> paused]
                             ELSE gesture
               /\ keyClick' = IF OpensGesture(type) \/ Closes(type) THEN Unset ELSE keyClick
               /\ UNCHANGED keyIsolation
       /\ UNCHANGED <<beingWatched, browser, held, onHost>>
\* pointermove without a button: a drag that ended in no click is over.
Hover ==
    /\ beingWatched # "none" /\ browser = "pointer" /\ rest = <<>> /\ gesture' = NoGesture
    /\ UNCHANGED <<beingWatched, keyIsolation, keyClick, browser, rest, decisions, held, onHost, excused>>

Decision(paused) == IF paused THEN "isolate" ELSE "pass"

\* Mutant: the release of a key is decided anew.
DecidedAgain(k, paused) == Decision(paused)
KeyDecision(k, paused) == IF keyIsolation[k] # Unset THEN keyIsolation[k] ELSE Decision(paused)

KeyDown(k, onVideo, repeat) ==
    /\ repeat <=> k \in held
    /\ LET paused == StartsPaused(onVideo)
           decision == IF repeat THEN KeyDecision(k, paused) ELSE Decision(paused)
           passed == beingWatched = "none" \/ decision = "pass" IN
       /\ IF beingWatched = "none" THEN UNCHANGED <<keyIsolation, keyClick>>
          ELSE keyIsolation' = [keyIsolation EXCEPT ![k] = decision] /\ keyClick' = decision
       /\ onHost' = IF passed THEN onHost \cup {k} ELSE IF repeat THEN onHost ELSE onHost \ {k}
    /\ held' = held \cup {k} /\ excused' = IF repeat THEN excused ELSE excused \ {k}
    /\ UNCHANGED <<beingWatched, gesture, browser, rest, decisions>>
KeyUp(k, onVideo) ==
    /\ k \in held /\ held' = held \ {k}
    /\ LET paused == StartsPaused(onVideo) IN
       onHost' = IF beingWatched = "none" \/ KeyDecision(k, paused) = "pass" THEN onHost \ {k} ELSE onHost
    /\ keyIsolation' = IF beingWatched = "none" THEN keyIsolation ELSE [keyIsolation EXCEPT ![k] = Unset]
    /\ UNCHANGED <<beingWatched, gesture, keyClick, browser, rest, decisions, excused>>
\* The window is left: nothing tells the page, or the stock handlers, that keys go up.
KeysLost ==
    /\ held # {} /\ held' = {} /\ excused' = excused \cup held
    /\ UNCHANGED <<beingWatched, isolation, browser, rest, decisions, onHost>>
\* Enter or Space on a control of the video: the click ends the pointer's gesture as well.
KeyboardClick ==
    /\ beingWatched # "none" /\ keyClick # Unset
    /\ gesture' = NoGesture /\ keyClick' = Unset /\ excused' = excused \cup {"gesture"}
    /\ UNCHANGED <<beingWatched, keyIsolation, browser, rest, decisions, held, onHost>>

MediaNext ==
    \/ \E v \in {"none", "paused", "frames"} : Observe(v)
    \/ VideoGoes \/ Hover \/ KeyboardClick \/ KeysLost
    \/ \E onVideo \in BOOLEAN :
          \/ Gesture(onVideo)
          \/ \E k \in Keys : KeyUp(k, onVideo) \/ \E repeat \in BOOLEAN : KeyDown(k, onVideo, repeat)
MediaSpec == MediaInit /\ [][MediaNext]_mediaVars
-----------------------------------------------------------------------------
(* Properties.                                                             *)

MediaTypeOK ==
    /\ beingWatched \in {"none", "paused", "frames"}
    /\ gesture \in [source : {"none"} \cup DOMAIN Gestures, isolate : BOOLEAN]
    /\ "gesture" \in excused \/ gesture.source \in {"none", browser}
    /\ keyIsolation \in [Keys -> {Unset, "pass", "isolate"}] /\ keyClick \in {Unset, "pass", "isolate"}
    /\ decisions \subseteq BOOLEAN /\ held \subseteq Keys /\ onHost \subseteq Keys
    /\ excused \subseteq Keys \cup {"gesture"}

\* "That decision covers the release and click as well": one gesture is decided once,
\* whatever the video does meanwhile, until its click or cancel.
GestureIsWhole == "gesture" \in excused \/ Cardinality(decisions) <= 1

\* A key the host saw go down is seen to go up, whether the video starts, pauses or stalls
\* while it is held, so that no key sticks on the host.
KeysAreReleased == onHost \subseteq held \cup excused

\* The host behind the video sees whole clicks and no key that stays down.
GestureSafe == MediaTypeOK /\ GestureIsWhole /\ KeysAreReleased
=============================================================================
