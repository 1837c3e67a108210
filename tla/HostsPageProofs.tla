---------------------------- MODULE HostsPageProofs ----------------------------
(***************************************************************************)
(* What is proved of the page beside its switching (HostSwitchProofs), one *)
(* section each.                                                           *)
(*                                                                         *)
(* Playback: PlaybackSafe is inductive as it stands.  What carries it is   *)
(* that one play() at most is current, and that every handler that counts  *)
(* an attempt also says what it has become of the status.                  *)
(*                                                                         *)
(* MediaIsolation: the properties compare events that are far apart, so    *)
(* the invariant says what connects them: what can still come of a gesture *)
(* (RunInv), that nothing of it opens another one (SourceInv), that the    *)
(* decision it is held to is that of its first event (DecisionInv), and    *)
(* that a key that the host saw is held to "pass" (KeyInv).                *)
(*                                                                         *)
(* VideoWatch: a verdict speaks of the readings, the loop only has what it *)
(* remembers of them. WatchInv ties its memory to the log of the readings: *)
(* what it takes for lit, for lost, for settled and for recent was read.   *)
(***************************************************************************)
EXTENDS Playback, MediaIsolation, VideoWatch, FiniteSetTheorems, TLAPS

\* What is shown of a video by itself is neither a wait nor a rejection.
LEMMA ShownIsOwn ==
    ASSUME NEW v PROVE StateShown(v) \in {"error", "paused", "ready", "checking"}
BY DEF StateShown

\* The last attempt and the observed video determine the promise that is waited for.
LEMMA OneIsCurrent ==
    ASSUME PlaybackTypeOK, NEW p \in promises, NEW q \in promises, Current(p), Current(q)
    PROVE  p = q
<1>1. /\ p = [attempt |-> p.attempt, video |-> p.video]
      /\ q = [attempt |-> q.attempt, video |-> q.video]
    BY DEF PlaybackTypeOK
<1> QED
    BY <1>1 DEF Current

LEMMA PlayStarts == PlayInit => PlaybackSafe
<1> SUFFICES ASSUME PlayInit
             PROVE  PlaybackSafe
    OBVIOUS
<1>1. PlaybackTypeOK
    BY PlaybackAssumption, ShownIsOwn DEF PlayInit, PlaybackTypeOK
<1>2. StatusIsOfThisAttempt
    BY ShownIsOwn DEF PlayInit, StatusIsOfThisAttempt
<1> QED
    BY <1>1, <1>2 DEF PlaybackSafe

\* The console replaces its video element, or its document.
LEMMA ConsoleKeepsStatus ==
    ASSUME PlaybackSafe, NEW v \in Videos \cup {None}, DomChanges(v) \/ FrameLoads(v)
    PROVE  PlaybackSafe'
<1> USE PlaybackAssumption DEF PlaybackSafe, StatusIsOfThisAttempt
<1>0. v \in IF v # None THEN {v, None} ELSE Videos \cup {None}
    OBVIOUS
<1>1. CASE v = observed /\ DomChanges(v)
  <2>1. live' = v /\ UNCHANGED <<observed, status, hidden, video, promises, playAttempt>>
      BY <1>1 DEF DomChanges, HiddenFor, StatusOnObserve
  <2>2. Awaited' <=> Awaited
      BY <2>1 DEF Awaited, Current
  <2>3. PlaybackTypeOK'
      BY <1>1, <2>1 DEF PlaybackTypeOK
  <2> QED
      BY <2>1, <2>2, <2>3
<1>2. CASE v # observed /\ DomChanges(v)
  <2>1. /\ live' = v /\ observed' = v /\ playAttempt' = playAttempt + 1 /\ playAttempt < MaxAttempts
        /\ hidden' = (v = None) /\ UNCHANGED <<video, promises>>
      BY <1>2 DEF DomChanges, HiddenFor
  <2>2. status' = status \/ status' \in {"error", "paused", "ready", "checking"}
      BY <1>2, ShownIsOwn DEF DomChanges, StatusOnObserve
  <2>3. v # None => status' \in {"error", "paused", "ready", "checking"}
      BY <1>2, ShownIsOwn DEF DomChanges, StatusOnObserve
  <2>4. PlaybackTypeOK'
      BY <1>0, <2>1, <2>2 DEF PlaybackTypeOK
  <2> QED
      BY <2>1, <2>3, <2>4
<1>3. CASE FrameLoads(v)
  <2>1. /\ live' = v /\ observed' = v /\ playAttempt' \in 0 .. MaxAttempts
        /\ hidden' = (v = None) /\ UNCHANGED <<video, promises>>
      BY <1>3 DEF FrameLoads, PlaybackTypeOK
  <2>2. status' = status \/ status' \in {"error", "paused", "ready", "checking"}
      BY <1>3, ShownIsOwn DEF FrameLoads
  <2>3. v # None => status' \in {"error", "paused", "ready", "checking"}
      BY <1>3, ShownIsOwn DEF FrameLoads
  <2>4. PlaybackTypeOK'
      BY <1>0, <2>1, <2>2 DEF PlaybackTypeOK
  <2> QED
      BY <2>1, <2>3, <2>4
<1> QED
    BY <1>1, <1>2, <1>3

\* Start video, with a promise or without one.
LEMMA StartKeepsStatus ==
    ASSUME PlaybackSafe, NEW v \in Videos, StartVideo(v)
    PROVE  PlaybackSafe'
<1> USE PlaybackAssumption DEF PlaybackSafe
<1>1. /\ playAttempt' = playAttempt + 1 /\ playAttempt' \in 1 .. MaxAttempts
      /\ observed' = v /\ hidden' = FALSE /\ UNCHANGED <<live, video>>
      /\ v \in Found /\ v # None
    BY DEF StartVideo, PlaybackTypeOK
<1> DEFINE p == [attempt |-> playAttempt', video |-> v]
<1>2. CASE status' = "pending" /\ promises' = promises \cup {p}
  <2>1. Awaited'
    <3>1. p \in promises' /\ p.attempt = playAttempt' /\ p.video = observed'
        BY <1>1, <1>2
    <3> QED
        BY <3>1 DEF Awaited, Current
  <2>2. PlaybackTypeOK'
    <3>1. p \in [attempt : 1 .. MaxAttempts, video : Videos]
        BY <1>1
    <3>2. playAttempt' \in 0 .. MaxAttempts /\ observed' \in IF live' # None THEN {live', None} ELSE Videos \cup {None}
        BY <1>1 DEF PlaybackTypeOK, Found
    <3> QED
        BY <1>1, <1>2, <3>1, <3>2 DEF PlaybackTypeOK
  <2> QED
      BY <1>2, <2>1, <2>2 DEF StatusIsOfThisAttempt
<1>3. CASE status' = StateShown(v) /\ UNCHANGED promises
  <2>1. status' \in {"error", "paused", "ready", "checking"}
      BY <1>3, ShownIsOwn
  <2>2. observed' \in IF live' # None THEN {live', None} ELSE Videos \cup {None}
      BY <1>1 DEF PlaybackTypeOK, Found
  <2>3. playAttempt' \in 0 .. MaxAttempts
      BY <1>1
  <2>4. live' \in Videos \cup {None} /\ video' \in [Videos -> {"paused", "waiting", "frames", "error"}]
        /\ promises' \subseteq [attempt : 1 .. MaxAttempts, video : Videos]
      BY <1>1, <1>3 DEF PlaybackTypeOK
  <2>5. PlaybackTypeOK'
      BY <1>1, <2>1, <2>2, <2>3, <2>4 DEF PlaybackTypeOK
  <2> QED
      BY <1>1, <2>1, <2>5 DEF StatusIsOfThisAttempt
<1> QED
    BY <1>2, <1>3 DEF StartVideo

\* A promise settles, current or not.
LEMMA SettlingKeepsStatus ==
    ASSUME PlaybackSafe, NEW p \in promises, Resolves(p) \/ Rejects(p)
    PROVE  PlaybackSafe'
<1> USE PlaybackAssumption DEF PlaybackSafe
<1>1. promises' = promises \ {p} /\ UNCHANGED <<live, video, observed, playAttempt>>
    BY DEF Resolves, Rejects
<1>2. CASE Current(p)
  <2>1. ~Awaited'
      BY <1>1, <1>2, OneIsCurrent DEF Awaited, Current
  <2>2. observed # None /\ hidden' = FALSE /\ status' \in {"rejected", "error", "paused", "ready", "checking"}
      BY <1>2, ShownIsOwn DEF Current, PlaybackTypeOK, Resolves, Rejects
  <2> QED
      BY <1>1, <2>1, <2>2 DEF PlaybackTypeOK, StatusIsOfThisAttempt
<1>3. CASE ~Current(p)
  <2>1. Awaited' <=> Awaited
      BY <1>1, <1>3 DEF Awaited, Current
  <2> QED
      BY <1>1, <1>3, <2>1 DEF Resolves, Rejects, PlaybackTypeOK, StatusIsOfThisAttempt
<1> QED
    BY <1>2, <1>3

\* A "starting" that is shown is still waited for and a rejection that is shown is the
\* last attempt's, whatever elements the console puts in place (app.js).
THEOREM PlaybackIsSafe == PlaySpec => []PlaybackSafe
<1>1. PlaybackSafe /\ [PlayNext]_playVars => PlaybackSafe'
  <2> SUFFICES ASSUME PlaybackSafe, [PlayNext]_playVars
               PROVE  PlaybackSafe'
      OBVIOUS
  <2> USE DEF PlaybackSafe, PlaybackTypeOK, StatusIsOfThisAttempt
  <2>1. ASSUME NEW v \in Videos, MediaChanges(v)
        PROVE  PlaybackSafe'
      BY <2>1 DEF MediaChanges, Awaited, Current
  <2>2. CASE VideoEvent
      BY <2>2, ShownIsOwn DEF VideoEvent
  <2>3. CASE StartFails
    <3>1. observed' \in IF live' # None THEN {live', None} ELSE Videos \cup {None}
        BY <2>3 DEF StartFails
    <3>2. /\ playAttempt' \in 0 .. MaxAttempts /\ status' = "error" /\ hidden' = FALSE
          /\ UNCHANGED <<live, video, promises>>
        BY <2>3, PlaybackAssumption DEF StartFails
    <3> QED
        BY <3>1, <3>2
  <2>4. CASE UNCHANGED playVars
      BY <2>4 DEF playVars, Awaited, Current
  <2> QED
      BY <2>1, <2>2, <2>3, <2>4, ConsoleKeepsStatus, StartKeepsStatus, SettlingKeepsStatus DEF PlayNext
<1> QED
    BY <1>1, PlayStarts, PTL DEF PlaySpec
-----------------------------------------------------------------------------
(* MediaIsolation.                                                         *)

\* The first event of the gestures of a browser, and those that can follow it.
First == [pointer |-> "pointerdown", touch |-> "touchstart", mouse |-> "mousedown"]
Later ==
    [pointer |-> {"touchstart", "mousedown", "pointerup", "mouseup", "touchend", "click",
                  "pointercancel", "touchcancel"},
     touch   |-> {"touchend", "mousedown", "mouseup", "click", "touchcancel"},
     mouse   |-> {"mouseup", "click"}]

RunInv == browser \in {"pointer", "touch", "mouse"} /\ rest \in Seq(Later[browser])

SourceInv ==
    /\ browser = "touch" => gesture.source # "pointer"
    /\ browser = "mouse" => gesture.source \in {"none", "mouse"}
    /\ beingWatched = "none" => gesture = NoGesture /\ keyIsolation = [k \in Keys |-> Unset]

DecisionInv ==
    "gesture" \in excused
    \/ /\ \E d \in BOOLEAN : decisions \subseteq {d}
       /\ rest # <<>> /\ beingWatched = "none" => decisions \subseteq {FALSE}
       /\ rest # <<>> /\ beingWatched # "none" =>
             gesture.source = browser /\ decisions \subseteq {gesture.isolate}

KeyInv ==
    \A k \in onHost \ excused : k \in held /\ (beingWatched = "none" \/ keyIsolation[k] = "pass")

MediaInv == MediaTypeOK /\ RunInv /\ SourceInv /\ DecisionInv /\ KeyInv

LEMMA Browsers == DOMAIN Gestures = {"pointer", "touch", "mouse"}
BY DEF Gestures

\* A gesture begins with the first event of its browser, and none of the others is one.
LEMMA RunsBegin ==
    ASSUME NEW b \in {"pointer", "touch", "mouse"}, NEW run \in Gestures[b]
    PROVE  run # <<>> /\ Head(run) = First[b] /\ Tail(run) \in Seq(Later[b])
<1>1. CASE b = "pointer"
  <2>1. CASE run = <<"pointerdown", "mousedown", "pointerup", "mouseup", "click">>
      BY <1>1, <2>1 DEF First, Later
  <2>2. CASE run = <<"pointerdown", "mousedown", "pointerup", "mouseup">>
      BY <1>1, <2>2 DEF First, Later
  <2>3. CASE run = <<"pointerdown", "touchstart", "pointerup", "touchend", "mousedown", "mouseup", "click">>
      BY <1>1, <2>3 DEF First, Later
  <2>4. CASE run = <<"pointerdown", "touchstart", "pointercancel", "touchcancel">>
      BY <1>1, <2>4 DEF First, Later
  <2> QED
      BY <1>1, <2>1, <2>2, <2>3, <2>4 DEF Gestures
<1>2. CASE b = "touch"
  <2>1. CASE run = <<"touchstart", "touchend", "mousedown", "mouseup", "click">>
      BY <1>2, <2>1 DEF First, Later
  <2>2. CASE run = <<"touchstart", "touchend">>
      BY <1>2, <2>2 DEF First, Later
  <2>3. CASE run = <<"touchstart", "touchcancel">>
      BY <1>2, <2>3 DEF First, Later
  <2> QED
      BY <1>2, <2>1, <2>2, <2>3 DEF Gestures
<1>3. CASE b = "mouse"
  <2>1. CASE run = <<"mousedown", "mouseup", "click">>
      BY <1>3, <2>1 DEF First, Later
  <2>2. CASE run = <<"mousedown", "mouseup">>
      BY <1>3, <2>2 DEF First, Later
  <2> QED
      BY <1>3, <2>1, <2>2 DEF Gestures
<1> QED
    BY <1>1, <1>2, <1>3

\* A set that holds one decision at most.
LEMMA OneDecision ==
    ASSUME NEW S, NEW d, S \subseteq {d}
    PROVE  Cardinality(S) <= 1
<1>1. S = {} \/ S = {d}
    OBVIOUS
<1>2. Cardinality({}) = 0 /\ Cardinality({d}) = 1
    BY FS_EmptySet, FS_Singleton, Zenon
<1> QED
    BY <1>1, <1>2

LEMMA MediaImplied == MediaInv => GestureSafe
BY OneDecision DEF MediaInv, DecisionInv, KeyInv, GestureSafe, GestureIsWhole, KeysAreReleased

LEMMA MediaStarts == MediaInit => MediaInv
<1> SUFFICES ASSUME MediaInit
             PROVE  MediaInv
    OBVIOUS
<1> USE Browsers DEF MediaInit, NoGesture
<1>1. gesture \in [source : {"none"} \cup DOMAIN Gestures, isolate : BOOLEAN] /\ gesture.source = "none"
    OBVIOUS
<1>2. keyIsolation \in [Keys -> {Unset, "pass", "isolate"}]
    OBVIOUS
<1>3. MediaTypeOK
    BY <1>1, <1>2 DEF MediaTypeOK
<1>4. RunInv /\ SourceInv /\ KeyInv
    BY <1>1 DEF RunInv, SourceInv, KeyInv
<1>5. DecisionInv
    BY DEF DecisionInv
<1> QED
    BY <1>3, <1>4, <1>5 DEF MediaInv

\* What no gesture event touches.
LEMMA KeysKept == MediaInv /\ (Observe("none") \/ Observe("paused") \/ Observe("frames") \/ VideoGoes
                                \/ Hover \/ KeyboardClick \/ KeysLost \/ UNCHANGED mediaVars) => MediaInv'
<1> SUFFICES ASSUME MediaInv
             PROVE  (Observe("none") \/ Observe("paused") \/ Observe("frames") \/ VideoGoes
                        \/ Hover \/ KeyboardClick \/ KeysLost \/ UNCHANGED mediaVars) => MediaInv'
    OBVIOUS
<1> USE Browsers DEF MediaInv, MediaTypeOK, RunInv, SourceInv, DecisionInv, KeyInv, NoGesture
<1>1. ASSUME NEW v \in {"none", "paused", "frames"}, Observe(v)
      PROVE  MediaInv'
  <2>1. gesture' \in [source : {"none"} \cup DOMAIN Gestures, isolate : BOOLEAN] /\ gesture'.source = "none"
      BY <1>1 DEF Observe
  <2>2. keyIsolation' \in [Keys -> {Unset, "pass", "isolate"}]
      BY <1>1 DEF Observe
  <2>3. MediaTypeOK'
      BY <1>1, <2>1, <2>2 DEF Observe
  <2> QED
      BY <1>1, <2>1, <2>3 DEF Observe
<1>2. CASE VideoGoes
    BY <1>2 DEF VideoGoes, isolation
<1>3. CASE Hover
    BY <1>3 DEF Hover
<1>4. CASE KeyboardClick
    BY <1>4 DEF KeyboardClick
<1>5. CASE KeysLost
    BY <1>5, MediaAssumption DEF KeysLost, isolation
<1>6. CASE UNCHANGED mediaVars
    BY <1>6 DEF mediaVars, isolation
<1> QED
    BY <1>1, <1>2, <1>3, <1>4, <1>5, <1>6

\* An event of a gesture.
LEMMA GestureKept == ASSUME MediaInv, NEW onVideo \in BOOLEAN, Gesture(onVideo)
                     PROVE  MediaInv'
<1> USE Browsers DEF MediaInv, MediaTypeOK
<1>1. PICK run \in IF rest = <<>> THEN Gestures[browser] ELSE {rest} :
        LET type == Head(run)
            paused == StartsPaused(onVideo)
            isolate == beingWatched # "none" /\ Isolated(type, paused) IN
        /\ rest' = Tail(run)
        /\ decisions' = (IF rest = <<>> THEN {} ELSE decisions) \cup {isolate}
        /\ excused' = (IF rest = <<>> THEN excused \ {"gesture"} ELSE excused)
                        \cup IF Closes(type) /\ rest' # <<>> THEN {"gesture"} ELSE {}
        /\ IF beingWatched = "none" THEN UNCHANGED isolation
           ELSE /\ gesture' = IF Closes(type) THEN NoGesture
                              ELSE IF OpensGesture(type) THEN [source |-> Source(type), isolate |-> paused]
                              ELSE gesture
                /\ keyClick' = IF OpensGesture(type) \/ Closes(type) THEN Unset ELSE keyClick
                /\ UNCHANGED keyIsolation
        /\ UNCHANGED <<beingWatched, browser, held, onHost>>
    BY DEF Gesture
<1> DEFINE type == Head(run)
           paused == StartsPaused(onVideo)
           isolate == beingWatched # "none" /\ Isolated(type, paused)
<1>2. paused \in BOOLEAN /\ isolate \in BOOLEAN
    BY DEF StartsPaused, Isolated
<1>3. /\ Tail(run) \in Seq(Later[browser])
      /\ rest = <<>> => type = First[browser]
      /\ rest # <<>> => type \in Later[browser]
    BY <1>1, RunsBegin DEF RunInv
<1>4. RunInv'
    BY <1>1, <1>3 DEF RunInv
<1>5. gesture' = gesture \/ gesture' = NoGesture \/ gesture' = [source |-> Source(type), isolate |-> paused]
    BY <1>1 DEF isolation
<1>6. Source(type) \in {"pointer", "touch", "mouse"}
    BY DEF Source
<1>7. rest = <<>> => /\ Source(type) = browser /\ ~Closes(type)
                     /\ beingWatched # "none" => OpensGesture(type)
    BY <1>3 DEF RunInv, SourceInv, First, Source, Closes, OpensGesture
<1>8. rest # <<>> /\ gesture.source = browser => ~OpensGesture(type)
    BY <1>3 DEF RunInv, Later, OpensGesture
<1>9. MediaTypeOK'
  <2>1. gesture' \in [source : {"none"} \cup DOMAIN Gestures, isolate : BOOLEAN]
    <3>1. CASE gesture' = gesture
        BY <3>1
    <3>2. CASE gesture' = NoGesture
        BY <3>2 DEF NoGesture
    <3>3. CASE gesture' = [source |-> Source(type), isolate |-> paused]
        BY <1>2, <1>6, <3>3
    <3> QED
        BY <1>5, <3>1, <3>2, <3>3
  <2>2. CASE rest = <<>>
    <3>1. gesture'.source \in {"none", browser}
        BY <1>1, <1>5, <1>7, <2>2 DEF SourceInv, NoGesture, isolation
    <3> QED
        BY <1>1, <1>2, <2>1, <3>1 DEF isolation
  <2>3. CASE rest # <<>>
    <3>1. "gesture" \in excused \/ gesture'.source \in {"none", browser}
      <4>1. CASE beingWatched = "none"
          BY <1>1, <2>3, <4>1 DEF isolation
      <4>2. CASE beingWatched # "none"
        <5>1. "gesture" \in excused \/ gesture.source = browser
            BY <2>3, <4>2 DEF DecisionInv
        <5>2. gesture.source = browser => gesture' = gesture \/ gesture' = NoGesture
            BY <1>1, <1>8, <2>3, <4>2
        <5> QED
            BY <5>1, <5>2 DEF NoGesture
      <4> QED
          BY <4>1, <4>2
    <3> QED
        BY <1>1, <1>2, <2>1, <2>3, <3>1 DEF isolation
  <2> QED
      BY <2>2, <2>3
<1>10. SourceInv'
  <2>1. /\ browser = "touch" => Source(type) # "pointer"
        /\ browser = "mouse" => Source(type) = "mouse"
      BY <1>3 DEF RunInv, First, Later, Source
  <2> QED
      BY <1>1, <1>5, <2>1 DEF SourceInv, NoGesture, isolation
<1>11. DecisionInv'
  <2>1. CASE rest = <<>>
    <3>1. decisions' = {isolate}
        BY <1>1, <2>1
    <3>2. beingWatched = "none" => isolate = FALSE
        OBVIOUS
    <3>3. beingWatched # "none" => isolate = paused /\ gesture' = [source |-> browser, isolate |-> paused]
        BY <1>1, <1>2, <1>7, <2>1 DEF Isolated
    <3>4. UNCHANGED <<beingWatched, browser>>
        BY <1>1
    <3>5. beingWatched # "none" => gesture'.source = browser /\ decisions' \subseteq {gesture'.isolate}
        BY <3>1, <3>3
    <3> QED
        BY <1>2, <3>1, <3>2, <3>4, <3>5 DEF DecisionInv
  <2>2. CASE rest # <<>> /\ "gesture" \notin excused
    <3>1. decisions' = decisions \cup {isolate} /\ beingWatched' = beingWatched /\ browser' = browser
        BY <1>1, <2>2
    <3>2. CASE beingWatched = "none"
      <4>1. decisions' \subseteq {FALSE}
          BY <2>2, <3>1, <3>2 DEF DecisionInv
      <4> QED
          BY <3>1, <3>2, <4>1 DEF DecisionInv
    <3>3. CASE beingWatched # "none"
      <4>1. gesture.source = browser /\ decisions \subseteq {gesture.isolate}
          BY <2>2, <3>3 DEF DecisionInv
      <4>2. isolate = gesture.isolate
          BY <1>8, <2>2, <3>3, <4>1 DEF Isolated, RunInv
      <4>3. rest' = <<>> \/ "gesture" \in excused' \/ gesture' = gesture
          BY <1>1, <1>8, <2>2, <3>3, <4>1
      <4> QED
          BY <3>1, <4>1, <4>2, <4>3 DEF DecisionInv
    <3> QED
        BY <3>2, <3>3
  <2>3. CASE rest # <<>> /\ "gesture" \in excused
      BY <1>1, <2>3 DEF DecisionInv
  <2> QED
      BY <2>1, <2>2, <2>3
<1>12. KeyInv'
    BY <1>1, MediaAssumption DEF KeyInv, isolation
<1> QED
    BY <1>4, <1>9, <1>10, <1>11, <1>12

\* A key goes down, repeats or goes up.
LEMMA KeyKept ==
    ASSUME MediaInv, NEW onVideo \in BOOLEAN, NEW k \in Keys,
           KeyUp(k, onVideo) \/ \E repeat \in BOOLEAN : KeyDown(k, onVideo, repeat)
    PROVE  MediaInv'
<1> USE Browsers, MediaAssumption DEF MediaInv, MediaTypeOK
<1>1. CASE KeyUp(k, onVideo)
  <2>1. UNCHANGED <<beingWatched, gesture, browser, rest, decisions, excused>>
      BY <1>1 DEF KeyUp
  <2>2. RunInv' /\ SourceInv' /\ DecisionInv'
      BY <1>1, <2>1 DEF KeyUp, RunInv, SourceInv, DecisionInv
  <2>3. MediaTypeOK'
      BY <1>1, <2>1 DEF KeyUp
  <2>4. KeyInv'
      BY <1>1, <2>1 DEF KeyUp, KeyInv, KeyDecision, Unset
  <2> QED
      BY <2>2, <2>3, <2>4
<1>2. ASSUME NEW repeat \in BOOLEAN, KeyDown(k, onVideo, repeat)
      PROVE  MediaInv'
  <2>1. UNCHANGED <<beingWatched, gesture, browser, rest, decisions>>
      BY <1>2 DEF KeyDown
  <2>2. PICK decision \in {"pass", "isolate"} :
          /\ repeat => decision = KeyDecision(k, StartsPaused(onVideo))
          /\ IF beingWatched = "none" THEN UNCHANGED <<keyIsolation, keyClick>>
             ELSE keyIsolation' = [keyIsolation EXCEPT ![k] = decision] /\ keyClick' = decision
          /\ onHost' = IF beingWatched = "none" \/ decision = "pass" THEN onHost \cup {k}
                       ELSE IF repeat THEN onHost ELSE onHost \ {k}
      BY <1>2 DEF KeyDown, KeyDecision, Decision
  <2>3. /\ repeat <=> k \in held
        /\ held' = held \cup {k} /\ excused' = IF repeat THEN excused ELSE excused \ {k}
      BY <1>2 DEF KeyDown
  <2>4. RunInv' /\ SourceInv' /\ DecisionInv'
      BY <2>1, <2>2, <2>3 DEF RunInv, SourceInv, DecisionInv
  <2>5. MediaTypeOK'
      BY <2>1, <2>2, <2>3
  <2>6. KeyInv'
      BY <2>1, <2>2, <2>3 DEF KeyInv, KeyDecision, Unset
  <2> QED
      BY <2>4, <2>5, <2>6
<1> QED
    BY <1>1, <1>2

\* A gesture on the video is decided once, and a key whose press the host saw is seen to be
\* released, for any keys and any browser of the three kinds (captureMediaControl, app.js).
THEOREM MediaIsSafe == MediaSpec => []GestureSafe
<1>1. MediaInv /\ [MediaNext]_mediaVars => MediaInv'
    BY KeysKept, GestureKept, KeyKept DEF MediaNext
<1> QED
    BY <1>1, MediaStarts, MediaImplied, PTL DEF MediaSpec
-----------------------------------------------------------------------------
(* VideoWatch.                                                             *)

\* The readings by their number, the baseline being the one before the first.
Read(i) == IF i = 0 THEN baseline ELSE log[i].reading

LitInv == lastSignal = TRUE => \E i \in 0 .. Len(log) : Lit(Read(i))
LossInv ==
    sawLoss => \E i \in 0 .. Len(log) : \E j \in i + 1 .. Len(log) : Lit(Read(i)) /\ Dark(Read(j))
SettledInv ==
    candidate # Null =>
        \E i \in 1 .. Len(log) :
            /\ log[i].at = stableSince
            /\ \A j \in i .. Len(log) :
                  log[j].reading = [signal |-> TRUE, online |-> TRUE, mode |-> candidate.mode]
LatestInv ==
    latest # Null => \E i \in 1 .. Len(log) : log[i].reading # Null /\ log[i].at = lastValidAt

WatchInv == VerdictIsSeen /\ LitInv /\ LossInv /\ SettledInv /\ LatestInv

\* What a reading can be.
LEMMA ReadingShape ==
    ASSUME NEW r \in Reading
    PROVE  /\ r # Null /\ r.signal \in BOOLEAN /\ r.online \in BOOLEAN
           /\ (Lit(r) <=> r.signal) /\ (Dark(r) <=> ~r.signal)
           /\ Usable(r) => r.mode \in Modes /\ r = [signal |-> TRUE, online |-> TRUE, mode |-> r.mode]
<1>1. r # Null
    BY NullAssumption
<1>2. CASE r \in [signal : {FALSE}, online : BOOLEAN, mode : {Null}]
    BY <1>1, <1>2 DEF Lit, Dark, Usable
<1>3. CASE r \in [signal : {TRUE}, online : {FALSE}, mode : {Null}]
    BY <1>1, <1>3 DEF Lit, Dark, Usable
<1>4. CASE r \in [signal : {TRUE}, online : {TRUE}, mode : Modes]
    BY <1>1, <1>4 DEF Lit, Dark, Usable
<1> QED
    BY <1>2, <1>3, <1>4 DEF Reading

LEMMA NullReading == ~Lit(Null) /\ ~Dark(Null) /\ ~Usable(Null)
BY DEF Lit, Dark, Usable

LEMMA ElementOf == \A T : \A s \in Seq(T) : \A i \in 1 .. Len(s) : s[i] \in T
OBVIOUS

\* Seen, as the readings by their number.
SeenNumbered ==
    /\ DOMAIN Seen = 1 .. Len(log) + 1 /\ Len(Seen) = Len(log) + 1
    /\ \A i \in 1 .. Len(log) + 1 : Seen[i] = Read(i - 1)

LEMMA SeenIsRead == TypeOK => SeenNumbered
<1> DEFINE S == Reading \cup {Null}
           read == [i \in DOMAIN log |-> log[i].reading]
<1> SUFFICES ASSUME log \in Seq([at : Nat, reading : S])
             PROVE  SeenNumbered
    BY DEF TypeOK
<1> HIDE DEF S
<1>1. Len(log) \in Nat /\ DOMAIN log = 1 .. Len(log)
    OBVIOUS
<1>2. \A i \in 1 .. Len(log) : log[i].reading \in S
  <2>1. ASSUME NEW i \in 1 .. Len(log)
        PROVE  log[i] \in [at : Nat, reading : S]
      BY ElementOf
  <2> QED
      BY <2>1
<1>3. read \in Seq(S) /\ Len(read) = Len(log)
    BY <1>1, <1>2
<1>4. <<baseline>> \in Seq({baseline})
    OBVIOUS
<1>5. Seen = <<baseline>> \o read
    BY DEF Seen
<1>6. ASSUME NEW i \in 1 .. Len(log) + 1
      PROVE  Seen[i] = Read(i - 1)
  <2>1. CASE i = 1
      BY <1>3, <1>4, <1>5, <2>1 DEF Read
  <2>2. CASE i # 1
    <3>1. Seen[i] = read[i - 1]
        BY <1>1, <1>3, <1>4, <1>5, <2>2
    <3> QED
        BY <1>1, <2>2, <3>1 DEF Read
  <2> QED
      BY <2>1, <2>2
<1>7. DOMAIN Seen = 1 .. Len(log) + 1 /\ Len(Seen) = Len(log) + 1
    BY <1>1, <1>3, <1>4, <1>5
<1> QED
    BY <1>6, <1>7 DEF SeenNumbered

LEMMA WatchStarts == Init => WatchInv
<1> SUFFICES ASSUME Init
             PROVE  WatchInv
    OBVIOUS
<1> USE VideoAssumption, NullAssumption DEF Init
<1>1. lastSignal \in BOOLEAN \cup {Null} /\ (lastSignal = TRUE => Lit(baseline))
    BY ReadingShape
<1>2. log \in Seq([at : Nat, reading : Reading \cup {Null}]) /\ Len(log) = 0
    OBVIOUS
<1>3. now \in 0 .. Horizon /\ wake \in Nat /\ stableSince \in 0 .. now /\ lastValidAt \in 0 .. now
    OBVIOUS
<1>4. TypeOK
    BY <1>1, <1>2, <1>3 DEF TypeOK
<1>5. ReturnedWasLost /\ TransitionSettled /\ PresentIsRecent
    BY DEF ReturnedWasLost, TransitionSettled, PresentIsRecent, Transitions, Kinds
<1>6. LitInv
    BY <1>1, <1>2 DEF LitInv, Read
<1>7. LossInv /\ SettledInv /\ LatestInv
    BY DEF LossInv, SettledInv, LatestInv
<1> QED
    BY <1>4, <1>5, <1>6, <1>7 DEF WatchInv, VerdictIsSeen

\* Steps that leave the readings, and what is remembered of them, as they are.
LEMMA RestKeepsWatch ==
    ASSUME WatchInv, UNCHANGED <<baseline, memory, log>>,
           now' \in 0 .. Horizon, now' >= now, wake' \in Nat, cancelled' \in BOOLEAN,
           phase' \in {"sleeping", "reading", "done"}, phase' # "done", verdict' = Null
    PROVE  WatchInv'
<1> USE DEF WatchInv, VerdictIsSeen, memory
<1>1. TypeOK'
    BY DEF TypeOK
<1>2. LitInv' /\ LossInv' /\ SettledInv' /\ LatestInv'
    BY DEF LitInv, LossInv, SettledInv, LatestInv, Read
<1>3. ReturnedWasLost' /\ TransitionSettled' /\ PresentIsRecent'
    BY NullAssumption DEF ReturnedWasLost, TransitionSettled, PresentIsRecent, Transitions, Kinds
<1> QED
    BY <1>1, <1>2, <1>3

\* The watch gives up: what it says about the present is its last usable answer's.
LEMMA GiveUpKeepsWatch == WatchInv /\ GiveUp => WatchInv'
<1> SUFFICES ASSUME WatchInv, GiveUp
             PROVE  WatchInv'
    OBVIOUS
<1> USE NullAssumption DEF WatchInv, VerdictIsSeen
<1>1. /\ phase' = "done" /\ verdict' = Inconclusive
      /\ UNCHANGED <<now, wake, cancelled, baseline, memory, log>>
    BY DEF GiveUp, Conclude
<1>2. /\ verdict' \in {"unavailable", "no-signal", "not-ready", "unchanged"} /\ verdict' # Null
      /\ verdict' # "unavailable" => Recent
    BY <1>1 DEF Inconclusive, Kinds
<1>3. TypeOK'
    BY <1>1, <1>2 DEF TypeOK, Kinds, memory
<1>4. LitInv' /\ LossInv' /\ SettledInv' /\ LatestInv'
    BY <1>1 DEF LitInv, LossInv, SettledInv, LatestInv, Read, memory
<1>5. ReturnedWasLost' /\ TransitionSettled'
    BY <1>2 DEF ReturnedWasLost, TransitionSettled, Transitions
<1>6. PresentIsRecent'
  <2> SUFFICES ASSUME Recent
               PROVE  \E i \in DOMAIN log : log[i].reading # Null /\ now - log[i].at < ReadLimit + 2 * Poll
      BY <1>1, <1>2 DEF PresentIsRecent
  <2>1. PICK i \in 1 .. Len(log) : log[i].reading # Null /\ log[i].at = lastValidAt
      BY DEF Recent, LatestInv
  <2>2. DOMAIN log = 1 .. Len(log)
      BY DEF TypeOK
  <2> QED
      BY <2>1, <2>2 DEF Recent
<1> QED
    BY <1>3, <1>4, <1>5, <1>6

\* A reading joins the log, and what the loop notes of it is in the log.
LEMMA NoteKeeps ==
    ASSUME WatchInv, NEW r \in Reading \cup {Null}, Note(r), UNCHANGED <<now, baseline>>
    PROVE  /\ log' \in Seq([at : Nat, reading : Reading \cup {Null}]) /\ Len(log') = Len(log) + 1
           /\ \A i \in 0 .. Len(log) : Read(i)' = Read(i)
           /\ \A i \in 1 .. Len(log) : log'[i] = log[i]
           /\ log'[Len(log) + 1] = [at |-> now, reading |-> r]
           /\ \A i \in {Len(log) + 1} : Read(i)' = r
           /\ lastSignal' \in BOOLEAN \cup {Null} /\ sawLoss' \in BOOLEAN
           /\ latest' \in Reading \cup {Null} /\ lastValidAt' \in 0 .. now
           /\ LitInv' /\ LossInv' /\ LatestInv'
<1> USE NullAssumption, VideoAssumption DEF WatchInv, VerdictIsSeen
<1>1. /\ log \in Seq([at : Nat, reading : Reading \cup {Null}]) /\ Len(log) \in Nat
      /\ now \in Nat /\ lastValidAt \in 0 .. now
    BY DEF TypeOK
<1>2. log' = Append(log, [at |-> now, reading |-> r])
    BY DEF Note
<1>3. /\ log' \in Seq([at : Nat, reading : Reading \cup {Null}]) /\ Len(log') = Len(log) + 1
      /\ \A i \in 1 .. Len(log) : log'[i] = log[i]
      /\ log'[Len(log) + 1] = [at |-> now, reading |-> r]
    BY <1>1, <1>2
<1>4. /\ \A i \in 0 .. Len(log) : Read(i)' = Read(i)
      /\ \A i \in {Len(log) + 1} : Read(i)' = r
    BY <1>1, <1>3, SMTT(30) DEF Read
<1>5. lastSignal' \in BOOLEAN \cup {Null} /\ (lastSignal' = TRUE => lastSignal = TRUE \/ Lit(r))
    BY ReadingShape DEF Note, TypeOK
<1>6. latest' \in Reading \cup {Null} /\ lastValidAt' \in 0 .. now /\ sawLoss' \in BOOLEAN
    BY <1>1 DEF Note, TypeOK
<1>7. LitInv'
  <2> SUFFICES ASSUME lastSignal' = TRUE
               PROVE  \E i \in 0 .. Len(log') : Lit(Read(i)')
      BY DEF LitInv, Lit
  <2>1. CASE Lit(r)
      BY <1>1, <1>3, <1>4, <2>1
  <2>2. CASE ~Lit(r)
    <3>1. PICK i \in 0 .. Len(log) : Lit(Read(i))
        BY <1>5, <2>2 DEF LitInv
    <3> QED
        BY <1>1, <1>3, <1>4, <3>1
  <2> QED
      BY <2>1, <2>2
<1>8. LossInv'
  <2> SUFFICES ASSUME sawLoss'
               PROVE  \E i \in 0 .. Len(log') : \E j \in i + 1 .. Len(log') : Lit(Read(i)') /\ Dark(Read(j)')
      BY DEF LossInv, Lit, Dark
  <2>1. CASE sawLoss
    <3>1. PICK i \in 0 .. Len(log) : \E j \in i + 1 .. Len(log) : Lit(Read(i)) /\ Dark(Read(j))
        BY <2>1 DEF LossInv
    <3>2. PICK j \in i + 1 .. Len(log) : Lit(Read(i)) /\ Dark(Read(j))
        BY <3>1
    <3>3. i \in 0 .. Len(log') /\ j \in i + 1 .. Len(log') /\ j \in 0 .. Len(log)
        BY <1>1, <1>3
    <3>4. Lit(Read(i)') /\ Dark(Read(j)')
        BY <1>4, <3>2, <3>3
    <3> QED
        BY <3>3, <3>4
  <2>2. CASE ~sawLoss
    <3>1. lastSignal = TRUE /\ Dark(r)
        BY <2>2 DEF Note, Loss, TypeOK
    <3>2. PICK i \in 0 .. Len(log) : Lit(Read(i))
        BY <3>1 DEF LitInv
    <3>3. i \in 0 .. Len(log') /\ Len(log) + 1 \in i + 1 .. Len(log')
        BY <1>1, <1>3
    <3>4. PICK j \in {Len(log) + 1} : Read(j)' = r
        BY <1>4
    <3>5. Lit(Read(i)') /\ Dark(Read(j)')
        BY <1>4, <3>1, <3>2, <3>4
    <3> QED
        BY <3>3, <3>4, <3>5
  <2> QED
      BY <2>1, <2>2
<1>9. LatestInv'
  <2> SUFFICES ASSUME latest' # Null
               PROVE  \E i \in 1 .. Len(log') : log'[i].reading # Null /\ log'[i].at = lastValidAt'
      BY DEF LatestInv
  <2>1. CASE r = Null
    <3>1. latest' = latest /\ lastValidAt' = lastValidAt
        BY <2>1 DEF Note
    <3> QED
        BY <1>1, <1>3, <3>1, SMTT(30) DEF LatestInv
  <2>2. CASE r # Null
    <3>1. lastValidAt' = now
        BY <2>2 DEF Note
    <3>2. Len(log) + 1 \in 1 .. Len(log')
        BY <1>1, <1>3
    <3>3. log'[Len(log) + 1].reading = r /\ log'[Len(log) + 1].at = now
        BY <1>3
    <3> QED
        BY <2>2, <3>1, <3>2, <3>3
  <2> QED
      BY <2>1, <2>2
<1> QED
    BY <1>3, <1>4, <1>5, <1>6, <1>7, <1>8, <1>9

\* What a candidate is.
LEMMA KeyShape ==
    ASSUME WatchInv, NEW r \in Reading \cup {Null}, Key(r) # Null
    PROVE  /\ KindOf(r) \in Transitions /\ Key(r) = [kind |-> KindOf(r), mode |-> r.mode]
           /\ Usable(r) /\ r.mode \in Modes
           /\ r = [signal |-> TRUE, online |-> TRUE, mode |-> r.mode]
<1>1. KindOf(r) # Null /\ Key(r) = [kind |-> KindOf(r), mode |-> r.mode]
    BY DEF Key
<1>2. Usable(r) /\ KindOf(r) \in Transitions
    BY <1>1 DEF KindOf, Transitions
<1> QED
    BY <1>1, <1>2, ReadingShape, NullReading

\* A reading is no reason to stop yet: the candidate is what all readings since showed.
LEMMA ReadMoreKeepsWatch ==
    ASSUME WatchInv, NEW r \in Reading \cup {Null}, ReadMore(r)
    PROVE  WatchInv'
<1> USE NullAssumption, VideoAssumption
<1>1. /\ Note(r) /\ UNCHANGED <<now, baseline, cancelled, verdict>>
      /\ candidate' = Key(r) /\ stableSince' = IF SameCandidate(r) THEN stableSince ELSE now
      /\ phase' = "sleeping" /\ wake' = now + Poll /\ verdict = Null
    BY DEF ReadMore, WatchInv, VerdictIsSeen, TypeOK
<1>2. /\ now \in 0 .. Horizon /\ Len(log) \in Nat /\ stableSince \in 0 .. now /\ Poll \in Nat
    BY DEF WatchInv, VerdictIsSeen, TypeOK
<1>3. TypeOK'
  <2>1. candidate' \in [kind : Transitions, mode : Modes] \cup {Null}
      BY <1>1, KeyShape
  <2>2. wake' \in Nat /\ stableSince' \in 0 .. now'
      BY <1>1, <1>2
  <2> QED
      BY <1>1, <2>1, <2>2, NoteKeeps DEF WatchInv, VerdictIsSeen, TypeOK
<1>4. SettledInv'
  <2> SUFFICES ASSUME Key(r) # Null
               PROVE  \E i \in 1 .. Len(log') :
                         /\ log'[i].at = stableSince'
                         /\ \A j \in i .. Len(log') :
                               log'[j].reading = [signal |-> TRUE, online |-> TRUE, mode |-> candidate'.mode]
      BY <1>1 DEF SettledInv
  <2>1. Key(r).mode = r.mode /\ r = [signal |-> TRUE, online |-> TRUE, mode |-> candidate'.mode]
      BY <1>1, KeyShape
  <2>0. /\ Len(log') = Len(log) + 1 /\ log'[Len(log) + 1] = [at |-> now, reading |-> r]
        /\ \A i \in 1 .. Len(log) : log'[i] = log[i]
      BY <1>1, NoteKeeps
  <2>2. /\ Len(log') = Len(log) + 1 /\ log'[Len(log) + 1].reading = r /\ log'[Len(log) + 1].at = now
        /\ \A i \in 1 .. Len(log) : log'[i] = log[i]
      BY <2>0
  <2>3. CASE SameCandidate(r)
    <3>1. candidate # Null /\ candidate' = candidate /\ stableSince' = stableSince
        BY <1>1, <2>3 DEF SameCandidate
    <3>2. PICK i \in 1 .. Len(log) :
            /\ log[i].at = stableSince
            /\ \A j \in i .. Len(log) :
                  log[j].reading = [signal |-> TRUE, online |-> TRUE, mode |-> candidate.mode]
        BY <3>1 DEF WatchInv, SettledInv
    <3>3. ASSUME NEW j \in i .. Len(log')
          PROVE  log'[j].reading = [signal |-> TRUE, online |-> TRUE, mode |-> candidate'.mode]
      <4>1. CASE j = Len(log) + 1
          BY <2>1, <2>2, <4>1
      <4>2. CASE j \in i .. Len(log)
        <5>1. j \in 1 .. Len(log) /\ log'[j] = log[j]
            BY <1>2, <2>2, <3>2, <4>2
        <5> QED
            BY <3>1, <3>2, <4>2, <5>1
      <4> QED
          BY <1>2, <2>2, <4>1, <4>2
    <3>4. i \in 1 .. Len(log') /\ log'[i].at = stableSince'
        BY <1>2, <2>2, <3>1, <3>2
    <3> QED
        BY <3>3, <3>4
  <2>4. CASE ~SameCandidate(r)
    <3>1. stableSince' = now /\ Len(log) + 1 \in 1 .. Len(log')
        BY <1>1, <1>2, <2>2, <2>4
    <3>2. \A j \in Len(log) + 1 .. Len(log') : j = Len(log) + 1
        BY <1>2, <2>2
    <3> QED
        BY <2>1, <2>2, <3>1, <3>2
  <2> QED
      BY <2>3, <2>4
<1>5. ReturnedWasLost' /\ TransitionSettled' /\ PresentIsRecent'
    BY <1>1 DEF ReturnedWasLost, TransitionSettled, PresentIsRecent, Transitions, Kinds
<1> QED
    BY <1>1, <1>3, <1>4, <1>5, NoteKeeps DEF WatchInv, VerdictIsSeen

\* A reading settles a transition: the readings that make it one are in the log.
LEMMA SettlesKeepsWatch ==
    ASSUME WatchInv, NEW r \in Reading \cup {Null}, ReadSettles(r)
    PROVE  WatchInv'
<1> USE NullAssumption, VideoAssumption
<1>1. /\ Note(r) /\ UNCHANGED <<now, wake, baseline, cancelled, candidate, stableSince>>
      /\ phase' = "done" /\ verdict' = KindOf(r) /\ now - stableSince >= Settle
      /\ Key(r) # Null /\ Key(r) = candidate
    BY DEF ReadSettles, Conclude, SameCandidate
<1>2. /\ now \in 0 .. Horizon /\ Len(log) \in Nat /\ stableSince \in 0 .. now
    BY DEF WatchInv, VerdictIsSeen, TypeOK
<1>3. /\ verdict' \in Transitions /\ Usable(r) /\ candidate.mode = r.mode
      /\ r = [signal |-> TRUE, online |-> TRUE, mode |-> candidate.mode]
    BY <1>1, KeyShape
<1>4. /\ Len(log') = Len(log) + 1 /\ log'[Len(log) + 1] = [at |-> now, reading |-> r]
      /\ \A i \in 1 .. Len(log) : log'[i] = log[i]
      /\ log' \in Seq([at : Nat, reading : Reading \cup {Null}])
    BY <1>1, NoteKeeps
<1>5. DOMAIN log' = 1 .. Len(log) + 1 /\ Last(log') = [at |-> now, reading |-> r]
    BY <1>4 DEF Last
<1>6. TypeOK'
    BY <1>1, <1>3, NoteKeeps DEF WatchInv, VerdictIsSeen, TypeOK, Kinds, Transitions
<1>7. PICK i \in 1 .. Len(log) :
        /\ log[i].at = stableSince
        /\ \A j \in i .. Len(log) :
              log[j].reading = [signal |-> TRUE, online |-> TRUE, mode |-> candidate.mode]
    BY <1>1 DEF WatchInv, SettledInv
<1>8. ASSUME NEW j \in i .. Len(log')
      PROVE  log'[j].reading = r
  <2>1. CASE j = Len(log) + 1
      BY <1>4, <2>1
  <2>2. CASE j \in i .. Len(log)
    <3>1. j \in 1 .. Len(log) /\ log'[j] = log[j]
        BY <1>2, <1>4, <1>7, <2>2
    <3>2. log[j].reading = [signal |-> TRUE, online |-> TRUE, mode |-> candidate.mode]
        BY <1>7, <2>2
    <3>3. r = [signal |-> TRUE, online |-> TRUE, mode |-> candidate.mode]
        BY <1>3
    <3>4. log'[j].reading = log[j].reading
        BY <3>1
    <3> QED
        BY <3>2, <3>3, <3>4
  <2> QED
      BY <1>2, <1>4, <2>1, <2>2
<1>9. i \in 1 .. Len(log') /\ log'[i].at = stableSince
  <2>1. log'[i] = log[i] /\ i \in 1 .. Len(log')
      BY <1>2, <1>4, <1>7
  <2> QED
      BY <1>7, <2>1
<1>10. SettledInv'
    BY <1>1, <1>3, <1>8, <1>9 DEF SettledInv
<1>11. TransitionSettled'
  <2>1. i \in DOMAIN log' /\ Last(log').at - log'[i].at >= Settle
    <3>1. Last(log').at = now
        BY <1>5
    <3> QED
        BY <1>1, <1>4, <1>5, <1>9, <3>1
  <2>2. \A j \in i .. Len(log') : Usable(log'[j].reading) /\ log'[j].reading = Last(log').reading
    <3>1. Last(log').reading = r
        BY <1>5
    <3>2. ASSUME NEW j \in i .. Len(log')
          PROVE  log'[j].reading = r /\ Usable(log'[j].reading)
        BY <1>3, <1>8
    <3> QED
        BY <3>1, <3>2
  <2>3. \E k \in DOMAIN log' :
          /\ Last(log').at - log'[k].at >= Settle
          /\ \A j \in k .. Len(log') : Usable(log'[j].reading) /\ log'[j].reading = Last(log').reading
      BY <2>1, <2>2
  <2> QED
      BY <2>3 DEF TransitionSettled, Usable
<1>12. Len(log') = Len(log) + 1 /\ Len(log) \in Nat
    BY <1>2, <1>4
<1>13. ReturnedWasLost'
  <2> SUFFICES ASSUME KindOf(r) = "returned"
               PROVE  \E a \in DOMAIN Seen' : \E b \in a + 1 .. Len(Seen') :
                         Lit(Seen'[a]) /\ Dark(Seen'[b]) /\ Usable(Last(Seen')) /\ b < Len(Seen')
      BY <1>1 DEF ReturnedWasLost, Lit, Dark, Usable
  <2>1. sawLoss'
      BY DEF KindOf, Kinds, Transitions
  <2>2. PICK k \in 0 .. Len(log') : \E j \in k + 1 .. Len(log') : Lit(Read(k)') /\ Dark(Read(j)')
      BY <1>1, <2>1, NoteKeeps DEF LossInv, Lit, Dark
  <2>3. PICK j \in k + 1 .. Len(log') : Lit(Read(k)') /\ Dark(Read(j)')
      BY <2>2
  <2>4. \A n \in {Len(log) + 1} : Read(n)' = r
      BY <1>1, NoteKeeps
  <2>5. ~Dark(r)
      BY <1>3 DEF Dark, Usable
  <2>6. j # Len(log) + 1 /\ j < Len(log')
    <3>1. j # Len(log) + 1
        BY <2>3, <2>4, <2>5
    <3> QED
        BY <1>12, <3>1
  <2>7. SeenNumbered'
    <3>1. (TypeOK => SeenNumbered)'
        BY SeenIsRead, PTL
    <3> QED
        BY <1>6, <3>1
  <2>8. /\ DOMAIN Seen' = 1 .. Len(log') + 1 /\ Len(Seen') = Len(log') + 1
        /\ \A n \in 1 .. Len(log') + 1 : Seen'[n] = Read(n - 1)'
      BY <2>7 DEF SeenNumbered
  <2>9. /\ k + 1 \in 1 .. Len(log') + 1 /\ j + 1 \in (k + 1) + 1 .. Len(log') + 1
        /\ (k + 1) - 1 = k /\ (j + 1) - 1 = j /\ j + 1 \in 1 .. Len(log') + 1
        /\ (Len(log') + 1) - 1 = Len(log) + 1 /\ Len(log') + 1 \in 1 .. Len(log') + 1
      BY <1>12
  <2>10. Seen'[k + 1] = Read(k)' /\ Seen'[j + 1] = Read(j)'
    <3>1. \A n \in 1 .. Len(log') + 1, m \in Int : n - 1 = m => Seen'[n] = Read(m)'
        BY <2>8
    <3> QED
        BY <1>2, <2>2, <2>3, <2>9, <3>1
  <2>11. Last(Seen') = r
    <3>1. \A n \in 1 .. Len(log') + 1 : n - 1 = Len(log) + 1 => Seen'[n] = r
        BY <2>4, <2>8
    <3> QED
        BY <2>8, <2>9, <3>1 DEF Last
  <2>12. j + 1 < Len(Seen')
      BY <1>2, <1>4, <2>2, <2>6, <2>8
  <2> QED
      BY <1>3, <2>3, <2>8, <2>9, <2>10, <2>11, <2>12
<1>14. PresentIsRecent'
    BY <1>3 DEF PresentIsRecent, Transitions
<1> QED
    BY <1>1, <1>6, <1>10, <1>11, <1>13, <1>14, NoteKeeps DEF WatchInv, VerdictIsSeen

\* Each verdict of the watch is one its readings show: a return after a loss, a transition
\* that was settled, a present state that is recent, for any readings in any order and any
\* times (watchVideoChange, app.js).
THEOREM VerdictsAreSeen == Spec => []VerdictIsSeen
<1>1. WatchInv /\ [Next]_vars => WatchInv'
  <2> SUFFICES ASSUME WatchInv, [Next]_vars
               PROVE  WatchInv'
      OBVIOUS
  <2>1. TypeOK /\ now \in 0 .. Horizon /\ wake \in Nat /\ cancelled \in BOOLEAN
      BY DEF WatchInv, VerdictIsSeen, TypeOK
  <2>2. phase # "done" => verdict = Null
      BY <2>1 DEF TypeOK
  <2>3. CASE Tick
      BY <2>1, <2>2, <2>3, RestKeepsWatch, VideoAssumption DEF Tick, TypeOK
  <2>4. CASE Cancel
      BY <2>1, <2>2, <2>4, RestKeepsWatch DEF Cancel, TypeOK
  <2>5. CASE StartRead
      BY <2>1, <2>2, <2>5, RestKeepsWatch DEF StartRead, TypeOK
  <2>6. CASE UNCHANGED vars
    <3>1. TypeOK' /\ TransitionSettled' /\ PresentIsRecent'
        BY <2>6 DEF vars, memory, WatchInv, VerdictIsSeen, TypeOK, TransitionSettled, PresentIsRecent
    <3>2. Seen' = Seen /\ verdict' = verdict
        BY <2>6 DEF vars, memory, Seen
    <3>3. ReturnedWasLost'
        BY <3>2 DEF ReturnedWasLost, WatchInv, VerdictIsSeen
    <3>4. LitInv' /\ LossInv' /\ SettledInv' /\ LatestInv'
        BY <2>6 DEF vars, memory, WatchInv, LitInv, LossInv, SettledInv, LatestInv, Read
    <3> QED
        BY <3>1, <3>3, <3>4 DEF WatchInv, VerdictIsSeen
  <2> QED
      BY <2>3, <2>4, <2>5, <2>6, GiveUpKeepsWatch, ReadMoreKeepsWatch, SettlesKeepsWatch DEF Next, Loop
<1>2. WatchInv => VerdictIsSeen
    BY DEF WatchInv
<1> QED
    BY <1>1, <1>2, WatchStarts, PTL DEF Spec
=============================================================================
