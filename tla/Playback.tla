------------------------------- MODULE Playback -------------------------------
(***************************************************************************)
(* Playback in devices/glkvm/hosts-prototype/app.js: the play promises of  *)
(* Start video, and of a host button over a paused video, against a stock  *)
(* console that replaces its video element whenever it likes.              *)
(*                                                                         *)
(* A step is one event handler.                                            *)
(***************************************************************************)
EXTENDS Integers, FiniteSets

CONSTANTS
    Videos,      \* video elements
    None,
    MaxAttempts  \* bound on playAttempt

ASSUME PlaybackAssumption == None \notin Videos /\ MaxAttempts \in Nat

VARIABLES
    live,        \* the #stream-video of the framed document
    video,       \* of each element: "paused", "waiting", "frames", "error"
    observed,    \* observedVideo
    playAttempt,
    promises,    \* play() promises that have not settled
    status,      \* playbackEl.dataset.state; "rejected" is the error of a promise
    hidden       \* playbackEl.hidden
playVars == <<live, video, observed, playAttempt, promises, status, hidden>>

HasVideoFrame(v) == video[v] = "frames"
StateShown(v) ==
    CASE video[v] = "error" -> "error" [] video[v] = "paused" -> "paused"
      [] video[v] = "frames" -> "ready" [] OTHER -> "checking"

PlayInit ==
    /\ video = [v \in Videos |-> "paused"] /\ live \in Videos \cup {None} /\ observed = live
    /\ playAttempt = 0 /\ promises = {} /\ status = IF live = None THEN "none" ELSE StateShown(live)
    /\ hidden = (live = None)
-----------------------------------------------------------------------------
(* The observed video.                                                     *)

\* observeVideo shows another element at once.
StatusOnObserve(v) == IF v = observed \/ v = None THEN status ELSE StateShown(v)

\* discoverVideo, which the console's changes of its document call.
HiddenFor(v) == IF v = observed THEN hidden ELSE v = None
DomChanges(v) ==
    /\ v # live /\ live' = v
    /\ playAttempt < MaxAttempts /\ playAttempt' = IF v = observed THEN playAttempt ELSE playAttempt + 1
    /\ observed' = v /\ status' = StatusOnObserve(v) /\ hidden' = HiddenFor(v)
    /\ UNCHANGED <<video, promises>>

\* load: the frame has another document.
FrameLoads(v) ==
    /\ playAttempt < MaxAttempts - 1
    /\ live' = v /\ observed' = v /\ playAttempt' = playAttempt + IF v = None THEN 1 ELSE 2
    /\ hidden' = (v = None) /\ status' = IF v = None THEN status ELSE StateShown(v)
    /\ UNCHANGED <<video, promises>>

MediaChanges(v) ==
    /\ \E state \in {"paused", "waiting", "frames", "error"} : video' = [video EXCEPT ![v] = state]
    /\ UNCHANGED <<live, observed, playAttempt, promises, status, hidden>>
\* onVideoEvent: the element may have changed again since the event was fired.
VideoEvent ==
    /\ observed # None /\ hidden' = FALSE
    /\ status' \in {StateShown(observed), "checking"}
    /\ UNCHANGED <<live, video, observed, playAttempt, promises>>
-----------------------------------------------------------------------------
(* startVideo, and the play() it may have to wait for.                     *)

\* findConsoleVideo.
Found == IF live # None THEN {live} ELSE Videos \cup {None}

StartFails ==
    /\ playAttempt < MaxAttempts /\ playAttempt' = playAttempt + 1
    /\ observed' = None /\ status' = "error" /\ hidden' = FALSE
    /\ UNCHANGED <<live, video, promises>>
StartVideo(v) ==
    /\ v \in Found \ {None}
    /\ playAttempt < MaxAttempts /\ playAttempt' = playAttempt + 1
    /\ observed' = v /\ hidden' = FALSE
    /\ \/ status' = "pending" /\ promises' = promises \cup {[attempt |-> playAttempt', video |-> v]}
       \/ status' = StateShown(v) /\ UNCHANGED promises
    /\ UNCHANGED <<live, video>>

\* Mutants: a promise of the same video counts; the attempt is taken before it is counted.
SameVideo(p) == p.video = observed
TakenBefore(p) == p.attempt - 1 = playAttempt /\ p.video = observed
Current(p) == p.attempt = playAttempt /\ p.video = observed
Resolves(p) ==
    /\ p \in promises /\ promises' = promises \ {p}
    /\ IF Current(p) THEN status' = StateShown(p.video) /\ hidden' = FALSE ELSE UNCHANGED <<status, hidden>>
    /\ UNCHANGED <<live, video, observed, playAttempt>>
Rejects(p) ==
    /\ p \in promises /\ promises' = promises \ {p}
    /\ IF Current(p) THEN status' = "rejected" /\ hidden' = FALSE ELSE UNCHANGED <<status, hidden>>
    /\ UNCHANGED <<live, video, observed, playAttempt>>

PlayNext ==
    \/ \E v \in Videos \cup {None} : DomChanges(v) \/ FrameLoads(v)
    \/ \E v \in Videos : MediaChanges(v) \/ StartVideo(v)
    \/ VideoEvent \/ StartFails \/ \E p \in promises : Resolves(p) \/ Rejects(p)
PlaySpec == PlayInit /\ [][PlayNext]_playVars
\* The browser settles its promises.
PlayFairness == WF_playVars(\E p \in promises : Resolves(p) \/ Rejects(p))
-----------------------------------------------------------------------------
(* Properties.                                                             *)

Awaited == \E p \in promises : Current(p)

PlaybackTypeOK ==
    /\ live \in Videos \cup {None} /\ playAttempt \in 0 .. MaxAttempts
    /\ observed \in IF live # None THEN {live, None} ELSE Videos \cup {None}
    /\ video \in [Videos -> {"paused", "waiting", "frames", "error"}]
    /\ promises \subseteq [attempt : 1 .. MaxAttempts, video : Videos]
    /\ status \in {"none", "paused", "checking", "ready", "error", "pending", "rejected"} /\ hidden \in BOOLEAN

\* What the page says of a play() is of the last one, on the video it shows: a visible
\* "starting" is still awaited, and a visible rejection is not of a promise that another
\* attempt or another video has overtaken.
StatusIsOfThisAttempt ==
    ~hidden => /\ status = "pending" => Awaited
               /\ status = "rejected" => ~Awaited /\ observed # None

\* "Starting playback" is not the last word: it gives way once its promise has settled.
PendingEnds == (status = "pending" /\ ~hidden) ~> (status # "pending" \/ hidden)

\* What the page says of playback is about the video it shows and its latest attempt.
PlaybackSafe == PlaybackTypeOK /\ StatusIsOfThisAttempt
=============================================================================
