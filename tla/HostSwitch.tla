----------------------------- MODULE HostSwitch -----------------------------
(***************************************************************************)
(* The Hosts page: devices/glkvm/hosts-prototype/app.js.                   *)
(*                                                                         *)
(* A page frames the stock console, learns from /api/gpio whether the      *)
(* session is signed in, and lets the operator send one GPIO pulse at a    *)
(* time.  Nothing reads the switched port back, so an answer that leaves   *)
(* the pulse's fate unknown locks the page until it is reloaded.           *)
(*                                                                         *)
(* A step is what runs between two awaits, or one of the appliance's.      *)
(* mode is isSwitching and isFailedClosed ("halted") in one; poll is       *)
(* authPollTimer.  What the video showed is VideoWatch's; here a watch     *)
(* ends with any of its verdicts.                                          *)
(***************************************************************************)
EXTENDS Integers

CONSTANTS
    Hosts,       \* the downstream hosts
    None,
    MaxFaults,   \* bound on checks that fail other than by a 401
    MaxReloads   \* bound on reloads

ASSUME HostsAssumption == None \notin Hosts /\ {MaxFaults, MaxReloads} \subseteq Nat

VARIABLES
    auth,        \* isAuthenticated: "in" or "out"
    console,     \* consoleReady: "ready" or "loading"
    mode,        \* "idle", "switching" or "halted"
    buttons,     \* the host buttons' disabled attribute
    status,      \* statusEl.dataset.state
    check,       \* the auth check in flight, with its answer once it has one
    poll,        \* "on" while the timer of startAuthPoll runs
    lastRequested, feedback,   \* lastRequestedHost, lastSwitchFeedback.state
    step,        \* where requestSwitch waits
    target,      \* its host
    pulse,       \* its request at the appliance
    session,     \* whether the appliance accepts the session cookie
    port,        \* the host the switch shows, as far as pulses decide it
    orphans,     \* pulses that pages now gone left at the appliance
    disturbed,   \* a pulse of an earlier page landed since this one loaded
    outcome,     \* whether this page knows how its last pulse ended
    faults, reloads

page      == <<auth, console, mode, buttons, status, lastRequested, feedback>>
request   == <<step, target, outcome>>
appliance == <<session, port, orphans, disturbed>>
vars == <<page, check, poll, request, pulse, appliance, faults, reloads>>

Fresh(ready) ==
    /\ auth' = "out" /\ console' = ready /\ mode' = "idle"
    /\ buttons' = "disabled" /\ status' = "checking"
    /\ check' = "sent" /\ poll' = "off"
    /\ lastRequested' = None /\ feedback' = "none"
    /\ step' = "none" /\ target' = None /\ outcome' = "known"
    /\ pulse' = "none" /\ disturbed' = "no"

Init ==
    /\ auth = "out" /\ console \in {"ready", "loading"} /\ mode = "idle"
    /\ buttons = "disabled" /\ status = "checking"
    /\ check = "sent" /\ poll = "off"
    /\ lastRequested = None /\ feedback = "none"
    /\ step = "none" /\ target = None /\ outcome = "known"
    /\ pulse = "none" /\ disturbed = "no"
    /\ session \in {"valid", "invalid"} /\ port = None /\ orphans = {}
    /\ faults = 0 /\ reloads = 0

\* setButtonsDisabled, with the flags the handler leaves behind.
Enabled(ready, disabled) ==
    IF disabled \/ mode' = "halted" \/ ready = "loading" THEN "disabled" ELSE "enabled"

\* reportAuthenticatedStatus.
Report(ready) ==
    IF ready = "loading" THEN "checking"
    ELSE IF lastRequested' = None THEN "ready"
    ELSE IF feedback' = "none" THEN "success" ELSE feedback'

-----------------------------------------------------------------------------
(* The appliance and the operator.                                         *)

SignIn ==
    /\ session = "invalid" /\ session' = "valid"
    /\ UNCHANGED <<page, check, poll, request, pulse, port, orphans, disturbed,
                   faults, reloads>>

SessionExpires ==
    /\ session = "valid" /\ session' = "invalid"
    /\ UNCHANGED <<page, check, poll, request, pulse, port, orphans, disturbed,
                   faults, reloads>>

CheckAnswered ==
    /\ check = "sent"
    /\ check' = IF session = "valid" THEN "granted" ELSE "denied"
    /\ UNCHANGED <<page, poll, request, pulse, appliance, faults, reloads>>

\* A pulse without a valid session is refused before it reaches the switch.
PulseHandled ==
    /\ pulse = "sent"
    /\ IF session = "valid"
       THEN pulse' = "delivered" /\ port' = target
       ELSE pulse' = "refused" /\ UNCHANGED port
    /\ UNCHANGED <<page, check, poll, request, session, orphans, disturbed,
                   faults, reloads>>

\* "Browser cancellation does not cancel the appliance process."
OrphanHandled(h) ==
    /\ h \in orphans
    /\ orphans' = orphans \ {h}
    /\ \/ port' = h /\ disturbed' = "yes"
       \/ UNCHANGED <<port, disturbed>>
    /\ UNCHANGED <<page, check, poll, request, pulse, session, faults, reloads>>

-----------------------------------------------------------------------------
(* checkAuth, and the two timers and events that call it.                  *)

CheckStarts == IF mode = "idle" /\ check = "none" THEN check' = "sent" ELSE UNCHANGED check

PollFires ==
    /\ poll = "on"
    /\ IF auth = "in" \/ mode = "halted"
       THEN poll' = "off" /\ UNCHANGED check
       ELSE CheckStarts /\ UNCHANGED poll
    /\ UNCHANGED <<page, request, pulse, appliance, faults, reloads>>

SignedOut(s) ==
    /\ auth' = "out" /\ buttons' = "disabled" /\ status' = s
    /\ UNCHANGED <<console, mode, lastRequested, feedback>>

\* Mutant: only a 401 starts the poll.
PollAfterErrorOnce == poll
PollAfterError == "on"

\* Mutant: an answer is applied whatever happened since the question.
AppliesAlways == TRUE
\* An answer that comes back during a switch, or after a halt, is dropped.
Applies == mode = "idle"

CheckDenied ==
    /\ check = "denied" /\ check' = "none"
    /\ IF Applies THEN SignedOut("unauthenticated") /\ poll' = "on"
                  ELSE UNCHANGED <<page, poll>>
    /\ UNCHANGED <<request, pulse, appliance, faults, reloads>>

\* Any other status, no answer in ten seconds, or a body that is not one.
CheckFails ==
    /\ check # "none" /\ check' = "none"
    /\ faults < MaxFaults /\ faults' = faults + 1
    /\ IF Applies THEN SignedOut("error") /\ poll' = PollAfterError
                  ELSE UNCHANGED <<page, poll>>
    /\ UNCHANGED <<request, pulse, appliance, reloads>>

CheckGranted ==
    /\ check = "granted"
    /\ check' = IF Applies THEN "body" ELSE "none"
    /\ UNCHANGED <<page, poll, request, pulse, appliance, faults, reloads>>

CheckRead ==
    /\ check = "body" /\ check' = "none"
    /\ IF Applies
       THEN /\ auth' = "in" /\ poll' = "off"
            /\ UNCHANGED <<console, mode, lastRequested, feedback>>
            /\ buttons' = Enabled(console, FALSE)
            /\ status' = Report(console)
       ELSE UNCHANGED <<page, poll>>
    /\ UNCHANGED <<request, pulse, appliance, faults, reloads>>

-----------------------------------------------------------------------------
(* bindConsoleDocument: the stock console inside the frame.                *)

ConsoleIs(ready) ==
    /\ console' = ready
    /\ UNCHANGED <<auth, mode, lastRequested, feedback>>
    /\ buttons' = Enabled(ready, auth = "out" \/ mode = "switching")
    /\ status' = IF auth = "in" /\ mode = "idle" THEN Report(ready) ELSE status

FrameLoads(ready) ==
    /\ ConsoleIs(ready)
    /\ CheckStarts
    /\ UNCHANGED <<poll, request, pulse, appliance, faults, reloads>>

\* discoverVideo: the video or the canvas comes or goes.
ConsoleChanges ==
    /\ \E ready \in {"ready", "loading"} \ {console} : ConsoleIs(ready)
    /\ UNCHANGED <<check, poll, request, pulse, appliance, faults, reloads>>

-----------------------------------------------------------------------------
(* requestSwitch.                                                          *)

Click(h) ==
    /\ buttons = "enabled"
    /\ mode = "idle" /\ auth = "in" /\ console = "ready"
    /\ mode' = "switching" /\ buttons' = "disabled" /\ status' = "pending"
    /\ step' = "baseline" /\ target' = h
    /\ UNCHANGED <<auth, console, lastRequested, feedback, check, poll, outcome,
                   pulse, appliance, faults, reloads>>

\* The baseline has been read, or could not be.
SendPulse ==
    /\ step = "baseline"
    /\ step' = "pulse" /\ pulse' = "sent" /\ outcome' = "unknown"
    /\ UNCHANGED <<page, check, poll, target, appliance, faults, reloads>>

\* A 401 is the one failure that leaves no doubt.
PulseRefused ==
    /\ step = "pulse" /\ pulse = "refused"
    /\ step' = "none" /\ pulse' = "none" /\ outcome' = "known"
    /\ mode' = "idle" /\ auth' = "out" /\ buttons' = "disabled"
    /\ status' = "unauthenticated" /\ poll' = "on"
    /\ UNCHANGED <<console, lastRequested, feedback, check, target, appliance,
                   faults, reloads>>

\* Mutant: a timed-out or failed pulse only reports an error.
ModeAfterFailureIdle == "idle"
ModeAfterFailure == "halted"

\* failClosed: HTTP 504 or another failure, ten seconds without an answer, a lost
\* connection or a body that does not say ok.
PulseFails ==
    /\ step \in {"pulse", "body"}
    /\ step' = "none"
    /\ mode' = ModeAfterFailure
    /\ buttons' = "disabled" /\ status' = "halted" /\ poll' = "off"
    /\ UNCHANGED <<auth, console, lastRequested, feedback, check, target, outcome,
                   pulse, appliance, faults, reloads>>

PulseAnswered ==
    /\ step = "pulse" /\ pulse = "delivered"
    /\ step' = "body"
    /\ UNCHANGED <<page, check, poll, target, outcome, pulse, appliance, faults,
                   reloads>>

PulseAccepted ==
    /\ step = "body"
    /\ step' = "video" /\ pulse' = "none" /\ outcome' = "known"
    /\ lastRequested' = target /\ feedback' = "none"
    /\ status' = "pending"
    /\ UNCHANGED <<auth, console, mode, buttons, check, poll, target, appliance,
                   faults, reloads>>

VideoWatched ==
    /\ step = "video"
    /\ step' = "none" /\ mode' = "idle"
    /\ feedback' \in {"success", "unconfirmed"}
    /\ UNCHANGED <<auth, console, lastRequested>>
    /\ buttons' = Enabled(console, FALSE)
    /\ status' = Report(console)
    /\ UNCHANGED <<check, poll, target, outcome, pulse, appliance, faults, reloads>>

Reload ==
    /\ reloads < MaxReloads /\ reloads' = reloads + 1
    /\ \E ready \in {"ready", "loading"} : Fresh(ready)
    /\ orphans' = IF pulse = "sent" THEN orphans \cup {target} ELSE orphans
    /\ UNCHANGED <<session, port, faults>>

-----------------------------------------------------------------------------
Check == CheckAnswered \/ CheckDenied \/ CheckFails \/ CheckGranted \/ CheckRead
Switch ==
    \/ SendPulse \/ PulseHandled \/ PulseRefused \/ PulseFails
    \/ PulseAnswered \/ PulseAccepted \/ VideoWatched

Next ==
    \/ SignIn \/ SessionExpires \/ Reload
    \/ Check \/ PollFires \/ Switch
    \/ \E h \in Hosts : Click(h) \/ OrphanHandled(h)
    \/ \E ready \in {"ready", "loading"} : FrameLoads(ready)
    \/ ConsoleChanges

Spec == Init /\ [][Next]_vars

\* Requests are answered or time out, and the browser runs its timers.
FairSpec == Spec /\ WF_vars(Check) /\ WF_vars(PollFires) /\ WF_vars(Switch)

-----------------------------------------------------------------------------
(* Properties.                                                             *)

TypeOK ==
    /\ auth \in {"in", "out"} /\ console \in {"ready", "loading"}
    /\ mode \in {"idle", "switching", "halted"}
    /\ buttons \in {"enabled", "disabled"}
    /\ status \in {"checking", "ready", "success", "unconfirmed", "pending",
                   "unauthenticated", "error", "halted"}
    /\ check \in {"none", "sent", "granted", "denied", "body"}
    /\ poll \in {"on", "off"}
    /\ lastRequested \in Hosts \cup {None} /\ target \in Hosts \cup {None}
    /\ feedback \in {"none", "success", "unconfirmed"}
    /\ step \in {"none", "baseline", "pulse", "body", "video"}
    /\ pulse \in {"none", "sent", "delivered", "refused"}
    /\ outcome \in {"known", "unknown"}
    /\ session \in {"valid", "invalid"}
    /\ port \in Hosts \cup {None} /\ orphans \subseteq Hosts
    /\ disturbed \in {"yes", "no"}
    /\ faults \in Nat /\ reloads \in Nat

\* The buttons, set piecemeal by eight handlers, agree with the flags and with
\* the message: they invite a click exactly when requestSwitch would act on it.
ButtonsAgree ==
    /\ (buttons = "enabled") <=> (mode = "idle" /\ auth = "in" /\ console = "ready")
    /\ (buttons = "enabled") <=> (status \in {"ready", "success", "unconfirmed"})

\* "An interrupted, failed, or ten-second command timeout still disables
\* switching until reload": no pulse leaves a page that does not know how the
\* one before it ended.
NoPulseInDoubt == [][step # "pulse" /\ step' = "pulse" => outcome = "known"]_vars

\* Outside a switch, the host shown as last requested is where this page's
\* pulses left the switch.
ClaimedPort ==
    mode = "idle" /\ lastRequested # None /\ disturbed = "no" => port = lastRequested

\* A page that shows the sign-in hint or an error is still asking.
KeepsAsking == auth = "out" /\ mode # "halted" => check # "none" \/ poll = "on"

\* So once the operator is signed in for good, the page finds out, unless it is
\* halted.
NoticesSignIn == <>[](session = "valid") => <>[](auth = "in" \/ mode = "halted")

\* The page offers, claims and asks what its flags, the switch and its session allow, in
\* whatever order answers, timers and clicks come.
PageSafe == TypeOK /\ ButtonsAgree /\ ClaimedPort /\ KeepsAsking
=============================================================================
