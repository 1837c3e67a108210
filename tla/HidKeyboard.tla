---------------------------- MODULE HidKeyboard ----------------------------
(***************************************************************************)
(* The USB keyboard helpers of the GLKVM: devices/glkvm/hid_input.py, with *)
(* the sequences hid-type.py, hid-hold-key.py and kvm-switch.py send.      *)
(*                                                                         *)
(* A helper takes the lock, opens the gadget, submits its reports one at a *)
(* time within absolute deadlines and ends with a neutral report on every  *)
(* way out.  The gadget has one slot.  kvmd uses it too, without the lock. *)
(* The downstream host takes reports when it likes, or never.              *)
(*                                                                         *)
(* A step is what runs up to the next poll, write or sleep; waking is      *)
(* never early and arbitrarily late.  A check of the clock and the system  *)
(* call right after it are one step.                                       *)
(***************************************************************************)
EXTENDS Integers, Sequences, FiniteSetsExt, SequencesExt

CONSTANTS
    Helpers, Kvmd,
    Neutral,       \* the report with no key
    Keys,
    Script,        \* the [kind, arg] steps of each helper
    StartTimeout, ReportTimeout, IoBudget, ReportAllowance, CleanupTimeout,
    None,
    Horizon,       \* bound on the clock
    MaxFaults      \* bound on device errors, signals, kills, and kvmd's reports

Steps ==
    [kind : {"report"}, arg : Keys \cup {Neutral}]
        \cup [kind : {"pause"}, arg : Nat]
        \cup [kind : {"bad"}, arg : {None}]

ASSUME HidAssumption ==
    /\ Kvmd \notin Helpers /\ None \notin Helpers \cup {Kvmd} \cup Keys \cup {Neutral}
    /\ Neutral \notin Keys
    /\ None \notin [by : Helpers \cup {Kvmd}, key : Keys \cup {Neutral}]
    /\ Script \in [Helpers -> Seq(Steps)]
    /\ {StartTimeout, ReportTimeout, IoBudget, CleanupTimeout} \subseteq Nat \ {0}
    /\ {ReportAllowance, Horizon, MaxFaults} \subseteq Nat

VARIABLES
    now,
    phase,       \* where each helper is
    part,        \* "body", or "release" from __exit__ on
    at,          \* the script's next step
    requestedAt, deadline, started,   \* fields of HidKeyboard
    limit,       \* the deadline of the report being written
    wake,        \* when the pause ends
    failure,     \* the exception on its way: "none", "error" or "interrupt"
    exit,        \* "none", "ok", "error", "interrupted" or "killed"
    lock,        \* the flock's holder
    slot,        \* the gadget's pending report
    host,        \* the last report the downstream host took
    lost,        \* whether a completion error lost a report
    sent,        \* history: reports each helper submitted
    faults

progress == <<phase, part, at, limit, wake, failure, exit>>
budget   == <<requestedAt, deadline, started>>
gadget   == <<slot, host, lost>>
vars == <<now, progress, budget, lock, gadget, sent, faults>>

Report(by, key) == [by |-> by, key |-> key]

Init ==
    /\ now = 0
    /\ phase = [h \in Helpers |-> "new"] /\ part = [h \in Helpers |-> "body"]
    /\ at = [h \in Helpers |-> 1]
    /\ requestedAt = [h \in Helpers |-> 0] /\ deadline = [h \in Helpers |-> 0]
    /\ started = [h \in Helpers |-> FALSE]
    /\ limit = [h \in Helpers |-> 0] /\ wake = [h \in Helpers |-> 0]
    /\ failure = [h \in Helpers |-> "none"] /\ exit = [h \in Helpers |-> "none"]
    /\ lock = None /\ slot = None /\ host = Report(Kvmd, Neutral) /\ lost = FALSE
    /\ sent = [h \in Helpers |-> <<>>]
    /\ faults = 0

Fault == faults < MaxFaults /\ faults' = faults + 1

-----------------------------------------------------------------------------
(* The clock, the host, the gadget and kvmd.                               *)

Tick ==
    /\ now < Horizon /\ now' = now + 1
    /\ UNCHANGED <<progress, budget, lock, gadget, sent, faults>>

HostTakes ==
    /\ slot # None
    /\ host' = slot /\ slot' = None
    /\ UNCHANGED <<now, progress, budget, lock, lost, sent, faults>>

\* "POLLOUT only indicates a free request slot, including after a USB completion error."
CompletionError ==
    /\ slot # None /\ Fault
    /\ slot' = None /\ lost' = TRUE
    /\ UNCHANGED <<now, progress, budget, lock, host, sent>>

KvmdWrites(key) ==
    /\ slot = None /\ Fault
    /\ slot' = Report(Kvmd, key)
    /\ UNCHANGED <<now, progress, budget, lock, host, lost, sent>>

\* At the clock's bound everything has expired, so that every helper ends.
Passed(t) == now >= t \/ now = Horizon

-----------------------------------------------------------------------------
(* Ends of a helper.                                                       *)

LockAfter(h) == IF lock = h THEN None ELSE lock

\* Both descriptors are closed, which frees the lock, and the process is gone.
End(h, code) ==
    /\ phase' = [phase EXCEPT ![h] = "ended"]
    /\ exit' = [exit EXCEPT ![h] = code]
    /\ lock' = LockAfter(h)
    /\ part' = [part EXCEPT ![h] = "body"] /\ at' = [at EXCEPT ![h] = 1]
    /\ limit' = [limit EXCEPT ![h] = 0] /\ wake' = [wake EXCEPT ![h] = 0]
    /\ failure' = [failure EXCEPT ![h] = "none"]
    /\ requestedAt' = [requestedAt EXCEPT ![h] = 0]
    /\ deadline' = [deadline EXCEPT ![h] = 0]
    /\ started' = [started EXCEPT ![h] = FALSE]
    /\ UNCHANGED <<now, gadget, sent>>

\* __exit__: the neutral report has a short deadline of its own.
Release(h, why) ==
    /\ phase' = [phase EXCEPT ![h] = "polling"]
    /\ part' = [part EXCEPT ![h] = "release"]
    /\ limit' = [limit EXCEPT ![h] = now + CleanupTimeout]
    /\ failure' = [failure EXCEPT ![h] = why]

NoRelease(h) == phase[h] \in {"locking", "opening"} \/ part[h] = "release"

\* An exception: out of __enter__, out of the body into __exit__, or out of __exit__.
Raise(h, why) ==
    IF NoRelease(h)
    THEN End(h, IF why = "interrupt" \/ failure[h] = "interrupt" THEN "interrupted" ELSE "error")
    ELSE /\ Release(h, why)
         /\ UNCHANGED <<now, at, wake, exit, budget, lock, gadget, sent>>

Active(h) == phase[h] \notin {"new", "ended"}

\* Ctrl-C, SIGTERM or SIGHUP.
Interrupt(h) == Active(h) /\ Fault /\ Raise(h, "interrupt")

Kill(h) == Active(h) /\ Fault /\ End(h, "killed")

\* The gadget is gone or a report was short.
DeviceFails(h) ==
    /\ phase[h] \in {"locking", "opening", "polling", "writing", "flushing"}
    /\ Fault
    /\ Raise(h, "error")

-----------------------------------------------------------------------------
(* __enter__.                                                              *)

Begin(h) ==
    /\ phase[h] = "new"
    /\ phase' = [phase EXCEPT ![h] = "locking"]
    /\ requestedAt' = [requestedAt EXCEPT ![h] = now]
    /\ deadline' = [deadline EXCEPT ![h] = now + IoBudget]
    /\ UNCHANGED <<now, part, at, limit, wake, failure, exit, started, lock, gadget,
                   sent, faults>>

StartDeadline(h) == requestedAt[h] + StartTimeout

\* Mutant: the lock is shared.
LockShared == TRUE
LockFree == lock = None

Lock(h) ==
    /\ phase[h] = "locking" /\ ~Passed(StartDeadline(h)) /\ LockFree
    /\ lock' = h
    /\ phase' = [phase EXCEPT ![h] = "opening"]
    /\ UNCHANGED <<now, part, at, limit, wake, failure, exit, budget, gadget, sent,
                   faults>>

Open(h) ==
    /\ phase[h] = "opening" /\ ~Passed(StartDeadline(h))
    /\ phase' = [phase EXCEPT ![h] = "running"]
    /\ UNCHANGED <<now, part, at, limit, wake, failure, exit, budget, lock, gadget,
                   sent, faults>>

StartExpires(h) ==
    /\ phase[h] \in {"locking", "opening"} /\ Passed(StartDeadline(h))
    /\ Raise(h, "error")
    /\ UNCHANGED faults

-----------------------------------------------------------------------------
(* write_report, _ready and _write.                                        *)

Current(h) == Script[h][at[h]]
Running(h, kind) == phase[h] = "running" /\ at[h] <= Len(Script[h]) /\ Current(h).kind = kind

ReportLimit(h) ==
    Min({deadline[h], now + ReportTimeout} \cup (IF started[h] THEN {} ELSE {StartDeadline(h)}))

WriteReport(h) ==
    /\ Running(h, "report")
    /\ limit' = [limit EXCEPT ![h] = ReportLimit(h)]
    /\ phase' = [phase EXCEPT ![h] = "polling"]
    /\ UNCHANGED <<now, part, at, wake, failure, exit, budget, lock, gadget, sent, faults>>

Ready(h) ==
    /\ phase[h] = "polling" /\ slot = None /\ ~Passed(limit[h])
    /\ phase' = [phase EXCEPT ![h] = "writing"]
    /\ UNCHANGED <<now, part, at, limit, wake, failure, exit, budget, lock, gadget,
                   sent, faults>>

KeyOf(h) == IF part[h] = "release" THEN Neutral ELSE Current(h).arg

Write(h) ==
    /\ phase[h] = "writing" /\ ~Passed(limit[h]) /\ slot = None
    /\ slot' = Report(h, KeyOf(h))
    /\ sent' = [sent EXCEPT ![h] = Append(@, KeyOf(h))]
    /\ phase' = [phase EXCEPT ![h] = "flushing"]
    /\ UNCHANGED <<now, part, at, limit, wake, failure, exit, budget, lock, host, lost,
                   faults>>

\* Mutant: a report that found the slot taken counts as written.
SkipTaken == "flushing"
RetryTaken == "polling"

\* "Readiness can race another writer."
SlotTaken(h) ==
    /\ phase[h] = "writing" /\ ~Passed(limit[h]) /\ slot # None
    /\ phase' = [phase EXCEPT ![h] = RetryTaken]
    /\ UNCHANGED <<now, part, at, limit, wake, failure, exit, budget, lock, gadget,
                   sent, faults>>

\* Mutant: only the wait before a write looks at the clock.
ExpiryUnlessFlushing == {"polling", "writing"}
Bounded == {"polling", "writing", "flushing"}

Expires(h) ==
    /\ phase[h] \in Bounded /\ Passed(limit[h])
    /\ Raise(h, "error")
    /\ UNCHANGED faults

Flushed(h) == phase[h] = "flushing" /\ slot = None /\ ~Passed(limit[h])

ReportDone(h) ==
    /\ Flushed(h) /\ part[h] = "body"
    /\ started' = [started EXCEPT ![h] = TRUE]
    /\ deadline' = [deadline EXCEPT ![h] = @ + ReportAllowance]
    /\ at' = [at EXCEPT ![h] = @ + 1]
    /\ limit' = [limit EXCEPT ![h] = 0]
    /\ phase' = [phase EXCEPT ![h] = "running"]
    /\ UNCHANGED <<now, part, wake, failure, exit, requestedAt, lock, gadget, sent,
                   faults>>

\* The exit code is that of the exception, if there was one.
Released(h) ==
    /\ Flushed(h) /\ part[h] = "release"
    /\ End(h, CASE failure[h] = "none" -> "ok"
                [] failure[h] = "error" -> "error"
                [] failure[h] = "interrupt" -> "interrupted")
    /\ UNCHANGED faults

-----------------------------------------------------------------------------
(* pause, and the end of the script.                                       *)

Pause(h) ==
    /\ Running(h, "pause") /\ ~Passed(deadline[h])
    /\ wake' = [wake EXCEPT ![h] = now + Current(h).arg]
    /\ phase' = [phase EXCEPT ![h] = "pausing"]
    /\ UNCHANGED <<now, part, at, limit, failure, exit, budget, lock, gadget, sent,
                   faults>>

PauseExpired(h) ==
    /\ Running(h, "pause") /\ Passed(deadline[h])
    /\ Raise(h, "error")
    /\ UNCHANGED faults

\* Only the seconds asked for are added, however long the sleep was.
PauseEnds(h) ==
    /\ phase[h] = "pausing" /\ Passed(wake[h])
    /\ deadline' = [deadline EXCEPT ![h] = @ + Current(h).arg]
    /\ IF ~Passed(deadline'[h])
       THEN /\ at' = [at EXCEPT ![h] = @ + 1]
            /\ phase' = [phase EXCEPT ![h] = "running"]
            /\ UNCHANGED <<part, limit, failure>>
       ELSE Release(h, "error") /\ UNCHANGED at
    /\ UNCHANGED <<now, wake, exit, requestedAt, started, lock, gadget, sent, faults>>

\* A token that cannot be typed raises SystemExit.
BadToken(h) ==
    /\ Running(h, "bad")
    /\ Raise(h, "error")
    /\ UNCHANGED faults

ScriptDone(h) ==
    /\ phase[h] = "running" /\ at[h] > Len(Script[h])
    /\ Release(h, "none")
    /\ UNCHANGED <<now, at, wake, exit, budget, lock, gadget, sent, faults>>

-----------------------------------------------------------------------------
Helper(h) ==
    \/ Lock(h) \/ Open(h) \/ StartExpires(h)
    \/ WriteReport(h) \/ Ready(h) \/ Write(h) \/ SlotTaken(h) \/ Expires(h)
    \/ ReportDone(h) \/ Released(h)
    \/ Pause(h) \/ PauseExpired(h) \/ PauseEnds(h) \/ BadToken(h) \/ ScriptDone(h)

Disturbance(h) == Interrupt(h) \/ Kill(h) \/ DeviceFails(h)

Next ==
    \/ Tick \/ HostTakes \/ CompletionError
    \/ \E key \in Keys \cup {Neutral} : KvmdWrites(key)
    \/ \E h \in Helpers : Begin(h) \/ Helper(h) \/ Disturbance(h)

Spec == Init /\ [][Next]_vars

\* A process that can run does, and time passes.  The host may never take a report.
FairSpec == Spec /\ WF_vars(Tick) /\ \A h \in Helpers : WF_vars(Helper(h))

-----------------------------------------------------------------------------
(* Properties.                                                             *)

TypeOK ==
    /\ now \in 0 .. Horizon
    /\ phase \in [Helpers -> {"new", "locking", "opening", "running", "polling", "writing",
                              "flushing", "pausing", "ended"}]
    /\ part \in [Helpers -> {"body", "release"}]
    /\ at \in [Helpers -> Nat] /\ \A h \in Helpers : at[h] \in 1 .. Len(Script[h]) + 1
    /\ requestedAt \in [Helpers -> 0 .. Horizon] /\ deadline \in [Helpers -> Nat]
    /\ started \in [Helpers -> BOOLEAN]
    /\ limit \in [Helpers -> Nat] /\ wake \in [Helpers -> Nat]
    /\ failure \in [Helpers -> {"none", "error", "interrupt"}]
    /\ exit \in [Helpers -> {"none", "ok", "error", "interrupted", "killed"}]
    /\ lock \in {h \in Helpers : Active(h)} \cup {None}
    /\ slot \in [by : Helpers \cup {Kvmd}, key : Keys \cup {Neutral}] \cup {None}
    /\ host \in [by : Helpers \cup {Kvmd}, key : Keys \cup {Neutral}]
    /\ lost \in BOOLEAN
    /\ sent \in [Helpers -> Seq(Keys \cup {Neutral})]
    /\ faults \in 0 .. MaxFaults

Submits(h) == sent'[h] # sent[h]

\* "One locked sequence": from a helper's first report until it has ended, no other
\* helper submits one.
TakesTurns(h, g) == Submits(h) => sent[g] = <<>> \/ phase[g] = "ended"
TurnsTaken == \A h, g \in Helpers : h # g => TakesTurns(h, g)
SequencesApart == [][TurnsTaken]_vars

\* The reports among the first n steps of a script.
Reports(script) ==
    LET first[n \in 0 .. Len(script)] ==
            IF n = 0 THEN <<>>
            ELSE IF script[n].kind = "report" THEN Append(first[n - 1], script[n].arg) ELSE first[n - 1]
    IN first
Wanted(h) == Reports(Script[h])[Len(Script[h])]

\* "No reconnect/replay": whatever the slot, the clock and signals do, a helper
\* submits its reports in order, each at most once, and then at most a neutral one.
InOrder ==
    \A h \in Helpers :
        \/ IsPrefix(sent[h], Wanted(h))
        \/ IsPrefix(Front(sent[h]), Wanted(h)) /\ Last(sent[h]) = Neutral

KeyDown(h) == sent[h] # <<>> /\ Last(sent[h]) # Neutral

\* "Context cleanup runs before this": a helper whose last report was a key ends only
\* by a kill, or after the release itself used up its time or failed, and not with
\* exit code 0.
ExitReleases(h) ==
    exit'[h] \notin {exit[h], "killed"} /\ KeyDown(h) =>
        /\ part[h] = "release" /\ exit'[h] # "ok"
        /\ Passed(limit[h]) \/ faults' # faults
ExitsRelease == \A h \in Helpers : ExitReleases(h)
EveryExitReleases == [][ExitsRelease]_vars

\* What the total deadline gains by the first n steps of a script.
Allowance(step) ==
    CASE step.kind = "report" -> ReportAllowance
      [] step.kind = "pause" -> step.arg
      [] step.kind = "bad" -> 0
Gains(script) ==
    LET first[n \in 0 .. Len(script)] == IF n = 0 THEN 0 ELSE first[n - 1] + Allowance(script[n])
    IN first
Gained(h) == Gains(Script[h])[at[h] - 1]

\* "A late wakeup never licenses input after expiry", and "retries and failed records
\* never replenish the budget": a report of the body is submitted before the total
\* deadline, pauses and completed reports included, and the first before the start
\* deadline.
InTime ==
    [][\A h \in Helpers :
        Submits(h) /\ part[h] = "body" =>
            /\ now < requestedAt[h] + IoBudget + Gained(h)
            /\ sent[h] = <<>> => now < StartDeadline(h)]_vars

\* Exit code 0 means that every report and the neutral one after them were submitted,
\* and, unless a completion failed, that no key of this helper is down on the host or
\* still on its way, whatever kvmd wrote between.
SuccessReleases ==
    \A h \in Helpers : exit[h] = "ok" =>
        /\ sent[h] = Append(Wanted(h), Neutral)
        /\ \A r \in {slot, host} \ {None} : r.by = h /\ ~lost => r = host /\ r.key = Neutral

\* A helper that was started ends, although the host may take no report and another
\* helper may hold the lock.
HelpersEnd == \A h \in Helpers : phase[h] # "new" ~> phase[h] = "ended"

\* The helpers submit what their scripts say, once, and success leaves no key down.
HelpersSafe == TypeOK /\ InOrder /\ SuccessReleases

\* Helpers take turns, and none leaves a key down: "one locked sequence" and "context
\* cleanup" of one step.
CleanSequences == [][TurnsTaken /\ ExitsRelease]_vars

\* Every helper ends, and submits nothing of its body late.
HelpersEndInTime == InTime /\ HelpersEnd
=============================================================================
