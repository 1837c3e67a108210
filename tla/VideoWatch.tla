----------------------------- MODULE VideoWatch -----------------------------
(***************************************************************************)
(* watchVideoChange of devices/glkvm/hosts-prototype/app.js: what the      *)
(* capture state shows after a pulse, read again and again until a         *)
(* transition has settled or the time is up.                               *)
(*                                                                         *)
(* A reading is what readStreamState makes of one answer, with its mode    *)
(* only when a mode is looked at, and Null for every answer it cannot use. *)
(* The stream is not modelled: readings follow each other in any order.    *)
(* Timers fire no earlier than asked and arbitrarily late.                 *)
(***************************************************************************)
EXTENDS Integers, Sequences, SequencesExt

CONSTANTS
    Sizes, Rates, \* of the modes a stream may report
    Null, Unknown,
    Deadline,    \* VIDEO_CHECK_MS
    Settle,      \* VIDEO_SETTLE_MS
    Poll,        \* VIDEO_POLL_MS
    ReadLimit,   \* STREAM_READ_TIMEOUT_MS
    Horizon      \* bound on the clock

\* A mode may be reported without its rate.
Modes == [size : Sizes, rate : Rates \cup {Unknown}]

ASSUME VideoAssumption ==
    /\ {Deadline, Settle, Poll, ReadLimit, Horizon} \subseteq Nat \ {0}
    /\ Null \notin Modes

VARIABLES
    now, phase,              \* "sleeping", "reading" or "done"
    wake,                    \* when the sleep ends
    cancelled,               \* whether the signal is aborted
    baseline, lastSignal, sawLoss, candidate, stableSince, lastValidAt, latest,
    verdict,                 \* the kind the promise resolves to
    log                      \* history: the readings the loop used

memory == <<lastSignal, sawLoss, candidate, stableSince, lastValidAt, latest>>
vars == <<now, phase, wake, cancelled, baseline, memory, verdict, log>>

Reading ==
    [signal : {FALSE}, online : BOOLEAN, mode : {Null}]
        \cup [signal : {TRUE}, online : {FALSE}, mode : {Null}]
        \cup [signal : {TRUE}, online : {TRUE}, mode : Modes]

Usable(r) == r # Null /\ r.signal /\ r.online
Dark(r) == r # Null /\ ~r.signal
Lit(r) == r # Null /\ r.signal

Init ==
    /\ now = 0 /\ phase = "sleeping" /\ wake = 0 /\ cancelled = FALSE
    /\ baseline \in Reading \cup {Null}
    /\ lastSignal = IF baseline = Null THEN Null ELSE baseline.signal
    /\ sawLoss = FALSE /\ candidate = Null /\ stableSince = 0
    /\ lastValidAt = 0 /\ latest = Null
    /\ verdict = Null /\ log = <<>>

-----------------------------------------------------------------------------
Tick ==
    /\ phase # "done" /\ now < Horizon /\ now' = now + 1
    /\ UNCHANGED <<phase, wake, cancelled, baseline, memory, verdict, log>>

\* The command failed, or its switch has been reported.
Cancel ==
    /\ phase # "done" /\ ~cancelled /\ cancelled' = TRUE
    /\ UNCHANGED <<now, phase, wake, baseline, memory, verdict, log>>

\* Mutant: only a cancellation ends the loop.
Aborted == cancelled
TimeUp == cancelled \/ now >= Deadline

Recent == latest # Null /\ now - lastValidAt < ReadLimit + 2 * Poll

\* What the watch says when no transition settled.
Inconclusive ==
    IF ~Recent \/ baseline = Null THEN "unavailable"
    ELSE IF ~latest.signal THEN "no-signal"
    ELSE IF ~latest.online THEN "not-ready"
    ELSE IF sawLoss \/ ~baseline.online THEN "unavailable"
    ELSE "unchanged"

Conclude(kind) ==
    /\ phase' = "done" /\ verdict' = kind
    /\ UNCHANGED <<now, wake, cancelled, baseline>>

StartRead ==
    /\ phase = "sleeping" /\ now >= wake /\ ~TimeUp
    /\ phase' = "reading"
    /\ UNCHANGED <<now, wake, cancelled, baseline, memory, verdict, log>>

\* The loop's condition fails, or the read ends after the time was up.
GiveUp ==
    /\ phase = "reading" \/ (phase = "sleeping" /\ now >= wake)
    /\ TimeUp
    /\ Conclude(Inconclusive)
    /\ UNCHANGED <<memory, log>>

Differs(a, b) ==
    \/ a.size # b.size
    \/ (a.rate # b.rate) /\ Unknown \notin {a.rate, b.rate}

\* Mutant: a failed read counts as a dark one.
LossByAnything(r) == lastSignal = TRUE /\ ~Lit(r)
\* A failed read is never evidence that HDMI dropped.
Loss(r) == lastSignal = TRUE /\ Dark(r)

\* The transition a reading is evidence of.
KindOf(r) ==
    IF ~Usable(r) THEN Null
    ELSE IF sawLoss' THEN "returned"
    ELSE IF Dark(baseline) THEN "appeared"
    ELSE IF Usable(baseline) /\ Differs(r.mode, baseline.mode) THEN "changed"
    ELSE Null

Key(r) == IF KindOf(r) = Null THEN Null ELSE [kind |-> KindOf(r), mode |-> r.mode]

\* What the loop remembers of a reading, before it looks for a candidate.
Note(r) ==
    /\ sawLoss' = (sawLoss \/ Loss(r))
    /\ lastSignal' = IF r = Null THEN lastSignal ELSE r.signal
    /\ lastValidAt' = IF r = Null THEN lastValidAt ELSE now
    /\ latest' = IF r = Null THEN latest ELSE r
    /\ log' = Append(log, [at |-> now, reading |-> r])

SameCandidate(r) == Key(r) # Null /\ Key(r) = candidate

\* Another candidate, or none, or one not yet settled.
ReadMore(r) ==
    /\ phase = "reading" /\ ~TimeUp
    /\ Note(r)
    /\ SameCandidate(r) => now - stableSince < Settle
    /\ candidate' = Key(r)
    /\ stableSince' = IF SameCandidate(r) THEN stableSince ELSE now
    /\ phase' = "sleeping" /\ wake' = now + Poll
    /\ UNCHANGED <<now, cancelled, baseline, verdict>>

ReadSettles(r) ==
    /\ phase = "reading" /\ ~TimeUp
    /\ Note(r)
    /\ SameCandidate(r) /\ now - stableSince >= Settle
    /\ Conclude(KindOf(r))
    /\ UNCHANGED <<candidate, stableSince>>

Loop == StartRead \/ GiveUp \/ \E r \in Reading \cup {Null} : ReadMore(r) \/ ReadSettles(r)

\* Nothing happens once the promise has resolved.
Next == Tick \/ Cancel \/ Loop

Spec == Init /\ [][Next]_vars

\* Reads end, by an answer or their own timer, and timers fire.
FairSpec == Spec /\ WF_vars(Loop) /\ WF_vars(Tick)

-----------------------------------------------------------------------------
(* Properties.                                                             *)

Transitions == {"returned", "appeared", "changed"}
Kinds == Transitions \cup {"unavailable", "no-signal", "not-ready", "unchanged"}

\* null is none of the values it stands beside.
ASSUME NullAssumption ==
    /\ Null \notin BOOLEAN /\ Null \notin Kinds /\ Null \notin Reading
    /\ Null \notin [kind : Transitions, mode : Modes]

TypeOK ==
    /\ now \in 0..Horizon /\ phase \in {"sleeping", "reading", "done"} /\ wake \in Nat
    /\ cancelled \in BOOLEAN /\ baseline \in Reading \cup {Null}
    /\ lastSignal \in BOOLEAN \cup {Null} /\ sawLoss \in BOOLEAN
    /\ candidate \in [kind : Transitions, mode : Modes] \cup {Null}
    /\ stableSince \in 0..now /\ lastValidAt \in 0..now
    /\ latest \in Reading \cup {Null}
    /\ verdict \in Kinds \cup {Null}
    /\ (phase = "done") <=> (verdict # Null)
    /\ log \in Seq([at : Nat, reading : Reading \cup {Null}])

\* The readings with the baseline first.
Seen == <<baseline>> \o [i \in DOMAIN log |-> log[i].reading]

\* "Only an actual later loss/recovery can establish a transition": video is said to
\* have returned only if it was seen, seen gone, and seen again.
ReturnedWasLost ==
    verdict = "returned" =>
        \E i \in DOMAIN Seen : \E j \in i+1..Len(Seen) :
            Lit(Seen[i]) /\ Dark(Seen[j]) /\ Usable(Last(Seen)) /\ j < Len(Seen)

\* "The resulting signal and mode must remain stable for at least 750 ms with capture
\* online": every reading over that time, failed ones included, was the last one.
TransitionSettled ==
    verdict \in Transitions =>
        \E i \in DOMAIN log :
            /\ Last(log).at - log[i].at >= Settle
            /\ \A j \in i..Len(log) :
                   Usable(log[j].reading) /\ log[j].reading = Last(log).reading

\* An inconclusive verdict about the present state rests on a reading of the last
\* moments; while reads fail the watch says that it does not know.
PresentIsRecent ==
    verdict \in {"no-signal", "not-ready", "unchanged"} =>
        \E i \in DOMAIN log :
            log[i].reading # Null /\ now - log[i].at < ReadLimit + 2 * Poll

\* "Status polling stops after the check or command failure": no read starts once the
\* watch was cancelled or its time is up.
PollingStops ==
    [][phase # "reading" /\ phase' = "reading" => ~cancelled /\ now < Deadline]_vars

\* The switch that awaits the watch goes on.
WatchEnds == <>(phase = "done")

\* "If no change appears against a valid, online baseline, the amber status says that
\* the requested input may already be selected": it is not said while the last
\* reading differs from the baseline.  It is, when that reading came too late to settle.
UnchangedIsSame ==
    verdict = "unchanged" /\ ~cancelled /\ Usable(baseline) =>
        ~Differs(latest.mode, baseline.mode)

\* Each verdict of the watch is one its readings show.
VerdictIsSeen == TypeOK /\ ReturnedWasLost /\ TransitionSettled /\ PresentIsRecent

\* The watch ends, and reads nothing after a cancel or its deadline.
WatchStops == PollingStops /\ WatchEnds
=============================================================================
