----------------------------- MODULE LongSessions -----------------------------
(***************************************************************************)
(* sparks/inference/sparkrun/benchmarks/long_sessions.py: a campaign of    *)
(* phases, each a few streamed requests at once, beside a monitor thread   *)
(* that samples the memory and links of two hosts and cancels everything   *)
(* when they go bad.  Each response has a watcher thread that shuts its    *)
(* socket down on cancellation, because a read may be blocked on a server  *)
(* that sends nothing, or for ever less than a line.                       *)
(*                                                                         *)
(* A stream is what its lines leave the client with: nothing, part of an   *)
(* answer, or all a row needs (content, finish reason and usage).  A row   *)
(* whose content is not the expected one counts as part of an answer.      *)
(***************************************************************************)
EXTENDS Integers, Sequences, FiniteSets

CONSTANTS
    Requests,    \* the requests of a phase
    Phases,      \* phases of the suite
    Hosts,       \* head and worker, sampled in this order
    LowLimit,    \* low samples in a row that end the campaign
    SshTimeout,  \* ticks a sample takes at most
    JoinTimeout  \* ticks the campaign waits for the monitor at its end

ASSUME LsAssumption ==
    /\ Phases \in Nat \ {0} /\ LowLimit \in Nat \ {0}
    /\ Hosts = <<Hosts[1], Hosts[2]>>
    /\ SshTimeout \in Nat /\ JoinTimeout \in Nat /\ SshTimeout < JoinTimeout

VARIABLES
    run,       \* "idle", "phase", "joining" in the finally, then "ok" or "raised"
    phase,
    failing,   \* an exception is on its way out of run
    req,       \* where each request is
    got,       \* what its stream has left so far
    broke,     \* it ended with an exception (stream_error)
    shut,      \* its socket was shut down by its watcher
    watcher,   \* "none", "watching" or "ended"
    written,   \* phases reported
    cancel, finished,  \* the events of the Campaign
    failures,  \* what the monitor gave as the reason, "none" before
    monitor,   \* "idle", "sampling", "waiting", "recorded", "stopping" or "done"
    host,      \* index of the host being sampled
    low,       \* low samples in a row, by host
    recent,    \* history: the last samples of each host, newest first
    sampleLeft, joinLeft  \* ticks

requests == <<req, got, broke, shut, watcher>>
campaign == <<run, phase, failing, written>>
sampling == <<monitor, host, low, recent, sampleLeft>>
events   == <<cancel, finished, failures>>
lsVars   == <<requests, campaign, sampling, events, joinLeft>>

HostSet == {Hosts[i] : i \in DOMAIN Hosts}
Settled == {"row", "aborted", "failed"}

FreshRequests ==
    /\ req' = [r \in Requests |-> "queued"] /\ got' = [r \in Requests |-> "nothing"]
    /\ broke' = [r \in Requests |-> FALSE] /\ shut' = [r \in Requests |-> FALSE]
    /\ watcher' = [r \in Requests |-> "none"]

LsInit ==
    /\ run = "idle" /\ phase = 0 /\ failing = FALSE /\ written = {}
    /\ req = [r \in Requests |-> "idle"] /\ got = [r \in Requests |-> "nothing"]
    /\ broke = [r \in Requests |-> FALSE] /\ shut = [r \in Requests |-> FALSE]
    /\ watcher = [r \in Requests |-> "none"]
    /\ cancel = FALSE /\ finished = FALSE /\ failures = "none"
    /\ monitor = "idle" /\ host = 1 /\ sampleLeft = SshTimeout /\ joinLeft = JoinTimeout
    /\ low = [h \in HostSet |-> 0] /\ recent = [h \in HostSet |-> <<>>]

\* Mutant: a cancel does not change what the stream was.
OutcomeOfStream(r) == IF broke[r] \/ got[r] # "all" THEN "failed" ELSE "row"
\* A cancelled request ends as one cancellation, whatever its stream made of
\* it: the check after the stream.
Outcome(r) ==
    IF cancel THEN "aborted"
    ELSE IF broke[r] \/ got[r] # "all" THEN "failed" ELSE "row"
-----------------------------------------------------------------------------
(* One request.                                                            *)

Move(r, to) == req' = [req EXCEPT ![r] = to]

\* The check before the connection is made.
Start(r) ==
    /\ req[r] = "queued"
    /\ IF cancel THEN Move(r, "ending") /\ broke' = [broke EXCEPT ![r] = TRUE]
                 ELSE Move(r, "opening") /\ UNCHANGED broke
    /\ UNCHANGED <<got, shut, watcher, campaign, sampling, events, joinLeft>>

\* urlopen returns with the headers, and the response gets its watcher; or it
\* fails, at the latest by --timeout.
Headers(r) ==
    /\ req[r] = "opening"
    /\ \/ Move(r, "reading") /\ watcher' = [watcher EXCEPT ![r] = "watching"] /\ UNCHANGED broke
       \/ Move(r, "ending") /\ broke' = [broke EXCEPT ![r] = TRUE] /\ UNCHANGED watcher
    /\ UNCHANGED <<got, shut, campaign, sampling, events, joinLeft>>

\* A whole line arrives: content, the end of the answer, or [DONE].  The loop
\* looks at the cancellation before it parses.
Line(r) ==
    /\ req[r] = "reading"
    /\ \/ cancel /\ Move(r, "leaving") /\ UNCHANGED got
       \/ ~cancel /\ \E more \in {"part", "all"} :
             /\ got[r] # "all" /\ got' = [got EXCEPT ![r] = more] /\ UNCHANGED req
       \/ ~cancel /\ Move(r, "leaving") /\ UNCHANGED got
    /\ UNCHANGED <<broke, shut, watcher, campaign, sampling, events, joinLeft>>

\* The stream ends without [DONE], or with an error: the server's doing or that
\* of the shutdown, which wakes a blocked read as the one or the other.
StreamEnds(r) ==
    /\ req[r] = "reading"
    /\ Move(r, "leaving")
    /\ \E b \in BOOLEAN : broke' = [broke EXCEPT ![r] = b]
    /\ UNCHANGED <<got, shut, watcher, campaign, sampling, events, joinLeft>>

\* done.wait(0.1), the look at the cancellation and the shutdown.
WatcherActs(r) ==
    /\ watcher[r] = "watching"
    /\ \/ req[r] = "leaving" /\ UNCHANGED shut
       \/ cancel /\ shut' = [shut EXCEPT ![r] = TRUE]
    /\ watcher' = [watcher EXCEPT ![r] = "ended"]
    /\ UNCHANGED <<req, got, broke, campaign, sampling, events, joinLeft>>

\* done.set() and join: the request waits for its watcher.
WatcherGone(r) == watcher[r] = "ended"
Leave(r) ==
    /\ req[r] = "leaving" /\ WatcherGone(r)
    /\ Move(r, "ending")
    /\ UNCHANGED <<got, broke, shut, watcher, campaign, sampling, events, joinLeft>>

\* The row is returned, or written to the failed responses and raised.  What the
\* stream left is only used for that.
Settle(r) ==
    /\ req[r] = "ending"
    /\ Move(r, Outcome(r))
    /\ got' = [got EXCEPT ![r] = "nothing"] /\ broke' = [broke EXCEPT ![r] = FALSE]
    /\ UNCHANGED <<shut, watcher, campaign, sampling, events, joinLeft>>
-----------------------------------------------------------------------------
(* The campaign.                                                           *)

Launch ==
    /\ run = "idle"
    /\ run' = "phase" /\ phase' = 1 /\ FreshRequests
    /\ monitor' = "sampling"
    /\ UNCHANGED <<failing, written, host, low, recent, sampleLeft, events, joinLeft>>

\* The finally of run: finished is set whatever happened.
Close == run' = "joining" /\ finished' = TRUE /\ UNCHANGED <<cancel, failures>>

\* The pool of a phase is left when every request has settled; write, then the
\* next phase.
PhaseEnds ==
    /\ run = "phase" /\ \A r \in Requests : req[r] \in Settled
    /\ IF \E r \in Requests : req[r] # "row"
       THEN failing' = TRUE /\ Close /\ UNCHANGED <<phase, written, requests>>
       ELSE /\ written' = written \cup {phase} /\ UNCHANGED failing
            /\ IF phase = Phases THEN Close /\ UNCHANGED <<phase, requests>>
               ELSE phase' = phase + 1 /\ FreshRequests /\ UNCHANGED <<run, events>>
    /\ UNCHANGED <<sampling, joinLeft>>

\* join(timeout=15), then the look at failures.
JoinWaits == joinLeft > 0 /\ monitor # "done"
Finish ==
    /\ run = "joining" /\ ~JoinWaits
    /\ run' = IF failures # "none" \/ failing THEN "raised" ELSE "ok"
    /\ UNCHANGED <<phase, failing, written, requests, sampling, events, joinLeft>>
-----------------------------------------------------------------------------
(* The monitor, and time, which the rest of the model does without.        *)

Counted(h, sample) == IF sample = "low" THEN low[h] + 1 ELSE 0

Fails(reason) ==
    /\ monitor' = "recorded" /\ failures' = reason /\ UNCHANGED <<host, cancel, finished>>

NextHost ==
    /\ UNCHANGED events
    /\ IF host = Len(Hosts) THEN monitor' = "waiting" /\ UNCHANGED host
                            ELSE host' = host + 1 /\ UNCHANGED monitor

\* A sample comes back, or cannot be had, or shows that a link has changed.
Sample(s) ==
    LET h == Hosts[host]
    IN /\ monitor = "sampling"
       /\ sampleLeft' = SshTimeout
       /\ IF s \in {"error", "link"} THEN Fails(s) /\ UNCHANGED <<low, recent>>
          ELSE /\ low' = [low EXCEPT ![h] = Counted(h, s)]
               /\ recent' = [recent EXCEPT ![h] = SubSeq(<<s>> \o @, 1,
                               IF Len(@) < LowLimit THEN Len(@) + 1 ELSE LowLimit)]
               /\ IF Counted(h, s) >= LowLimit THEN Fails("memory") ELSE NextHost
       /\ UNCHANGED <<requests, campaign, joinLeft>>

\* finished.wait(5) and the loop's condition.
SampleAgain ==
    /\ monitor = "waiting"
    /\ IF finished THEN monitor' = "done" /\ UNCHANGED host
                   ELSE monitor' = "sampling" /\ host' = 1
    /\ UNCHANGED <<low, recent, sampleLeft, requests, campaign, events, joinLeft>>

SetCancel ==
    /\ monitor = "recorded"
    /\ cancel' = TRUE /\ monitor' = "stopping"
    /\ UNCHANGED <<host, low, recent, sampleLeft, requests, campaign, finished, failures, joinLeft>>

\* sparkrun stop, which may take longer than the campaign waits.
Stopped ==
    /\ monitor = "stopping" /\ monitor' = "done"
    /\ UNCHANGED <<host, low, recent, sampleLeft, requests, campaign, events, joinLeft>>

\* Time passes while the campaign waits for its monitor.  The first host is this
\* one, whose files are read at once; a sample of the other does not outlast its
\* timeout, and the monitor's steps between take no time.
Tick ==
    /\ run = "joining" /\ JoinWaits
    /\ \/ monitor = "sampling" /\ host > 1 /\ sampleLeft > 0 /\ sampleLeft' = sampleLeft - 1
       \/ monitor = "stopping" /\ UNCHANGED sampleLeft
    /\ joinLeft' = joinLeft - 1
    /\ UNCHANGED <<requests, campaign, monitor, host, low, recent, events>>

RequestSteps(r) == Start(r) \/ Headers(r) \/ Line(r) \/ StreamEnds(r) \/ Leave(r) \/ Settle(r)
MonitorSteps ==
    \/ \E s \in {"enough", "low", "link", "error"} : Sample(s)
    \/ SampleAgain \/ SetCancel \/ Stopped

LsNext ==
    \/ Launch \/ PhaseEnds \/ Finish \/ Tick \/ MonitorSteps
    \/ \E r \in Requests : RequestSteps(r) \/ WatcherActs(r)

LsSpec == LsInit /\ [][LsNext]_lsVars
-----------------------------------------------------------------------------
(* Properties.                                                             *)

LsTypeOK ==
    /\ run \in {"idle", "phase", "joining", "ok", "raised"} /\ phase \in 0 .. Phases
    /\ req \in [Requests -> {"idle", "queued", "opening", "reading", "leaving", "ending"} \cup Settled]
    /\ got \in [Requests -> {"nothing", "part", "all"}]
    /\ watcher \in [Requests -> {"none", "watching", "ended"}]
    /\ {broke[r] : r \in Requests} \cup {shut[r] : r \in Requests} \subseteq BOOLEAN
    /\ written \subseteq 1 .. Phases
    /\ {cancel, finished, failing} \subseteq BOOLEAN
    /\ failures \in {"none", "memory", "link", "error"}
    /\ monitor \in {"idle", "sampling", "waiting", "recorded", "stopping", "done"}
    /\ host \in DOMAIN Hosts /\ low \in [HostSet -> 0 .. LowLimit]
    /\ sampleLeft \in 0 .. SshTimeout /\ joinLeft \in 0 .. JoinTimeout

\* A stream cut by the watcher can end at a line boundary with everything a row
\* needs.  It is still one cancellation, with the monitor's reason, never a row
\* of the report.
CutIsNoRow ==
    \A r \in Requests :
       /\ shut[r] => req[r] # "row"
       /\ req[r] = "aborted" => failures # "none"

\* A watcher acts on its own response only: a request that has settled has none
\* left, so no later response can lose its socket to it.
NoStrayWatcher == \A r \in Requests : req[r] \in Settled => watcher[r] # "watching"

\* A campaign returns normally only when the monitor has ended without a
\* complaint, the sample it had in flight at the end included.
OkIsClean == run = "ok" => monitor = "done" /\ failures = "none" /\ written = 1 .. Phases

\* Memory ends the campaign for three low samples of one host in a row, and only
\* for them: a good sample of that host in between starts the count again.
ThreeInARow ==
    /\ failures = "memory" =>
          \E h \in HostSet : recent[h] = [i \in 1 .. LowLimit |-> "low"]
    /\ \A h \in HostSet :
          recent[h] = [i \in 1 .. LowLimit |-> "low"] => failures = "memory"

\* Once cancelled, the campaign ends even when a server goes on for ever sending
\* less than a line.
CancelEnds == cancel ~> run \in {"ok", "raised"}

\* Threads keep running and urlopen is bounded by its timeout; nothing is
\* assumed of what a server sends, except that a shut socket ends the read.
LsFairness ==
    /\ WF_lsVars(PhaseEnds) /\ WF_lsVars(Finish) /\ WF_lsVars(Tick) /\ WF_lsVars(MonitorSteps)
    /\ \A r \in Requests :
          /\ WF_lsVars(Start(r)) /\ WF_lsVars(Headers(r)) /\ WF_lsVars(Leave(r))
          /\ WF_lsVars(Settle(r)) /\ WF_lsVars(WatcherActs(r))
          /\ WF_lsVars(shut[r] /\ StreamEnds(r))

\* A result the suite reports is of requests and hosts as they were, with none cut off.
SuiteSafe == LsTypeOK /\ CutIsNoRow /\ NoStrayWatcher /\ OkIsClean /\ ThreeInARow
=============================================================================
