----------------------------- MODULE Qualification -----------------------------
(***************************************************************************)
(* One run of tools/sn770-zfs-qualification/sn770-qualification-host.sh:   *)
(* the main shell of the unit, its four background workers, and the        *)
(* operator, who share the files of the run directory and signals only.    *)
(*                                                                         *)
(* A step is a command that reads or writes one of those files, or the     *)
(* whole run of a tool (zfs, zpool, fio, the observations of the watch).   *)
(* A tool that fails has met a fault of the drive or the pool, unless the  *)
(* stop of the unit killed it.                                             *)
(***************************************************************************)
EXTENDS Integers, FiniteSets

CONSTANTS
    Target,        \* sends, and scrubs, asked for
    MaxIterations, \* bound on the iterations of each worker that counts its own
    MaxIoFaults      \* bound on tools that fail by themselves

Workers == {"send", "scrub", "churn", "watch"}
Measured == {"send", "scrub"}         \* the counts of write_count something depends on
Loops == {"send", "scrub", "churn"}  \* not killed when the run is complete
NoReason == "none"

ASSUME QualificationAssumption ==
    /\ Target \in Nat \ {0} /\ MaxIoFaults \in Nat
    /\ MaxIterations \in Nat /\ MaxIterations >= Target

VARIABLES
    stateFile, failureReason, stopRequest,  \* state, failure.reason, stop.request
    count,      \* count.*
    runTime,    \* the duration is over
    at,         \* of each worker: "check", "run", "failing", "writing", "mv", "gone"
    main,       \* of the main shell
    verdict,    \* what finish decided to write
    resume,     \* where the main shell goes on after finish
    finalized,
    term,       \* systemctl stop has begun to signal the unit
    ioFaults,     \* history: workers whose tool failed by itself
    seenInTime  \* history: failure.reason was there when the main shell left its loop
qualVars == <<stateFile, failureReason, stopRequest, count, runTime, at, main, verdict, resume,
              finalized, term, ioFaults, seenInTime>>

QualInit ==
    /\ stateFile = "no_run" /\ failureReason = NoReason /\ stopRequest = FALSE
    /\ count = [w \in Measured |-> 0] /\ runTime = FALSE
    /\ at = [w \in Workers |-> "gone"]
    /\ main = "boot" /\ verdict = NoReason /\ resume = "done" /\ finalized = FALSE
    /\ term = FALSE /\ ioFaults = {} /\ seenInTime = FALSE

IsStopping == failureReason # NoReason \/ stopRequest
TargetsMet == count["send"] >= Target /\ count["scrub"] >= Target

\* The main shell is gone, and systemd ends what is left of the unit.
Ended == main \in {"done", "killed"}

files == <<stateFile, failureReason, stopRequest, count>>
mainVars == <<main, verdict, resume, finalized, seenInTime>>
-----------------------------------------------------------------------------
(* The workers.                                                            *)

\* Mutant: a churn goes on to its target.
KeepsChurning(w) == w \in Measured /\ runTime /\ count[w] >= Target
Enough(w) ==
    CASE w \in {"send", "scrub"} -> runTime /\ count[w] >= Target
      [] w = "churn" -> runTime
      [] w = "watch" -> FALSE

WorkerChecks(w) ==
    /\ at[w] = "check" /\ ~Ended
    /\ \/ (IsStopping \/ Enough(w)) /\ at' = [at EXCEPT ![w] = "gone"]
       \/ /\ ~IsStopping /\ ~Enough(w) /\ (w \in Measured => count[w] < MaxIterations)
          /\ at' = [at EXCEPT ![w] = "run"]
    /\ UNCHANGED <<files, runTime, mainVars, term, ioFaults>>

ToolEnds(w) ==
    /\ at[w] = "run" /\ ~Ended
    /\ at' = [at EXCEPT ![w] = "check"]
    /\ count' = IF w \in Measured THEN [count EXCEPT ![w] = @ + 1] ELSE count
    /\ UNCHANGED <<stateFile, failureReason, stopRequest, runTime, mainVars, term, ioFaults>>

ToolFails(w) ==
    /\ at[w] = "run" /\ ~Ended /\ Cardinality(ioFaults \cup {w}) <= MaxIoFaults
    /\ at' = [at EXCEPT ![w] = "failing"] /\ ioFaults' = ioFaults \cup {w}
    /\ UNCHANGED <<files, runTime, mainVars, term>>

\* request_failure: the file is looked for, and then written by a process of its own.
LooksForReason(w) ==
    /\ at[w] = "failing" /\ ~Ended
    /\ at' = [at EXCEPT ![w] = IF failureReason = NoReason THEN "writing" ELSE "gone"]
    /\ UNCHANGED <<files, runTime, mainVars, term, ioFaults>>
WritesReason(w) ==
    /\ at[w] \in {"writing", "mv"} /\ ~Ended
    /\ failureReason' = w /\ at' = [at EXCEPT ![w] = "gone"]
    /\ UNCHANGED <<stateFile, stopRequest, count, runTime, mainVars, term, ioFaults>>

\* A shell that is killed leaves the tool it waits for behind: an mv that was started
\* still moves the reason into place.
AfterKill(w) == IF at[w] = "writing" THEN {"gone", "mv"} ELSE IF at[w] = "mv" THEN {"mv"} ELSE {"gone"}
Killed(ws) ==
    {[w \in Workers |-> IF w \notin ws THEN at[w]
                        ELSE IF at[w] = "mv" \/ w \in left THEN "mv" ELSE "gone"] :
        left \in SUBSET {w \in ws : at[w] = "writing"}}
-----------------------------------------------------------------------------
(* The main shell.                                                         *)

Boot ==
    /\ main = "boot" /\ stateFile = "no_run"
    /\ stateFile' = "running"
    /\ UNCHANGED <<failureReason, stopRequest, count, runTime, at, mainVars, term, ioFaults>>

\* The trap is set and the workers are started.
StartWorkers ==
    /\ main = "boot" /\ stateFile = "running"
    /\ main' = "loop" /\ at' = [w \in Workers |-> "check"]
    /\ UNCHANGED <<files, runTime, verdict, resume, finalized, seenInTime, term, ioFaults>>

LoopOver == IsStopping \/ (runTime /\ TargetsMet)

MainLoop ==
    /\ main = "loop" /\ LoopOver
    /\ main' = "judge" /\ seenInTime' = (failureReason # NoReason)
    /\ UNCHANGED <<files, runTime, at, verdict, resume, finalized, term, ioFaults>>

\* Mutant: only a stop request ends the main loop.
StopOnly == stopRequest
MustStop == failureReason # NoReason \/ stopRequest
Judge ==
    /\ main = "judge"
    /\ IF MustStop THEN at' \in Killed(Workers) /\ main' = "finish" /\ resume' = "done"
                   ELSE at' \in Killed({"watch"}) /\ main' = "drain" /\ UNCHANGED resume
    /\ UNCHANGED <<files, runTime, verdict, finalized, seenInTime, term, ioFaults>>

\* wait, for the loops that end by themselves.
Drain ==
    /\ main = "drain" /\ \A w \in Loops : at[w] \in {"gone", "mv"}
    /\ main' = "tally"
    /\ UNCHANGED <<files, runTime, at, verdict, resume, finalized, seenInTime, term, ioFaults>>

Tally ==
    /\ main = "tally"
    /\ IF runTime /\ TargetsMet
       THEN /\ stateFile' = "complete" /\ finalized' = TRUE /\ main' = "done"
            /\ UNCHANGED <<failureReason, resume>>
       ELSE /\ failureReason' = IF failureReason = NoReason THEN "incomplete" ELSE failureReason
            /\ main' = "finish" /\ resume' = "done"
            /\ UNCHANGED <<stateFile, finalized>>
    /\ UNCHANGED <<stopRequest, count, runTime, at, verdict, seenInTime, term, ioFaults>>

\* finish: the verdict, then (after the diagnostics of a failure) the state.
Verdict == IF failureReason # NoReason THEN "failed" ELSE "stopped"
FinishDecides ==
    /\ main = "finish"
    /\ IF finalized THEN main' = resume /\ UNCHANGED verdict ELSE main' = "write" /\ verdict' = Verdict
    /\ UNCHANGED <<files, runTime, at, resume, finalized, seenInTime, term, ioFaults>>
FinishWrites ==
    /\ main = "write"
    /\ stateFile' = verdict /\ finalized' = TRUE /\ main' = resume
    /\ UNCHANGED <<failureReason, stopRequest, count, runTime, at, verdict, resume, seenInTime, term, ioFaults>>
-----------------------------------------------------------------------------
(* Time, the operator and systemd.                                         *)

Elapse == ~Ended /\ runTime = FALSE /\ runTime' = TRUE /\ UNCHANGED <<files, at, mainVars, term, ioFaults>>

\* stop: the request, and then the signals of systemctl stop.
StopAsked ==
    /\ ~stopRequest /\ ~Ended /\ stopRequest' = TRUE
    /\ UNCHANGED <<stateFile, failureReason, count, runTime, at, mainVars, term, ioFaults>>
TermSent ==
    /\ stopRequest /\ ~term /\ ~Ended /\ term' = TRUE
    /\ main' = IF main = "boot" THEN "killed" ELSE main
    /\ UNCHANGED <<files, runTime, at, verdict, resume, finalized, seenInTime, ioFaults>>

\* Every process of the unit is signalled, one after the other: a tool may die before
\* the shell that waits for it.
ToolKilled(w) ==
    /\ term /\ ~Ended /\ at[w] = "run" /\ w # "watch"
    /\ at' = [at EXCEPT ![w] = "failing"]
    /\ UNCHANGED <<files, runTime, mainVars, term, ioFaults>>
WorkerKilled(w) ==
    /\ term /\ ~Ended /\ at[w] # "gone"
    /\ \E next \in AfterKill(w) \cup {"gone"} : at' = [at EXCEPT ![w] = next]
    /\ UNCHANGED <<files, runTime, mainVars, term, ioFaults>>

\* The trap of the main shell, which then goes on; in the loop the killed sleep
\* may end it at once.
MainTrapped ==
    /\ term /\ ~finalized /\ main \in {"loop", "judge", "drain", "tally"}
    /\ main' = "finish"
    /\ resume' \in CASE main = "loop" -> {"judge", "done"} [] main = "drain" -> {"tally"} [] OTHER -> {main}
    /\ UNCHANGED <<files, runTime, at, verdict, finalized, seenInTime, term, ioFaults>>

\* TimeoutStopSec: the diagnostics of a failure can take longer.
MainKilled ==
    /\ term /\ main = "write" /\ verdict = "failed"
    /\ main' = "killed" /\ at' = [w \in Workers |-> "gone"]
    /\ UNCHANGED <<files, runTime, verdict, resume, finalized, seenInTime, term, ioFaults>>

MainSteps ==
    \/ Boot \/ StartWorkers \/ MainLoop \/ Judge \/ Drain \/ Tally \/ FinishDecides \/ FinishWrites
WorkerSteps(w) ==
    WorkerChecks(w) \/ ToolEnds(w) \/ ToolFails(w) \/ LooksForReason(w) \/ WritesReason(w)
QualNext ==
    \/ MainSteps \/ \E w \in Workers : WorkerSteps(w) \/ ToolKilled(w) \/ WorkerKilled(w)
    \/ Elapse \/ StopAsked \/ TermSent \/ MainTrapped \/ MainKilled

QualSpec == QualInit /\ [][QualNext]_qualVars
\* The shells go on, tools end, and time passes.
QualFairness ==
    /\ WF_qualVars(MainSteps) /\ WF_qualVars(Elapse)
    /\ \A w \in Workers : WF_qualVars(WorkerSteps(w))
-----------------------------------------------------------------------------
(* Properties.                                                             *)

QualTypeOK ==
    /\ stateFile \in {"no_run", "running", "complete", "failed", "stopped"}
    /\ failureReason \in Workers \cup {NoReason}
    /\ \A w \in Measured : count[w] \in 0 .. MaxIterations
    /\ at \in [Workers -> {"check", "run", "failing", "writing", "mv", "gone"}]
    /\ main \in {"boot", "loop", "judge", "drain", "tally", "finish", "write", "done", "killed"}
    /\ resume \in {"judge", "drain", "tally", "done"}

\* A failure that was recorded when the main shell left its loop is in the final
\* state, whoever recorded it and however many failed at once.
FailureReported == main = "done" /\ seenInTime => stateFile = "failed"

\* A run that nobody stops is only called failed over a fault some worker really met,
\* and that one's reason or that of another worker that met one is given.
FailedIsReal == stateFile = "failed" /\ ~term => failureReason \in ioFaults

\* The state of a run that has ended says so, and complete was earned: the observer
\* waits for one of these words.
EndedSaysSo ==
    main = "done" =>
       /\ stateFile \in {"complete", "failed", "stopped"}
       /\ stateFile = "complete" => runTime /\ TargetsMet
       /\ stateFile = "stopped" => stopRequest

\* Every run comes to an end, stopped or not, also when the last iterations fail.
RunEnds == <>Ended

\* "Stop a run immediately for any of" a controller failure: a run in which one was
\* recorded is not complete.
CompleteIsClean == stateFile = "complete" => failureReason = NoReason

\* What the state file of an ended run says is how the run ended.
QualificationSafe == QualTypeOK /\ FailedIsReal /\ FailureReported /\ EndedSaysSo
=============================================================================
