------------------------------ MODULE SendScreen ------------------------------
(***************************************************************************)
(* One run of tools/sn770-zfs-qualification/sn770-send-screen.sh: the      *)
(* worker, the one or two workloads it starts per iteration, and the       *)
(* operator, whose stop is a file.                                         *)
(*                                                                         *)
(* A pass of the monitor is one step; it finds the drive healthy, too hot, *)
(* or failed. A workload outlasts the first pass of its iteration (a send  *)
(* of the seed takes minutes, the first pass is immediate).                *)
(***************************************************************************)
EXTENDS Integers, FiniteSets

CONSTANTS
    TargetCount, \* --count
    Workload     \* the processes of one iteration: {"send"}, {"scrub"} or both

ASSUME SendScreenAssumption ==
    TargetCount \in Nat \ {0} /\ Workload \subseteq {"send", "scrub"} /\ Workload # {}

VARIABLES
    stopFile, stateWord, outcome,  \* stop.request, state, outcome
    completed,  \* completed_count
    proc,       \* of each workload: "none", "runs", "stuck" in the kernel, "ok", "bad"
    reason,     \* reason
    step,       \* where the worker is
    watched,    \* the iteration has had a pass of the monitor
    atStop      \* history: completed_count when the run was asked to stop, or -1
screenVars == <<stopFile, stateWord, outcome, completed, proc, reason, step, watched, atStop>>

Stopping == {"thermal", "operator_stop"}
Alive == {w \in Workload : proc[w] \in {"runs", "stuck"}}

ScreenInit ==
    /\ stopFile = FALSE /\ stateWord = "no_run" /\ outcome = "none" /\ completed = 0
    /\ proc = [w \in Workload |-> "none"] /\ reason = "none" /\ step = "boot"
    /\ watched = FALSE /\ atStop = -1
-----------------------------------------------------------------------------
(* rm -f: whatever asked for a stop until now is forgotten. *)
ClearFiles ==
    /\ step = "boot"
    /\ stopFile' = FALSE /\ outcome' = "none" /\ step' = "ready"
    /\ UNCHANGED <<stateWord, completed, proc, reason, watched, atStop>>
SetRunning ==
    /\ step = "ready"
    /\ stateWord' = "running" /\ step' = "head"
    /\ UNCHANGED <<stopFile, outcome, completed, proc, reason, watched, atStop>>

MoreToDo == completed < TargetCount
StartIteration ==
    /\ step = "head" /\ MoreToDo
    /\ proc' = [w \in Workload |-> "runs"] /\ reason' = "none" /\ step' = "watch" /\ watched' = FALSE
    /\ UNCHANGED <<stopFile, stateWord, outcome, completed, atStop>>

\* The monitor: one pass while a process of the iteration is there.
Pass ==
    /\ step = "watch" /\ Alive # {}
    /\ reason' \in IF stopFile THEN {"operator_stop"} ELSE {"none", "thermal", "failure"}
    /\ step' = IF reason' = "none" THEN "watch" ELSE "state"
    /\ watched' = TRUE
    /\ UNCHANGED <<stopFile, stateWord, outcome, completed, proc, atStop>>

\* A reason ends the run: the state, the outcome, the kill of what is not evidence, the wait.
StateOf(r) == IF r \in Stopping THEN "stopped" ELSE "failed"
WriteState ==
    /\ step = "state"
    /\ stateWord' = StateOf(reason) /\ step' = "outcome"
    /\ UNCHANGED <<stopFile, outcome, completed, proc, reason, watched, atStop>>
WriteOutcome ==
    /\ step = "outcome"
    /\ outcome' = reason /\ step' = "kill"
    /\ UNCHANGED <<stopFile, stateWord, completed, proc, reason, watched, atStop>>
KillWorkloads ==
    /\ step = "kill"
    /\ proc' = [w \in Workload |-> IF reason \in Stopping /\ proc[w] = "runs" THEN "bad" ELSE proc[w]]
    /\ step' = "wait"
    /\ UNCHANGED <<stopFile, stateWord, outcome, completed, reason, watched, atStop>>

\* Mutant: the failed worker does not wait.
NoWait == TRUE
Waited == Alive = {}
WaitWorkloads ==
    /\ step = "wait" /\ Waited
    /\ step' = "done"
    /\ UNCHANGED <<stopFile, stateWord, outcome, completed, proc, reason, watched, atStop>>

\* The iteration is over: both results are asked for.
AnyFailed == \E w \in Workload : proc[w] = "bad"
NextCount == completed + 1
Reap ==
    /\ step = "watch" /\ Alive = {}
    /\ IF AnyFailed
       THEN /\ outcome' = "workload_failed" /\ step' = "failed"
            /\ UNCHANGED completed
       ELSE /\ completed' = NextCount /\ step' = "head"
            /\ UNCHANGED outcome
    /\ UNCHANGED <<stopFile, stateWord, proc, reason, watched, atStop>>
CheckPool ==
    /\ step = "head" /\ ~MoreToDo
    /\ \/ outcome' = "completed" /\ step' = "complete"
       \/ outcome' = "pool_not_healthy" /\ step' = "failed"
    /\ UNCHANGED <<stopFile, stateWord, completed, proc, reason, watched, atStop>>
WriteLast ==
    /\ step \in {"failed", "complete"}
    /\ stateWord' = step /\ step' = "done"
    /\ UNCHANGED <<stopFile, outcome, completed, proc, reason, watched, atStop>>
-----------------------------------------------------------------------------
WorkloadEnds(w) ==
    /\ proc[w] = "runs" /\ watched
    /\ \E end \in {"ok", "bad"} : proc' = [proc EXCEPT ![w] = end]
    /\ UNCHANGED <<stopFile, stateWord, outcome, completed, reason, step, watched, atStop>>
\* The drive is gone, and what waits for it cannot be killed.
WorkloadSticks(w) ==
    /\ proc[w] = "runs"
    /\ proc' = [proc EXCEPT ![w] = "stuck"]
    /\ UNCHANGED <<stopFile, stateWord, outcome, completed, reason, step, watched, atStop>>
StopScreen ==
    /\ ~stopFile /\ step # "done"
    /\ stopFile' = TRUE
    /\ atStop' = IF atStop = -1 /\ stateWord = "running" THEN completed ELSE atStop
    /\ UNCHANGED <<stateWord, outcome, completed, proc, reason, step, watched>>

ScreenSteps ==
    \/ ClearFiles \/ SetRunning \/ StartIteration \/ Pass \/ WriteState \/ WriteOutcome
    \/ KillWorkloads \/ WaitWorkloads \/ Reap \/ CheckPool \/ WriteLast
ScreenNext ==
    \/ ScreenSteps \/ StopScreen
    \/ \E w \in Workload : WorkloadEnds(w) \/ WorkloadSticks(w)
ScreenSpec == ScreenInit /\ [][ScreenNext]_screenVars
ScreenFairness == WF_screenVars(ScreenSteps) /\ \A w \in Workload : WF_screenVars(WorkloadEnds(w))
-----------------------------------------------------------------------------
(* Properties.                                                             *)

ScreenTypeOK ==
    /\ stopFile \in BOOLEAN /\ watched \in BOOLEAN
    /\ stateWord \in {"no_run", "running", "complete", "failed", "stopped"}
    /\ outcome \in {"none", "thermal", "operator_stop", "failure", "workload_failed",
                    "pool_not_healthy", "completed"}
    /\ completed \in 0 .. TargetCount
    /\ proc \in [Workload -> {"none", "runs", "stuck", "ok", "bad"}]
    /\ reason \in {"none", "thermal", "operator_stop", "failure"}
    /\ step \in {"boot", "ready", "head", "watch", "state", "outcome", "kill", "wait",
                 "failed", "complete", "done"}
    /\ atStop \in -1 .. TargetCount

\* A stop asked of a running screen is honoured within the iteration it falls into:
\* at most that one is still counted.
StopInTime == atStop # -1 => completed <= atStop + 1

\* What the two files of a screen that has ended say belongs together, nothing of the
\* workload outlives it, and a complete screen counts only iterations of which every
\* process succeeded.
EndIsSettled ==
    step = "done" =>
       /\ Alive = {}
       /\ stateWord = "complete" <=> outcome = "completed"
       /\ stateWord = "stopped" <=> outcome \in Stopping
       /\ stateWord = "complete" => completed = TargetCount /\ \A w \in Workload : proc[w] = "ok"

\* The screen ends, unless a workload hangs in the kernel: the wait has no bound.
ScreenEnds == <>(step = "done" \/ \E w \in Workload : proc[w] = "stuck")

\* The screen keeps a stop it could have read, and its end is after its workload's.
ScreenSafe == ScreenTypeOK /\ StopInTime /\ EndIsSettled
=============================================================================
