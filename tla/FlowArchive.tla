---------------------------- MODULE FlowArchive ----------------------------
(***************************************************************************)
(* What a reader of VictoriaLogs may rely on about the unifi-flows records *)
(* (docs/runbooks/logging.md, "UniFi flow records"), whatever the          *)
(* collector does to bring it about: nothing is taken back, and a          *)
(* checkpoint is only ever written when every row owed up to it is stored  *)
(* or lies inside a recorded gap.  Neither the cycle, the windows, the     *)
(* process nor its memory appear here.                                     *)
(***************************************************************************)
EXTENDS Integers

CONSTANTS Flows, None

VARIABLES
    rowTime,   \* each row's own time, None before it exists
    owed,      \* the rows a reader is entitled to
    stored,    \* flow records
    gaps,      \* gap records
    ckpt,      \* watermark of the newest checkpoint
    visible    \* watermark of the newest checkpoint a query returns

vars == <<rowTime, owed, stored, gaps, ckpt, visible>>

Behind(f, mark) == mark # None /\ rowTime[f] <= mark

Accounted(mark) ==
    \A f \in owed : Behind(f, mark) =>
        \/ f \in stored
        \/ \E g \in gaps : g.from <= rowTime[f] /\ rowTime[f] <= g.to

Init ==
    /\ rowTime = [f \in Flows |-> None]
    /\ owed = {} /\ stored = {} /\ gaps = {} /\ ckpt = None /\ visible = None

\* A row appears.  One that is owed is newer than every checkpoint.
Appear(f) ==
    /\ rowTime[f] = None
    /\ rowTime'[f] \in Nat
    /\ rowTime' = [rowTime EXCEPT ![f] = rowTime'[f]]
    /\ owed' \in {owed, owed \cup {f}}
    /\ f \in owed' => ~Behind(f, ckpt)' /\ ~Behind(f, visible)'
    /\ UNCHANGED <<stored, gaps, ckpt, visible>>

\* A run that finds no checkpoint settles where it starts.
FirstRun ==
    /\ visible = None
    /\ owed' \subseteq {f \in Flows : rowTime[f] # None}
    /\ ckpt # None => owed' \subseteq owed
    /\ UNCHANGED <<rowTime, stored, gaps, ckpt, visible>>

Accept ==
    /\ stored' \in SUBSET Flows /\ stored \subseteq stored'
    /\ UNCHANGED <<rowTime, owed, gaps, ckpt, visible>>

Commit ==
    /\ gaps \subseteq gaps'
    /\ ckpt' # None
    /\ Accounted(ckpt)'
    /\ UNCHANGED <<rowTime, owed, stored, visible>>

Show == visible' = ckpt /\ UNCHANGED <<rowTime, owed, stored, gaps, ckpt>>

Next == (\E f \in Flows : Appear(f)) \/ FirstRun \/ Accept \/ Commit \/ Show

Spec == Init /\ [][Next]_vars
=============================================================================
