---------------------------- MODULE FlowCollector ----------------------------
(***************************************************************************)
(* The collector that copies UniFi Flow View rows into VictoriaLogs        *)
(* (kubernetes/apps/observability/unifi-flows/app/collector.py).           *)
(*                                                                         *)
(* One thread runs cycles.  A cycle restores the watermark, reads fixed    *)
(* time windows from the console, stores their rows in batches, moves the  *)
(* watermark over every window that was read and accepted in full, and     *)
(* ends by writing one checkpoint together with the gaps found on the way. *)
(* Around it: rows appear on the console (some late) and expire, the clock *)
(* moves inside a cycle, requests fail or are accepted without an answer,  *)
(* and the process is stopped or killed between any two steps.             *)
(*                                                                         *)
(* One step is one request (a window's pages are one step: ReadWindow is   *)
(* the page loop, and a partial outcome stands for every way it falls      *)
(* short).  Times are ticks of one clock.  "ok" stands for 'ok' and        *)
(* 'no_rows', "read_failed" for every CycleError of the console, and       *)
(* counters that only feed /metrics are left out.                          *)
(***************************************************************************)
EXTENDS Integers, FiniteSets

CONSTANTS
    Flows,       \* identities of flow rows
    None,        \* Python's None
    Overlap, Settle, Lookback, MaxCatchup, MaxWindow, MinWindow,
    QueryCap, PageSize, MaxPages, MaxCycle, Poll,  \* fields of Config
    Retention,   \* how long the console keeps a row
    Delays,      \* how late after its own time a row may appear
    Horizon,     \* bound on the clock
    MaxFaults    \* bound on failed requests, kills and SIGTERMs

ASSUME ConfigAssumption ==
    /\ None \notin Int
    /\ IsFiniteSet(Flows)
    /\ {Overlap, Settle, Lookback, MaxCatchup, MaxCycle, Retention} \subseteq Nat
    /\ {MaxWindow, MinWindow, QueryCap, PageSize, MaxPages, Poll} \subseteq Nat \ {0}
    /\ MinWindow <= MaxWindow
    /\ Delays \subseteq Nat
    /\ Horizon \in Nat
    /\ MaxFaults \in Nat

\* A first run starts no later than the newest settled moment.
ASSUME LookbackAssumption == Settle <= Lookback /\ Lookback <= Horizon

\* "Under the store's 25 to 28 hours, so a recovered window still has its rows."
ASSUME RetentionAssumption == Settle + MaxCatchup + MaxCycle <= Retention

VARIABLES
    now,         \* the clock
    rowTime,     \* each row's own time, None until it appears
    listed,      \* rows the console can still return
    stored,      \* rows VictoriaLogs holds
    gaps,        \* gap records VictoriaLogs holds
    ckpt,        \* watermark of the newest accepted checkpoint
    visible,     \* watermark of the newest checkpoint a query returns
    pc,          \* "down", "idle", "reading", "storing" or "closing"
    stop,        \* the stop event SIGTERM sets
    wake,        \* when the wait between cycles ends
    watermark, windowMs, seen, pending,     \* the Collector's fields
    endLimit, deadline, pages, before,      \* one cycle's locals and Budget
    rows, problem,   \* the Window being stored; "capped" when it is only capped
    result,      \* the cycle's result
    prompt,      \* rows that appeared within Settle of their time
    base,        \* where the first run started
    acked,       \* rows this process was told were accepted
    faults       \* faults so far

console == <<rowTime, listed, prompt>>
sink    == <<stored, gaps, ckpt, visible>>
memory  == <<watermark, windowMs, seen, pending, acked>>
locals  == <<endLimit, deadline, before>>
window  == <<rows, problem>>
vars == <<now, console, sink, pc, stop, wake, memory, locals, pages, window,
          result, base, faults>>

Larger(a, b)  == IF a >= b THEN a ELSE b
Smaller(a, b) == IF a <= b THEN a ELSE b

Time == Nat \cup {None}
GapRecords == [from : Int, to : Int, reason : {"beyond_catchup", "query_cap"}]
Gap(from, to, reason) == [from |-> from, to |-> to, reason |-> reason]

Init ==
    /\ now = Lookback
    /\ rowTime = [f \in Flows |-> None]
    /\ listed = {} /\ prompt = {}
    /\ stored = {} /\ gaps = {} /\ ckpt = None /\ visible = None
    /\ pc = "idle" /\ stop = "clear" /\ wake = now
    /\ watermark = None /\ windowMs = MaxWindow /\ seen = {} /\ pending = {}
    /\ endLimit = 0 /\ deadline = 0 /\ pages = 0 /\ before = None
    /\ rows = {} /\ problem = "none"
    /\ result = "none"
    /\ base = None /\ acked = {} /\ faults = 0

-----------------------------------------------------------------------------
(* The world around the process.                                           *)

Fault == faults < MaxFaults /\ faults' = faults + 1

\* A checkpoint is searchable within a tick of being accepted.
Tick ==
    /\ now < Horizon
    /\ visible = ckpt
    /\ now' = now + 1
    /\ UNCHANGED <<console, sink, pc, stop, wake, memory, locals, pages,
                   window, result, base, faults>>

RowAppears(f) ==
    /\ rowTime[f] = None
    /\ \E d \in Delays :
        /\ d <= now
        /\ rowTime' = [rowTime EXCEPT ![f] = now - d]
        /\ prompt' = IF d < Settle THEN prompt \cup {f} ELSE prompt
    /\ listed' = listed \cup {f}
    /\ UNCHANGED <<now, sink, pc, stop, wake, memory, locals, pages, window,
                   result, base, faults>>

RowExpires(f) ==
    /\ f \in listed
    /\ now - rowTime[f] > Retention
    /\ listed' = listed \ {f}
    /\ UNCHANGED <<now, rowTime, prompt, sink, pc, stop, wake, memory, locals,
                   pages, window, result, base, faults>>

CheckpointVisible ==
    /\ visible # ckpt
    /\ visible' = ckpt
    /\ UNCHANGED <<now, console, stored, gaps, ckpt, pc, stop, wake, memory,
                   locals, pages, window, result, base, faults>>

\* The process is gone, and everything it held in memory with it.
Gone ==
    /\ pc' = "down"
    /\ stop' = "clear"
    /\ watermark' = None /\ windowMs' = MaxWindow /\ seen' = {}
    /\ pending' = {} /\ acked' = {}
    /\ endLimit' = 0 /\ deadline' = 0 /\ pages' = 0 /\ before' = None
    /\ rows' = {} /\ problem' = "none"
    /\ result' = "none"
    /\ UNCHANGED <<now, console, sink, wake, base>>

Kill == pc # "down" /\ Fault /\ Gone

Sigterm ==
    /\ pc # "down" /\ stop = "clear"
    /\ Fault
    /\ stop' = "set"
    /\ UNCHANGED <<now, console, sink, pc, wake, memory, locals, pages, window,
                   result, base>>

\* run: the loop and the wait both end on the stop event.
Exit == pc = "idle" /\ stop = "set" /\ Gone /\ UNCHANGED faults

Start ==
    /\ pc = "down"
    /\ pc' = "idle"
    /\ wake' = now
    /\ UNCHANGED <<now, console, sink, stop, memory, locals, pages, window,
                   result, base, faults>>

-----------------------------------------------------------------------------
(* cycle: the start, restore and the head of advance.                      *)

\* At the clock's bound a cycle starts only while there is work left.
Due ==
    \/ now >= wake
    \/ /\ now = Horizon
       /\ (watermark # None /\ pending = {}) => watermark < Horizon - Settle

Restored ==
    IF watermark # None THEN watermark
    ELSE IF visible # None THEN visible
    ELSE now - Lookback

CatchupGap(from, to) == pending \cup {Gap(from, to, "beyond_catchup")}

NarrowedWidth == Larger(windowMs \div 2, MinWindow)

\* Mutant: every cycle starts again at the widest window.
CycleWidthReset == MaxWindow
\* The width is kept from one cycle to the next.
CycleWidth == windowMs

\* Always room for a whole window, or a full one could never finish.
PageBudget == Larger(MaxPages, (QueryCap \div PageSize) + 1)

BeginCycle ==
    /\ pc = "idle" /\ stop = "clear" /\ Due
    /\ before' = watermark
    /\ pages' = PageBudget
    /\ deadline' = now + MaxCycle
    /\ endLimit' = now - Settle
    /\ LET oldest == now - Settle - MaxCatchup
       IN IF Restored < oldest
          THEN /\ pending' = CatchupGap(Restored, oldest)
               /\ watermark' = oldest
          ELSE /\ watermark' = Restored
               /\ UNCHANGED pending
    /\ base' = IF watermark = None /\ visible = None THEN now - Lookback ELSE base
    /\ windowMs' = CycleWidth
    /\ pc' = "reading"
    /\ UNCHANGED <<now, console, sink, stop, wake, seen, acked, window, result,
                   faults>>

\* restore raises StateUnavailable: there is no watermark to check point.
RestoreFails ==
    /\ pc = "idle" /\ stop = "clear" /\ Due
    /\ watermark = None
    /\ Fault
    /\ result' = "state_unavailable"
    /\ wake' = now + Poll
    /\ UNCHANGED <<now, console, sink, pc, stop, memory, locals, pages, window,
                   base>>

-----------------------------------------------------------------------------
(* advance and read_window.                                                *)

WindowEnd   == Smaller(watermark + windowMs, endLimit)
WindowStart == Larger(watermark - Overlap, 0)
AtFloor     == windowMs <= MinWindow

Between(lo, hi) == {f \in listed : lo <= rowTime[f] /\ rowTime[f] <= hi}
Found  == Between(WindowStart, WindowEnd)
OverCap == Cardinality(Found) >= QueryCap

\* Pages come newest first, so the first pages hold the newest rows.
NewestOf(S, R) == S \subseteq R /\ \A f \in S, g \in R \ S : rowTime[f] >= rowTime[g]

Wanted == IF OverCap THEN Smaller(QueryCap, Cardinality(Found)) ELSE Cardinality(Found)
\* A window over the cap is given up after one page, except at the floor.
PagesNeeded ==
    IF OverCap /\ ~AtFloor THEN 1
    ELSE Larger(1, (Wanted + PageSize - 1) \div PageSize)

Spent == pages = 0 \/ now >= deadline \/ stop = "set"
InWindow == pc = "reading" /\ watermark < endLimit

\* Over the cap above the floor: halve the window and try again.
NarrowWindow ==
    /\ InWindow /\ ~Spent
    /\ OverCap /\ ~AtFloor
    /\ pages' = pages - 1
    /\ windowMs' = NarrowedWidth
    /\ UNCHANGED <<now, console, sink, pc, stop, wake, watermark, seen, pending,
                   acked, locals, window, result, base, faults>>

\* Every page of the window, or at the floor the newest QueryCap rows of it.
ReadWindow ==
    /\ InWindow /\ ~Spent
    /\ OverCap => AtFloor
    /\ PagesNeeded <= pages
    /\ \E S \in SUBSET Found :
        /\ NewestOf(S, Found) /\ Cardinality(S) = Wanted
        /\ rows' = S
    /\ problem' = IF OverCap THEN "capped" ELSE "none"
    /\ pages' = pages - PagesNeeded
    /\ pc' = "storing"
    /\ UNCHANGED <<now, console, sink, stop, wake, memory, locals, result, base,
                   faults>>

\* The first n pages only: the budget or the stop event ended the read
\* (cycle_budget), or a page was one read_window refuses (incomplete).
ReadPart(n) ==
    /\ InWindow
    /\ n < PagesNeeded /\ n <= pages
    /\ \/ /\ n = pages \/ now >= deadline \/ stop = "set"
          /\ problem' = "cycle_budget"
          /\ UNCHANGED faults
       \/ /\ ~Spent /\ n < pages
          /\ Fault
          /\ problem' \in {"cycle_budget", "incomplete"}
    /\ \E S \in SUBSET Found :
        /\ NewestOf(S, Found) /\ Cardinality(S) = n * PageSize
        /\ rows' = S
    /\ pages' = pages - n
    /\ pc' = "storing"
    /\ UNCHANGED <<now, console, sink, stop, wake, memory, locals, result, base>>

\* A CycleError of the console, or a row whose shape raises: the rows read are
\* dropped and the cycle ends.
CycleFails ==
    /\ InWindow \/ pc = "storing"
    /\ Fault
    /\ result' = IF pc = "reading" THEN "read_failed" ELSE "incomplete"
    /\ rows' = {} /\ problem' = "none"
    /\ pc' = "closing"
    /\ UNCHANGED <<now, console, sink, stop, wake, memory, locals, pages, base>>

-----------------------------------------------------------------------------
(* store, one batch at a time, and what advance does with the window.      *)

Unsent == rows \ seen

BatchAccepted ==
    /\ pc = "storing"
    /\ \E B \in SUBSET Unsent :
        /\ B # {} /\ NewestOf(B, Unsent)
        /\ stored' = stored \cup B
        /\ seen' = seen \cup B
        /\ acked' = acked \cup B
    /\ UNCHANGED <<now, console, gaps, ckpt, visible, pc, stop, wake, watermark,
                   windowMs, pending, locals, pages, window, result, base, faults>>

\* IngestFailed: refused, or accepted with the answer lost.
BatchFails ==
    /\ pc = "storing"
    /\ Fault
    /\ \E B \in SUBSET Unsent :
        /\ B # {} /\ NewestOf(B, Unsent)
        /\ stored' \in {stored, stored \cup B}
    /\ result' = "ingest_failed"
    /\ rows' = {} /\ problem' = "none"
    /\ pc' = "closing"
    /\ UNCHANGED <<now, console, gaps, ckpt, visible, stop, wake, memory,
                   locals, pages, base>>

\* Mutant: the window moves although a page was missing.
StoredAtAll == Unsent = {}
StoredInFull == Unsent = {} /\ problem \in {"none", "capped"}

\* Mutant: rows inside the next window's overlap are forgotten.
SeenAfterEnd(end) == {f \in seen : rowTime[f] >= end}
SeenKept(end) == {f \in seen : rowTime[f] >= end - 2 * Overlap}

Doubled == Smaller(windowMs * 2, MaxWindow)

\* At the floor the rows are the newest: everything older than the oldest of
\* them is abandoned.
CapGap(from, oldestRow) == pending \cup {Gap(from, oldestRow, "query_cap")}
\* The window was read and accepted in full: move over it.
CompleteWindow ==
    /\ pc = "storing" /\ StoredInFull
    /\ IF problem = "capped"
       THEN \E f \in rows :
              /\ \A g \in rows : rowTime[f] <= rowTime[g]
              /\ pending' = CapGap(watermark, rowTime[f])
       ELSE UNCHANGED pending
    /\ watermark' = WindowEnd
    /\ seen' = SeenKept(WindowEnd)
    /\ windowMs' = Doubled
    /\ rows' = {} /\ problem' = "none"
    /\ pc' = "reading"
    /\ UNCHANGED <<now, console, sink, stop, wake, acked, locals, pages, result,
                   base, faults>>

\* What was read is kept, the watermark is not moved.
HoldWindow ==
    /\ pc = "storing" /\ Unsent = {} /\ problem \in {"cycle_budget", "incomplete"}
    /\ result' = IF problem = "cycle_budget" THEN "backlog" ELSE "incomplete"
    /\ rows' = {} /\ problem' = "none"
    /\ pc' = "closing"
    /\ UNCHANGED <<now, console, sink, stop, wake, memory, locals, pages, base,
                   faults>>

AdvanceDone ==
    /\ pc = "reading" /\ watermark >= endLimit
    /\ result' = "ok"
    /\ pc' = "closing"
    /\ UNCHANGED <<now, console, sink, stop, wake, memory, locals, pages, window,
                   base, faults>>

-----------------------------------------------------------------------------
(* cycle: the checkpoint.                                                  *)

NeedsCheckpoint == watermark # before \/ pending # {}

EndCycle ==
    /\ pc' = "idle"
    /\ wake' = now + Poll
    /\ endLimit' = 0 /\ deadline' = 0 /\ pages' = 0 /\ before' = None
    /\ UNCHANGED <<now, console, stop, watermark, windowMs, seen, acked, window,
                   base>>

\* Mutant: the checkpoint and the gaps are written apart, and only it arrives.
CheckpointAlone == gaps
CheckpointWithGaps == gaps \cup pending

\* One write carries the pending gaps and the checkpoint.
Checkpoint ==
    /\ pc = "closing" /\ NeedsCheckpoint
    /\ gaps' = CheckpointWithGaps
    /\ ckpt' = watermark
    /\ pending' = {}
    /\ UNCHANGED <<stored, visible, result, faults>>
    /\ EndCycle

ResultOfLostWrite == IF result \in {"ok", "backlog"} THEN "ingest_failed" ELSE result

CheckpointFails ==
    /\ pc = "closing" /\ NeedsCheckpoint
    /\ Fault
    /\ \/ UNCHANGED <<gaps, ckpt>>
       \/ gaps' = CheckpointWithGaps /\ ckpt' = watermark
    /\ result' = ResultOfLostWrite
    /\ UNCHANGED <<stored, visible, pending>>
    /\ EndCycle

NoCheckpoint ==
    /\ pc = "closing" /\ ~NeedsCheckpoint
    /\ UNCHANGED <<sink, pending, result, faults>>
    /\ EndCycle

-----------------------------------------------------------------------------
Collector ==
    \/ BeginCycle \/ RestoreFails
    \/ NarrowWindow \/ ReadWindow
    \/ \E n \in 0 .. Cardinality(Flows) : ReadPart(n)
    \/ CycleFails
    \/ BatchAccepted \/ BatchFails
    \/ CompleteWindow \/ HoldWindow \/ AdvanceDone
    \/ Checkpoint \/ CheckpointFails \/ NoCheckpoint
    \/ Exit

Environment ==
    \/ Tick \/ CheckpointVisible
    \/ \E f \in Flows : RowAppears(f) \/ RowExpires(f)
    \/ Kill \/ Sigterm \/ Start

\* The clock's bound is reached and nothing is left to do.
Finished ==
    /\ now = Horizon /\ pc = "idle" /\ stop = "clear" /\ ~Due
    /\ UNCHANGED vars

Next == Collector \/ Environment \/ Finished

Spec == Init /\ [][Next]_vars

\* The thread keeps running, the clock keeps moving, VictoriaLogs makes rows
\* searchable and the Deployment starts a process that is down.
FairSpec ==
    /\ Spec
    /\ WF_vars(Collector) /\ WF_vars(Tick)
    /\ WF_vars(CheckpointVisible) /\ WF_vars(Start)

-----------------------------------------------------------------------------
(* Properties.                                                             *)

Appeared == {f \in Flows : rowTime[f] # None}

TypeOK ==
    /\ now \in Lookback .. Horizon
    /\ rowTime \in [Flows -> Time]
    /\ listed \subseteq Appeared /\ prompt \subseteq Appeared
    /\ stored \subseteq Flows /\ gaps \subseteq GapRecords
    /\ ckpt \in Time /\ visible \in Time
    /\ pc \in {"down", "idle", "reading", "storing", "closing"}
    /\ stop \in {"clear", "set"} /\ wake \in Nat
    /\ watermark \in Time /\ windowMs \in MinWindow .. MaxWindow
    /\ seen \subseteq Flows /\ pending \subseteq GapRecords
    /\ endLimit \in Nat /\ deadline \in Nat /\ pages \in Nat /\ before \in Time
    /\ rows \subseteq Appeared
    /\ problem \in {"none", "capped", "cycle_budget", "incomplete"}
    /\ result \in {"none", "ok", "backlog", "incomplete", "read_failed",
                   "ingest_failed", "state_unavailable"}
    /\ base \in Time /\ acked \subseteq Flows /\ faults \in Nat

\* The rows the collector owes a reader of VictoriaLogs: they appeared before
\* their moment settled, and after the first run's start.
Owed == {f \in prompt : base # None /\ base < rowTime[f]}

InGap(f, G) == \E g \in G : g.from <= rowTime[f] /\ rowTime[f] <= g.to

CoveredUpTo(mark, G) ==
    mark # None => \A f \in Owed : rowTime[f] <= mark => f \in stored \/ InGap(f, G)

\* Whatever watermark a restart could resume from (the newest accepted
\* checkpoint, or the newest searchable one), every row owed up to it is in
\* VictoriaLogs or inside a gap VictoriaLogs holds.  "The watermark moves only
\* when every page of a window has been read and VictoriaLogs has accepted the
\* rows ... time deliberately abandoned is recorded as a gap."
Coverage == CoveredUpTo(ckpt, gaps) /\ CoveredUpTo(visible, gaps)

\* The same of the watermark in memory, counting gaps not yet written.
MemoryCoverage == CoveredUpTo(watermark, gaps \cup pending)

\* While a process lives and is answered, it never has the same row accepted
\* twice: pruning `seen` never forgets a row a later window can return.
AcceptedOnce == [][(seen' \ seen) \cap acked = {}]_vars

\* The result that moves last_success means that everything up to the watermark,
\* gaps included, is durable.
OkIsDurable == pc = "idle" /\ result = "ok" => ckpt = watermark /\ pending = {}

\* Once faults have stopped, the watermark reaches the newest settled moment and
\* stays there with no gap unwritten: a window over the cap is narrowed until it
\* fits, and a cycle always has room for one whole window.
CatchesUp ==
    <>[](watermark = Horizon - Settle /\ pending = {})

\* The collector keeps FlowArchive's promise to a reader of VictoriaLogs.
Archive == INSTANCE FlowArchive WITH owed <- Owed
KeepsArchive == Archive!Spec

\* No row owed to a reader is lost without a recorded gap, whatever watermark a restart or
\* the running process goes on from, and a result "ok" is durable.
CollectorSafe == TypeOK /\ Coverage /\ MemoryCoverage /\ OkIsDurable

\* The collector gets there without losing anything on the way.
CatchesUpSafely == []CollectorSafe /\ CatchesUp
=============================================================================
