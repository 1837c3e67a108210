------------------------------- MODULE FlowRows --------------------------------
(***************************************************************************)
(* The rows of the flow collector one by one                               *)
(* (kubernetes/apps/observability/unifi-flows/app/collector.py): which     *)
(* identity and record a row gets, what a row that cannot become a record  *)
(* does to the window it is in, and what /metrics and /healthz say while   *)
(* cycles hold such a window, the sink refuses batches and a response      *)
(* trickles in for ever.                                                   *)
(*                                                                         *)
(* Every window here is read in full; FlowCollector has budgets, caps and  *)
(* late rows, PageRead has the pages.  /metrics copies the counters under  *)
(* the lock, so what it may return is exactly the states of this module.   *)
(***************************************************************************)
EXTENDS Integers, Sequences, FiniteSets

CONSTANTS
    Rowsets,   \* sets of rows the console shows: records, see RowFields
    NoTime,      \* a field the console leaves out
    Overlap, SettleBatch, MaxCatchup, MaxWindow, MaxCycle, Poll,  \* fields of Config
    Timeout,   \* request_timeout_s and what else a cycle may run over
    BatchRows, \* rows that fit MAX_BATCH_BYTES
    Horizon, MaxRowFaults, LastFault  \* bounds: the clock, refused writes and hung responses, and until when they happen

RowFields == {"id", "key", "time", "shape", "inNet", "srcZone", "outNet", "dstZone"}

ASSUME RowsAssumption ==
    /\ \A rs \in Rowsets : IsFiniteSet(rs)
    /\ \A rs \in Rowsets : \A r \in rs :
          /\ DOMAIN r = RowFields /\ r.time \in 0 .. Horizon
          /\ r.shape \in {"good", "broken", "unreadable"}
          \* Only the fields flow_id reads itself can make it raise.
          /\ r.shape = "unreadable" => r.id = NoTime
    /\ {Overlap, SettleBatch, MaxCatchup, MaxCycle, Timeout, Horizon, MaxRowFaults, LastFault} \subseteq Nat
    /\ {MaxWindow, Poll, BatchRows} \subseteq Nat \ {0}
    /\ Timeout < 2 * Poll

VARIABLES
    flows,     \* the console's rows; one is listed from its own time on
    now, cycleStep, wake, deadline, limit, earlier,  \* the thread: clock, place, the wait's end, locals of a cycle
    watermark, seen, pending,                \* the Collector's fields
    unread, batch, problem,                    \* one window: rows by identity left to store, the batch
    outcomeOf,
    counters, problems, last, lastSuccess, heartbeat,  \* what /metrics and /healthz read
    stored, gaps, ckpt,                      \* what VictoriaLogs holds
    rowFaults
rowsLocals == <<wake, deadline, limit, earlier>>
rowsWindow == <<unread, batch, problem>>
rowsReport == <<problems, last, lastSuccess, heartbeat>>
rowsSink == <<stored, gaps, ckpt>>
rowsVars == <<flows, now, cycleStep, rowsLocals, watermark, seen, pending, rowsWindow, outcomeOf, counters, rowsReport, rowsSink, rowFaults>>
-----------------------------------------------------------------------------
(* A row as it is stored.                                                  *)

FlowId(row) == IF row.id # NoTime THEN <<"console", row.id>> ELSE <<"derived", row.time, row.key>>

\* A flow is listed once it has ended, and has one time.
ASSUME IdentityAssumption ==
    \A rs \in Rowsets : \A r, q \in rs : FlowId(r) = FlowId(q) => r.time = q.time

First(a, b, c) == IF a # NoTime THEN a ELSE IF b # NoTime THEN b ELSE c

FlowScope(row, source, destination) ==
    IF row.dstZone = "External" THEN "internet" ELSE IF row.dstZone = "Gateway" THEN "gateway"
    ELSE IF source = destination THEN "same_network" ELSE "inter_network"

\* flow_record, by the fields the properties tell apart.
FlowRecord(row) ==
    LET source == First(row.inNet, row.srcZone, "unknown")
        destination == First(row.outNet, row.dstZone, "unknown")
    IN [row |-> row, id |-> FlowId(row), scope |-> FlowScope(row, source, destination),
        source |-> source, destination |-> destination]
-----------------------------------------------------------------------------
Zero == [read |-> 0, written |-> 0, duplicate |-> 0, ok |-> 0, incomplete |-> 0, ingest_failed |-> 0]

FlowRowsInit ==
    /\ flows \in Rowsets
    /\ now = 0 /\ cycleStep = "idle" /\ wake = 0 /\ deadline = 0 /\ limit = 0 /\ earlier = 0
    /\ watermark = 0 /\ seen = {} /\ pending = {}
    /\ unread = {} /\ batch = <<>> /\ problem = "none" /\ outcomeOf = "none"
    /\ counters = Zero /\ problems = 0 /\ last = "none" /\ lastSuccess = 0 /\ heartbeat = 0
    /\ stored = {} /\ gaps = {} /\ ckpt = 0 /\ rowFaults = 0

Fault == rowFaults < MaxRowFaults /\ now <= LastFault /\ rowFaults' = rowFaults + 1
Larger(a, b) == IF a >= b THEN a ELSE b
Lesser(a, b) == IF a <= b THEN a ELSE b

\* A cycle begins on time, and ends soon after its deadline unless it hangs.
Due == cycleStep = "idle" /\ now >= wake
ClockTicks ==
    /\ now < Horizon /\ ~Due
    /\ cycleStep \in {"idle", "hung"} \/ now < deadline + Timeout
    /\ now' = now + 1
    /\ UNCHANGED <<flows, cycleStep, rowsLocals, watermark, seen, pending, rowsWindow, outcomeOf, counters, rowsReport, rowsSink, rowFaults>>

\* Mutant: the jump over the catch-up bound is not recorded.
JumpUnsaid(oldest) == pending
\* cycle and the head of advance: time beyond the catch-up is given up.
Jump(oldest) == pending \cup {<<watermark, oldest>>}
Oldest == now - SettleBatch - MaxCatchup
BeginCycle ==
    /\ Due
    /\ IF watermark < Oldest THEN watermark' = Oldest /\ pending' = Jump(Oldest) ELSE UNCHANGED <<watermark, pending>>
    /\ cycleStep' = "reading" /\ deadline' = now + MaxCycle /\ limit' = now - SettleBatch /\ earlier' = watermark
    /\ UNCHANGED <<flows, now, wake, seen, rowsWindow, outcomeOf, counters, rowsReport, rowsSink, rowFaults>>

WindowEnd == Lesser(watermark + MaxWindow, limit)
Findings == {r \in flows : r.time <= now /\ Larger(watermark - Overlap, 0) <= r.time /\ r.time <= WindowEnd}

\* An exception in a row ends the cycle, whatever the batch held.
RowsOf(p) == p + 1
Raise ==
    /\ cycleStep' = "closing" /\ outcomeOf' = "incomplete" /\ problems' = RowsOf(problems)
    /\ unread' = {} /\ batch' = <<>> /\ problem' = "none"

\* read_window: rows by identity, the later of two with one identity.
ReadWindow ==
    /\ cycleStep = "reading" /\ watermark < limit
    /\ IF \E r \in Findings : r.shape = "unreadable"
       THEN Raise /\ UNCHANGED counters
       ELSE /\ \E kept \in SUBSET Findings :
                  /\ \A r \in Findings : \E k \in kept : FlowId(k) = FlowId(r)
                  /\ \A k, l \in kept : FlowId(k) = FlowId(l) => k = l
                  /\ unread' = kept /\ counters' = [counters EXCEPT !.read = @ + Cardinality(kept)]
                  /\ problem' = IF kept = Findings THEN "none" ELSE "short_count"
            /\ cycleStep' = "storing" /\ UNCHANGED <<batch, outcomeOf, problems>>
    /\ UNCHANGED <<flows, now, rowsLocals, watermark, seen, pending, last, lastSuccess, heartbeat, rowsSink, rowFaults>>

\* store, one row: its batch first if it would not fit.
Fits == Len(batch) < BatchRows
StoreRow ==
    /\ cycleStep = "storing"
    /\ \E r \in unread :
          CASE FlowId(r) \in seen ->
                 /\ counters' = [counters EXCEPT !.duplicate = @ + 1] /\ unread' = unread \ {r}
                 /\ UNCHANGED <<cycleStep, batch, problem, outcomeOf, problems>>
            [] FlowId(r) \notin seen /\ r.shape = "broken" -> Raise /\ UNCHANGED counters
            [] FlowId(r) \notin seen /\ r.shape = "good" ->
                 /\ Fits /\ batch' = Append(batch, r) /\ unread' = unread \ {r}
                 /\ UNCHANGED <<cycleStep, problem, outcomeOf, counters, problems>>
    /\ UNCHANGED <<flows, now, rowsLocals, watermark, seen, pending, last, lastSuccess, heartbeat, rowsSink, rowFaults>>

InBatch == {batch[i] : i \in DOMAIN batch}
Flush ==
    /\ cycleStep = "storing" /\ batch # <<>> /\ (unread = {} \/ ~Fits)
    /\ \/ /\ stored' = stored \cup {FlowRecord(r) : r \in InBatch}
          /\ seen' = seen \cup {FlowId(r) : r \in InBatch}
          /\ counters' = [counters EXCEPT !.written = @ + Len(batch)]
          /\ batch' = <<>>
          /\ UNCHANGED <<cycleStep, outcomeOf, rowFaults, unread, problem>>
       \/ /\ Fault
          /\ cycleStep' = "closing" /\ outcomeOf' = "ingest_failed"
          /\ unread' = {} /\ batch' = <<>> /\ problem' = "none"
          /\ UNCHANGED <<stored, seen, counters>>
    /\ UNCHANGED <<flows, now, rowsLocals, watermark, pending, rowsReport, gaps, ckpt>>

InFull(p) == p = "none"
EndWindow ==
    /\ cycleStep = "storing" /\ unread = {} /\ batch = <<>>
    /\ problem' = "none"
    /\ IF InFull(problem)
       THEN /\ watermark' = WindowEnd /\ cycleStep' = "reading"
            /\ seen' = {i \in seen : \E r \in flows : FlowId(r) = i /\ r.time >= WindowEnd - 2 * Overlap}
            /\ UNCHANGED <<outcomeOf, problems>>
       ELSE /\ cycleStep' = "closing" /\ outcomeOf' = "incomplete" /\ problems' = RowsOf(problems)
            /\ UNCHANGED <<watermark, seen>>
    /\ UNCHANGED <<flows, now, rowsLocals, pending, unread, batch, counters, last, lastSuccess, heartbeat, rowsSink, rowFaults>>

EndAdvance ==
    /\ cycleStep = "reading" /\ watermark >= limit
    /\ cycleStep' = "closing" /\ outcomeOf' = "ok"
    /\ UNCHANGED <<flows, now, rowsLocals, watermark, seen, pending, rowsWindow, counters, rowsReport, rowsSink, rowFaults>>

\* The checkpoint, with the gaps.
WriteCheckpoint ==
    /\ cycleStep = "closing" /\ cycleStep' = "reporting"
    /\ IF watermark # earlier \/ pending # {}
       THEN \/ /\ gaps' = gaps \cup pending /\ ckpt' = watermark /\ pending' = {}
               /\ UNCHANGED <<outcomeOf, rowFaults>>
            \/ /\ Fault
               /\ outcomeOf' = IF outcomeOf = "ok" THEN "ingest_failed" ELSE outcomeOf
               /\ UNCHANGED <<gaps, ckpt, pending>>
       ELSE UNCHANGED <<gaps, ckpt, pending, outcomeOf, rowFaults>>
    /\ UNCHANGED <<flows, now, rowsLocals, watermark, seen, rowsWindow, counters, rowsReport, stored>>

\* The report, under the lock.
Beat == now
ReportCycle ==
    /\ cycleStep = "reporting" /\ cycleStep' = "idle" /\ wake' = now + Poll
    /\ counters' = [counters EXCEPT ![outcomeOf] = @ + 1]
    /\ last' = outcomeOf /\ heartbeat' = Beat
    /\ lastSuccess' = IF outcomeOf = "ok" THEN now ELSE lastSuccess
    /\ outcomeOf' = "none" /\ deadline' = 0 /\ limit' = 0 /\ earlier' = 0
    /\ UNCHANGED <<flows, now, watermark, seen, pending, rowsWindow, problems, rowsSink, rowFaults>>

\* The timeout bounds the silence between two bytes, not a response.
Hang ==
    /\ cycleStep \in {"reading", "storing"} /\ Fault /\ cycleStep' = "hung"
    /\ UNCHANGED <<flows, now, rowsLocals, watermark, seen, pending, rowsWindow, outcomeOf, counters, rowsReport, rowsSink>>

Healthy == now - heartbeat < 3 * Poll + MaxCycle

\* What a GET answers: metrics copies the counters under the lock, and exactly
\* one result is the latest one.
Results == {"ok", "incomplete", "ingest_failed"}
ScrapeMetrics == [counters |-> counters, problems |-> problems, success |-> lastSuccess,
           latest |-> [r \in Results |-> IF r = last THEN 1 ELSE 0]]
Probe == IF Healthy THEN 200 ELSE 503

\* The liveness probe restarts what is not: memory is lost, and the new process
\* resumes at the checkpoint.
Restart ==
    /\ Probe = 503
    /\ cycleStep' = "idle" /\ wake' = now /\ deadline' = 0 /\ limit' = 0 /\ earlier' = 0
    /\ watermark' = ckpt /\ seen' = {} /\ pending' = {}
    /\ unread' = {} /\ batch' = <<>> /\ problem' = "none" /\ outcomeOf' = "none"
    /\ counters' = Zero /\ problems' = 0 /\ last' = "none" /\ lastSuccess' = 0 /\ heartbeat' = now
    /\ UNCHANGED <<flows, now, rowsSink, rowFaults>>

RowsThread ==
    BeginCycle \/ ReadWindow \/ StoreRow \/ Flush \/ EndWindow \/ EndAdvance \/ WriteCheckpoint \/ ReportCycle
FlowRowsNext == ClockTicks \/ RowsThread \/ Hang \/ Restart
FlowRowsFairness == WF_rowsVars(ClockTicks) /\ WF_rowsVars(RowsThread) /\ WF_rowsVars(Restart)
FlowRowsSpec == FlowRowsInit /\ [][FlowRowsNext]_rowsVars /\ FlowRowsFairness
-----------------------------------------------------------------------------
(* Properties.                                                             *)

RowsTypeOK ==
    /\ cycleStep \in {"idle", "reading", "storing", "closing", "reporting", "hung"}
    /\ outcomeOf \in {"none", "ok", "incomplete", "ingest_failed"} /\ (cycleStep \in {"closing", "reporting"} <=> outcomeOf # "none")
    /\ unread \subseteq flows /\ InBatch \subseteq flows /\ Len(batch) <= BatchRows
    /\ watermark <= Larger(now - SettleBatch, 0) /\ ckpt <= now

\* A row that cannot be stored is never passed over in silence: once a
\* checkpoint is past a row, the row is stored or inside a recorded gap, whether
\* it raised, shared its identity with another, or was in a batch that raised.
HeldNotLost ==
    \A r \in flows : r.time < ckpt =>
       \/ \E s \in stored : s.row = r
       \/ \E g \in gaps : g[1] <= r.time /\ r.time < g[2]

\* It is passed in the end: the catch-up bound gives its time up and rows after
\* it are stored again.
HeldWindowEnds == \A r \in UNION Rowsets : r.shape # "good" => <>(r \in flows => ckpt > r.time)

\* What a scrape can see adds up: rows written or skipped were read first, and a
\* window that is held has its problem counted.
ScrapeAddsUp ==
    /\ ScrapeMetrics.counters.written + ScrapeMetrics.counters.duplicate <= ScrapeMetrics.counters.read
    /\ ScrapeMetrics.problems >= ScrapeMetrics.counters.incomplete
    /\ ScrapeMetrics.latest["incomplete"] = 1 => ScrapeMetrics.problems > 0
    /\ ScrapeMetrics.success > 0 => ScrapeMetrics.counters.ok > 0

\* A thread that makes progress is never restarted for what the console or the
\* sink did to its cycles: holding a window is not being stuck.
RestartsOnlyHung == [][Restart => cycleStep = "hung"]_rowsVars

\* A thread that hangs is restarted.
HungIsRestarted == now + 3 * Poll + MaxCycle <= Horizon /\ cycleStep = "hung" ~> cycleStep # "hung"

\* Only a destination outside makes a row internet traffic, whatever its source
\* is, and a row counted as crossing networks names two of them.
ScopeIsOfDestination ==
    \A s \in stored :
       /\ s.scope = "internet" <=> s.row.dstZone = "External"
       /\ s.scope = "inter_network" => s.row.inNet = NoTime \/ s.row.outNet = NoTime \/ s.row.inNet # s.row.outNet

\* Rows that cannot become records are accounted for, and every scrape adds up.
RowsSafe == RowsTypeOK /\ HeldNotLost /\ ScrapeAddsUp /\ ScopeIsOfDestination
=============================================================================
