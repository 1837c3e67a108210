----------------------------- MODULE DeliveryDrill -----------------------------
(***************************************************************************)
(* The delivery drill of scripts/logging: numbered-fixture.py writes       *)
(* numbered lines, a stock collector on the node reads and ships them,     *)
(* verify-numbered.py asks the log store for them and counts, and          *)
(* measure-input.py samples the collector's counters twice.  The collector *)
(* may be killed, losing what it had read and not shipped, or reading      *)
(* again what it had; an acknowledgement may be lost and a row shipped     *)
(* again; a long line may be cut; the fixture's pod may be restarted and   *)
(* count from nought.  A line takes one unit of time and of volume.        *)
(***************************************************************************)
EXTENDS Integers, FiniteSets, Sequences

CONSTANTS
    Planned,   \* --expected, and FIXTURE_COUNT
    Slack,      \* of the row limit
    LongEvery,  \* every so many lines a long one
    MaxRows, MaxLosses \* bounds

ASSUME DrillAssumption == Planned \in Nat \ {0} /\ {Slack, MaxRows, MaxLosses} \subseteq Nat /\ LongEvery \in Nat \ {0}

VARIABLES
    lines,      \* what the fixture has written: the numbers, in order
    next,       \* the number it writes next
    offset,     \* lines the collector has read
    buffer,     \* lines it has read and not shipped
    process,    \* its start time and counters
    rows,       \* the store: rows, with the line each is of
    shipments,  \* rows ever stored
    losses,     \* history: times lines were lost
    drillFaults,
    sampled,    \* the first sample, with what had been read and shipped in all
    measured,   \* of the last measurement
    totals      \* history: lines read and shipped by all processes
drillVars == <<lines, next, offset, buffer, process, rows, shipments, losses, drillFaults, sampled, measured, totals>>
pipeline == <<lines, next, offset, buffer, process, rows, shipments, losses, drillFaults, totals>>

NoRows == <<>>
DrillInit ==
    /\ lines = <<>> /\ next = 0 /\ offset = 0 /\ buffer = <<>>
    /\ process = [started |-> 1, read |-> 0, sent |-> 0]
    /\ rows = {} /\ shipments = 0 /\ losses = 0 /\ drillFaults = 0
    /\ sampled = NoRows /\ measured = NoRows
    /\ totals = [read |-> 0, sent |-> 0]
-----------------------------------------------------------------------------
(* The fixture and the collector.                                          *)

LongLine(n) == n % LongEvery = 0
\* for n in range(count).
NumberOf(n) == n
WriteLine ==
    /\ next < Planned /\ Len(lines) < MaxRows
    /\ lines' = Append(lines, NumberOf(next)) /\ next' = next + 1
    /\ UNCHANGED <<offset, buffer, process, rows, shipments, losses, drillFaults, sampled, measured, totals>>
ReadLine ==
    /\ offset < Len(lines) /\ offset' = offset + 1
    /\ buffer' = Append(buffer, offset')
    /\ process' = [process EXCEPT !.read = @ + 1] /\ totals' = [totals EXCEPT !.read = @ + 1]
    /\ UNCHANGED <<lines, next, rows, shipments, losses, drillFaults, sampled, measured>>
Stored(whole) ==
    /\ shipments' = shipments + 1
    /\ rows' = rows \cup {[id |-> shipments', line |-> Head(buffer), n |-> lines[Head(buffer)], whole |-> whole]}
    /\ process' = [process EXCEPT !.sent = @ + 1] /\ totals' = [totals EXCEPT !.sent = @ + 1]
ShipLine ==
    /\ buffer # <<>> /\ Stored(TRUE) /\ buffer' = Tail(buffer)
    /\ UNCHANGED <<lines, next, offset, losses, drillFaults, sampled, measured>>
LossKinds == drillFaults < MaxLosses /\ drillFaults' = drillFaults + 1
\* The row is stored but not acknowledged, or a long line is cut.
ShipBadly ==
    /\ buffer # <<>> /\ LossKinds
    /\ \/ Stored(TRUE) /\ buffer' = buffer
       \/ LongLine(lines[Head(buffer)]) /\ Stored(FALSE) /\ buffer' = Tail(buffer)
    /\ UNCHANGED <<lines, next, offset, losses, sampled, measured>>
KillCollector ==
    /\ LossKinds
    /\ process' = [started |-> process.started + 1, read |-> 0, sent |-> 0] /\ buffer' = <<>>
    /\ \/ losses' = losses + (IF buffer = <<>> THEN 0 ELSE 1) /\ offset' = offset
       \/ losses' = losses /\ offset' = offset - Len(buffer)
    /\ UNCHANGED <<lines, next, rows, shipments, sampled, measured, totals>>
RestartFixture ==
    /\ LossKinds /\ next' = 0
    /\ UNCHANGED <<lines, offset, buffer, process, rows, shipments, losses, sampled, measured, totals>>
-----------------------------------------------------------------------------
(* verify-numbered.py on the lines from one to another.                    *)

RowLimit == Planned * 2 + Slack
AskedFor(from, to) == {r \in rows : from <= r.line /\ r.line < to}
CountOf(answer, n) == Cardinality({r \in answer : r.n = n})
Numbers(answer) == {r.n : r \in answer}

Missing(answer) == (0 .. Planned - 1) \ Numbers(answer)
Unexpected(answer) == Numbers(answer) \ (0 .. Planned - 1)
Duplicates(answer) == Cardinality(answer) - Cardinality(Numbers(answer))

\* A number that continues the last range extends it.
Extend(ranges, n) ==
    IF ranges # <<>> /\ ranges[Len(ranges)][2] = n - 1
    THEN [ranges EXCEPT ![Len(ranges)][2] = n] ELSE Append(ranges, <<n, n>>)
MissingRanges(missing) ==
    LET upTo[n \in 0 .. Planned] ==
            IF n = 0 THEN <<>> ELSE IF n - 1 \in missing THEN Extend(upTo[n - 1], n - 1) ELSE upTo[n - 1]
    IN upTo[Planned]

\* The query's limit, the assertions on every row, the counts.
RowsCounted(answer) == Cardinality(answer) < RowLimit /\ \A r \in answer : r.whole
Passes(answer) ==
    RowsCounted(answer) /\ Missing(answer) = {} /\ Unexpected(answer) = {} /\ Duplicates(answer) = 0
-----------------------------------------------------------------------------
(* measure-input.py.                                                       *)

FirstSample ==
    /\ sampled = NoRows /\ sampled' = [of |-> process, totals |-> totals]
    /\ measured' = NoRows /\ UNCHANGED pipeline

\* Mutant: the second sample may be another process's.
AnyProcess == TRUE
\* "Collector restarted; discard the interval."
SameProcess == process.started = sampled.of.started
SecondSample ==
    /\ sampled # NoRows
    /\ measured' = IF SameProcess
                   THEN [read |-> process.read - sampled.of.read, sent |-> process.sent - sampled.of.sent,
                         truth |-> [read |-> totals.read - sampled.totals.read, sent |-> totals.sent - sampled.totals.sent]]
                   ELSE NoRows
    /\ sampled' = NoRows
    /\ UNCHANGED pipeline

DrillNext ==
    \/ WriteLine \/ ReadLine \/ ShipLine \/ ShipBadly \/ KillCollector \/ RestartFixture
    \/ FirstSample \/ SecondSample
DrillSpec == DrillInit /\ [][DrillNext]_drillVars
-----------------------------------------------------------------------------
(* Properties.                                                             *)

DrillTypeOK ==
    /\ lines \in Seq(0 .. Planned - 1) /\ next \in 0 .. Planned /\ offset \in 0 .. Len(lines)
    /\ \A i \in DOMAIN buffer : buffer[i] \in 1 .. offset
    /\ \A r \in rows : r.line \in 1 .. Len(lines) /\ r.n = lines[r.line]
    /\ Cardinality(rows) = shipments /\ losses <= drillFaults /\ drillFaults \in 0 .. MaxLosses
    /\ \A from, to \in 1 .. MaxRows + 1 : Unexpected(AskedFor(from, to)) = {}

\* A drill that passes saw every number of the run stored, once and whole, in its
\* window, whatever was retried, read again or written again.
PassedIsExact ==
    \A from, to \in 1 .. MaxRows + 1 :
       Passes(AskedFor(from, to)) =>
          \A n \in 0 .. Planned - 1 :
             /\ Cardinality({r \in rows : r.n = n /\ r.line \in from .. to - 1}) = 1
             /\ \A r \in rows : r.n = n /\ r.line \in from .. to - 1 => r.whole

\* "One range per loss event, such as each collector kill": once the run is written and
\* the collector has caught up, there are no more ranges than losses, they keep apart,
\* and between them they are the missing numbers.
RangePerLoss ==
    next = Planned /\ buffer = <<>> /\ offset = Len(lines) =>
       LET missing == Missing(AskedFor(1, MaxRows + 1))
           ranges == MissingRanges(missing)
       IN /\ Len(ranges) <= losses
          /\ UNION {ranges[i][1] .. ranges[i][2] : i \in DOMAIN ranges} = missing
          /\ \A i \in 1 .. Len(ranges) - 1 : ranges[i + 1][1] > ranges[i][2] + 1

\* What is measured is what was read and shipped between the samples.
MeasuredIsReal == measured # NoRows => measured.truth = [read |-> measured.read, sent |-> measured.sent]

\* A drill passes on exactly the rows that were written, names every loss, and measures one
\* process of the collector.
DrillSafe == DrillTypeOK /\ PassedIsExact /\ RangePerLoss /\ MeasuredIsReal
=============================================================================
