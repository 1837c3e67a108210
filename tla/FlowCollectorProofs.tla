------------------------- MODULE FlowCollectorProofs -------------------------
(***************************************************************************)
(* The collector's safety for every value of the constants: the watermark  *)
(* never covers a row that is neither stored nor inside a recorded gap.    *)
(*                                                                         *)
(* Coverage is not inductive.  Four more facts carry it: nothing is        *)
(* watermarked before it settled (Clocks), a cycle's own times bound how   *)
(* far back it reads (CycleClocks), a prompt row is listed until it        *)
(* outlives Retention (Listing), and the window being stored holds every   *)
(* row owed in it, or is capped at its oldest row (WindowInv).             *)
(***************************************************************************)
EXTENDS FlowCollector, FiniteSetTheorems, TLAPS

Settled(mark) == mark # None => mark + Settle <= now

Clocks ==
    /\ Settled(watermark) /\ Settled(ckpt) /\ Settled(visible)
    /\ base # None => base + Lookback <= now
    /\ ckpt # None => base # None
    /\ watermark # None => base # None
    /\ visible # None => ckpt # None

CycleClocks ==
    /\ pc \in {"reading", "storing"} =>
        /\ watermark # None
        /\ endLimit + Settle <= now
        /\ deadline = endLimit + Settle + MaxCycle
        /\ endLimit - MaxCatchup <= watermark
    /\ pc = "storing" => watermark < endLimit
    /\ pc = "closing" => watermark # None

Listing ==
    /\ seen \subseteq stored
    /\ \A f \in prompt : f \in listed \/ now - rowTime[f] > Retention

WindowInv ==
    pc = "storing" /\ problem \in {"none", "capped"} =>
        \A f \in Owed : watermark < rowTime[f] /\ rowTime[f] <= WindowEnd =>
            \/ f \in rows
            \/ problem = "capped" /\ \A g \in rows : rowTime[f] <= rowTime[g]

IInv == TypeOK /\ Clocks /\ CycleClocks /\ Listing /\ WindowInv
        /\ MemoryCoverage /\ Coverage

-----------------------------------------------------------------------------
(* Type correctness.                                                       *)

\* The window being read is a finite set of rows, so its size, the rows wanted
\* from it and the pages they take are natural numbers.
LEMMA WindowSizes ==
    ASSUME TypeOK
    PROVE  /\ Found \subseteq Appeared /\ IsFiniteSet(Found)
           /\ Cardinality(Found) \in Nat /\ Wanted \in Nat
           /\ PagesNeeded \in Nat
<1>1. Found \subseteq Appeared
  BY DEF TypeOK, Found, Between
<1>2. IsFiniteSet(Found)
  BY <1>1, ConfigAssumption, FS_Subset DEF Appeared
<1>3. Cardinality(Found) \in Nat
  BY <1>2, FS_CardinalityType
<1>4. Wanted \in Nat
  BY <1>3, ConfigAssumption DEF Wanted, Smaller, OverCap
<1>5. (Wanted + PageSize - 1) \div PageSize \in Int
  BY <1>4, ConfigAssumption
<1>6. PagesNeeded \in Nat
  BY <1>5 DEF PagesNeeded, Larger
<1> QED
  BY <1>1, <1>2, <1>3, <1>4, <1>6

LEMMA TypeInit == Init => TypeOK
BY ConfigAssumption, LookbackAssumption DEF Init, TypeOK, Time, Appeared

\* The budget of a cycle and the narrowed and doubled windows keep their types.
LEMMA WidthTypes ==
    ASSUME TypeOK
    PROVE  /\ PageBudget \in Nat
           /\ NarrowedWidth \in MinWindow .. MaxWindow
           /\ Doubled \in MinWindow .. MaxWindow
<1>1. (QueryCap \div PageSize) \in Nat
  BY ConfigAssumption
<1>2. PageBudget \in Nat
  BY <1>1, ConfigAssumption DEF PageBudget, Larger
<1>3. (windowMs \div 2) \in Int /\ windowMs \div 2 <= MaxWindow
  BY ConfigAssumption DEF TypeOK
<1>4. NarrowedWidth \in MinWindow .. MaxWindow
  BY <1>3, ConfigAssumption DEF NarrowedWidth, Larger, TypeOK
<1>5. Doubled \in MinWindow .. MaxWindow
  BY ConfigAssumption DEF Doubled, Smaller, TypeOK
<1> QED
  BY <1>2, <1>4, <1>5

LEMMA TypeStep == TypeOK /\ CycleClocks /\ [Next]_vars => TypeOK'
<1> SUFFICES ASSUME TypeOK, CycleClocks, [Next]_vars PROVE TypeOK'
  OBVIOUS
<1> USE ConfigAssumption, LookbackAssumption
    DEF TypeOK, Time, Appeared, vars, console, sink, memory, locals, window
<1>1. CASE Tick
  BY <1>1 DEF Tick
<1>2. ASSUME NEW f \in Flows, RowAppears(f) PROVE TypeOK'
  BY <1>2 DEF RowAppears
<1>3. ASSUME NEW f \in Flows, RowExpires(f) PROVE TypeOK'
  BY <1>3 DEF RowExpires
<1>4. CASE CheckpointVisible
  BY <1>4 DEF CheckpointVisible
<1>5. CASE Kill \/ Exit
  BY <1>5 DEF Kill, Exit, Gone, Fault
<1>6. CASE Sigterm \/ Start
  BY <1>6 DEF Sigterm, Start, Fault
<1>7. CASE BeginCycle
  <2>1. Restored \in Nat
    BY DEF Restored
  <2>2. QED
    BY <1>7, <2>1, WidthTypes
    DEF BeginCycle, CatchupGap, CycleWidth, Gap, GapRecords
<1>8. CASE RestoreFails
  BY <1>8 DEF RestoreFails, Fault
<1>9. CASE NarrowWindow
  BY <1>9, WidthTypes DEF NarrowWindow, Spent
<1>10. CASE ReadWindow
  BY <1>10, WindowSizes DEF ReadWindow, NewestOf
<1>11. ASSUME NEW n \in 0 .. Cardinality(Flows), ReadPart(n) PROVE TypeOK'
  <2>1. n \in Nat
    BY FS_CardinalityType
  <2>2. pages' \in Nat /\ rows' \subseteq Found
    BY <1>11, <2>1 DEF ReadPart, NewestOf
  <2>3. faults' \in Nat /\ problem' \in {"cycle_budget", "incomplete"}
    BY <1>11 DEF ReadPart, Fault
  <2>4. QED
    BY <1>11, <2>2, <2>3, WindowSizes DEF ReadPart
<1>12. CASE CycleFails
  BY <1>12 DEF CycleFails, Fault
<1>13. CASE BatchAccepted \/ BatchFails
  BY <1>13 DEF BatchAccepted, BatchFails, Fault, NewestOf, Unsent
<1>14. CASE CompleteWindow
  <2>1. WindowEnd \in Nat
    BY <1>14 DEF CompleteWindow, WindowEnd, Smaller, CycleClocks
  <2>2. pending' \subseteq GapRecords
    BY <1>14 DEF CompleteWindow, CapGap, Gap, GapRecords
  <2>3. QED
    BY <1>14, <2>1, <2>2, WidthTypes DEF CompleteWindow, SeenKept
<1>15. CASE HoldWindow \/ AdvanceDone
  BY <1>15 DEF HoldWindow, AdvanceDone
<1>16. CASE Checkpoint \/ CheckpointFails \/ NoCheckpoint
  BY <1>16
  DEF Checkpoint, CheckpointFails, NoCheckpoint, EndCycle, Fault,
      CheckpointWithGaps, ResultOfLostWrite
<1>17. CASE Finished \/ UNCHANGED vars
  BY <1>17 DEF Finished
<1> QED
  BY <1>1, <1>2, <1>3, <1>4, <1>5, <1>6, <1>7, <1>8, <1>9, <1>10, <1>11, <1>12,
     <1>13, <1>14, <1>15, <1>16, <1>17 DEF Next, Collector, Environment

-----------------------------------------------------------------------------
(* The clocks and the console's listing.                                   *)

LEMMA ClocksStep == IInv /\ [Next]_vars => Clocks' /\ CycleClocks'
<1> SUFFICES ASSUME IInv, [Next]_vars PROVE Clocks' /\ CycleClocks'
  OBVIOUS
<1> USE ConfigAssumption, LookbackAssumption
    DEF IInv, TypeOK, Time, Clocks, CycleClocks, Settled, vars, console, sink,
        memory, locals, window
<1>1. CASE Tick
  BY <1>1 DEF Tick
<1>2. ASSUME NEW f \in Flows, RowAppears(f) \/ RowExpires(f)
      PROVE  Clocks' /\ CycleClocks'
  BY <1>2 DEF RowAppears, RowExpires
<1>3. CASE CheckpointVisible
  BY <1>3 DEF CheckpointVisible
<1>4. CASE Kill \/ Exit
  BY <1>4 DEF Kill, Exit, Gone
<1>5. CASE Sigterm \/ Start \/ RestoreFails
  BY <1>5 DEF Sigterm, Start, RestoreFails
<1>6. CASE BeginCycle
  <2>1. Restored \in Nat /\ Restored + Settle <= now
    BY DEF Restored
  <2>2. QED
    BY <1>6, <2>1 DEF BeginCycle, Restored
<1>7. CASE NarrowWindow
  BY <1>7 DEF NarrowWindow
<1>8. CASE ReadWindow
  BY <1>8 DEF ReadWindow, InWindow
<1>9. ASSUME NEW n \in 0 .. Cardinality(Flows), ReadPart(n)
      PROVE  Clocks' /\ CycleClocks'
  BY <1>9 DEF ReadPart, InWindow
<1>10. CASE CycleFails
  BY <1>10 DEF CycleFails, InWindow
<1>11. CASE BatchAccepted \/ BatchFails
  BY <1>11 DEF BatchAccepted, BatchFails
<1>12. CASE CompleteWindow
  BY <1>12 DEF CompleteWindow, WindowEnd, Smaller
<1>13. CASE HoldWindow \/ AdvanceDone
  BY <1>13 DEF HoldWindow, AdvanceDone
<1>14. CASE Checkpoint \/ CheckpointFails \/ NoCheckpoint
  BY <1>14 DEF Checkpoint, CheckpointFails, NoCheckpoint, EndCycle
<1>15. CASE Finished \/ UNCHANGED vars
  BY <1>15 DEF Finished
<1> QED
  BY <1>1, <1>2, <1>3, <1>4, <1>5, <1>6, <1>7, <1>8, <1>9, <1>10, <1>11, <1>12,
     <1>13, <1>14, <1>15 DEF Next, Collector, Environment

\* Only RowAppears, RowExpires and the clock touch what the console lists, and
\* `seen` only ever grows by rows that were accepted.
LEMMA ListingStep == IInv /\ [Next]_vars => Listing'
<1> SUFFICES ASSUME IInv, [Next]_vars PROVE Listing'
  OBVIOUS
<1> USE ConfigAssumption, LookbackAssumption
    DEF IInv, TypeOK, Time, Listing, Appeared, vars, console, sink, memory,
        locals, window
<1>1. CASE Tick
  BY <1>1 DEF Tick
<1>2. ASSUME NEW f \in Flows, RowAppears(f) PROVE Listing'
  BY <1>2 DEF RowAppears
<1>3. ASSUME NEW f \in Flows, RowExpires(f) PROVE Listing'
  BY <1>3 DEF RowExpires
<1>4. CASE Kill \/ Exit
  BY <1>4 DEF Kill, Exit, Gone
<1>5. CASE CheckpointVisible \/ Sigterm \/ Start \/ RestoreFails \/ BeginCycle
  BY <1>5 DEF CheckpointVisible, Sigterm, Start, RestoreFails, BeginCycle
<1>6. CASE NarrowWindow \/ ReadWindow \/ CycleFails
  BY <1>6 DEF NarrowWindow, ReadWindow, CycleFails
<1>7. ASSUME NEW n \in 0 .. Cardinality(Flows), ReadPart(n) PROVE Listing'
  BY <1>7 DEF ReadPart
<1>8. CASE BatchAccepted \/ BatchFails
  BY <1>8 DEF BatchAccepted, BatchFails
<1>9. CASE CompleteWindow \/ HoldWindow \/ AdvanceDone
  BY <1>9 DEF CompleteWindow, SeenKept, HoldWindow, AdvanceDone
<1>10. CASE Checkpoint \/ CheckpointFails \/ NoCheckpoint
  BY <1>10 DEF Checkpoint, CheckpointFails, NoCheckpoint, EndCycle
<1>11. CASE Finished \/ UNCHANGED vars
  BY <1>11 DEF Finished
<1> QED
  BY <1>1, <1>2, <1>3, <1>4, <1>5, <1>6, <1>7, <1>8, <1>9, <1>10, <1>11
  DEF Next, Collector, Environment
-----------------------------------------------------------------------------
(* What the window being stored holds.                                     *)

\* A row owed in the window being read has not expired: even a window that
\* starts at the catch-up bound, read at the end of its cycle, is younger than
\* Retention.  The console therefore returns it.
LEMMA OwedIsFound ==
    ASSUME IInv, InWindow, now < deadline, NEW f \in Owed,
           watermark < rowTime[f], rowTime[f] <= WindowEnd
    PROVE  f \in Found
<1>1. watermark \in Nat /\ rowTime[f] \in Nat /\ f \in prompt
  BY DEF IInv, TypeOK, Time, CycleClocks, InWindow, Appeared, Owed
<1>2. now - rowTime[f] <= Retention
  BY <1>1, ConfigAssumption, RetentionAssumption
  DEF IInv, TypeOK, CycleClocks, InWindow
<1>3. f \in listed
  BY <1>1, <1>2, ConfigAssumption DEF IInv, Listing, TypeOK
<1>4. WindowStart <= rowTime[f]
  BY <1>1, ConfigAssumption DEF WindowStart, Larger
<1> QED
  BY <1>3, <1>4 DEF Found, Between

LEMMA ReadWindowInv == IInv /\ ReadWindow => WindowInv'
<1> SUFFICES ASSUME IInv, ReadWindow, NEW f \in Owed,
                    watermark < rowTime[f], rowTime[f] <= WindowEnd
             PROVE  \/ f \in rows'
                    \/ problem' = "capped" /\ \A g \in rows' : rowTime[f] <= rowTime[g]
  BY DEF ReadWindow, WindowInv, Owed, WindowEnd, console, memory, locals
<1>1. f \in Found
  BY OwedIsFound, ConfigAssumption DEF ReadWindow, Spent, IInv, TypeOK
<1>2. /\ rows' \subseteq Found
      /\ \A g \in rows', h \in Found \ rows' : rowTime[g] >= rowTime[h]
      /\ Cardinality(rows') = Wanted
  BY DEF ReadWindow, NewestOf
<1>3. \A h \in Found : rowTime[h] \in Nat
  BY WindowSizes DEF IInv, TypeOK, Time, Appeared
<1>4. CASE OverCap
  BY <1>1, <1>2, <1>3, <1>4 DEF ReadWindow
<1>5. CASE ~OverCap
  <2>1. rows' = Found
    BY <1>2, <1>5, WindowSizes, FS_Subset DEF Wanted, IInv
  <2>2. QED
    BY <1>1, <2>1
<1> QED
  BY <1>4, <1>5

LEMMA WindowStep == IInv /\ [Next]_vars => WindowInv'
<1> SUFFICES ASSUME IInv, [Next]_vars PROVE WindowInv'
  OBVIOUS
<1> USE DEF vars, console, sink, memory, locals, window
\* Steps that leave the process storing the window it has, or not storing.
<1>1. ASSUME NEW f \in Flows, RowAppears(f) PROVE WindowInv'
  <2> SUFFICES ASSUME pc = "storing", problem \in {"none", "capped"}, NEW g \in Owed',
                      watermark < rowTime'[g], rowTime'[g] <= WindowEnd
               PROVE  \/ g \in rows
                      \/ problem = "capped" /\ \A h \in rows : rowTime'[g] <= rowTime'[h]
    BY <1>1 DEF RowAppears, WindowInv, WindowEnd
  <2>1. g # f
    <3> SUFFICES ASSUME g = f PROVE FALSE
      OBVIOUS
    <3>1. f \in prompt' /\ f \notin prompt
      BY <1>1 DEF Owed, RowAppears, IInv, TypeOK, Appeared
    <3>2. PICK d \in Delays : d <= now /\ rowTime'[f] = now - d /\ d < Settle
      BY <1>1, <3>1 DEF RowAppears, IInv, TypeOK
    <3>3. WindowEnd <= now - Settle
      BY ConfigAssumption, LookbackAssumption
      DEF IInv, TypeOK, Time, CycleClocks, WindowEnd, Smaller
    <3>4. QED
      BY <3>2, <3>3, ConfigAssumption, LookbackAssumption
      DEF IInv, TypeOK, Time, CycleClocks, WindowEnd, Smaller
  <2>2. rowTime'[g] = rowTime[g] /\ g \in Owed
    BY <1>1, <2>1 DEF RowAppears, Owed, IInv, TypeOK
  <2>3. \A h \in rows : rowTime'[h] = rowTime[h]
    BY <1>1 DEF RowAppears, IInv, TypeOK, Appeared
  <2>4. QED
    BY <2>2, <2>3 DEF IInv, WindowInv
<1>2. ASSUME NEW f \in Flows, RowExpires(f) PROVE WindowInv'
  BY <1>2 DEF RowExpires, IInv, WindowInv, WindowEnd, Owed
<1>3. CASE Tick \/ CheckpointVisible \/ Sigterm \/ RestoreFails
  BY <1>3
  DEF Tick, CheckpointVisible, Sigterm, RestoreFails, IInv, WindowInv, WindowEnd, Owed
<1>4. CASE Kill \/ Exit \/ Start \/ BeginCycle
  BY <1>4 DEF Kill, Exit, Gone, Start, BeginCycle, WindowInv
<1>5. CASE NarrowWindow \/ CycleFails
  BY <1>5 DEF NarrowWindow, InWindow, CycleFails, WindowInv
<1>6. CASE ReadWindow
  BY <1>6, ReadWindowInv
<1>7. ASSUME NEW n \in 0 .. Cardinality(Flows), ReadPart(n) PROVE WindowInv'
  BY <1>7 DEF ReadPart, WindowInv
<1>8. CASE BatchAccepted
  BY <1>8 DEF BatchAccepted, IInv, WindowInv, WindowEnd, Owed
<1>9. CASE BatchFails \/ CompleteWindow \/ HoldWindow \/ AdvanceDone
  BY <1>9 DEF BatchFails, CompleteWindow, HoldWindow, AdvanceDone, WindowInv
<1>10. CASE Checkpoint \/ CheckpointFails \/ NoCheckpoint
  BY <1>10 DEF Checkpoint, CheckpointFails, NoCheckpoint, EndCycle, WindowInv
<1>11. CASE Finished \/ UNCHANGED vars
  BY <1>11 DEF Finished, IInv, WindowInv, WindowEnd, Owed
<1> QED
  BY <1>1, <1>2, <1>3, <1>4, <1>5, <1>6, <1>7, <1>8, <1>9, <1>10, <1>11
  DEF Next, Collector, Environment
-----------------------------------------------------------------------------
(* The watermark and the checkpoints.                                      *)

\* A row that appears now is newer than everything settled, so no mark is past
\* it, and the other rows keep their times.
LEMMA NewRowIsAhead ==
    ASSUME IInv, NEW f \in Flows, RowAppears(f), NEW mark, Settled(mark),
           mark \in Time, NEW g \in Owed', mark # None, rowTime'[g] <= mark
    PROVE  g \in Owed /\ rowTime'[g] = rowTime[g]
<1>1. g # f
  <2> SUFFICES ASSUME g = f PROVE FALSE
    OBVIOUS
  <2>1. f \in prompt' /\ f \notin prompt
    BY DEF Owed, RowAppears, IInv, TypeOK, Appeared
  <2>2. PICK d \in Delays : d <= now /\ rowTime'[f] = now - d /\ d < Settle
    BY <2>1 DEF RowAppears, IInv, TypeOK
  <2>3. QED
    BY <2>2, ConfigAssumption, LookbackAssumption DEF IInv, TypeOK, Time, Settled
<1> QED
  BY <1>1 DEF RowAppears, Owed, IInv, TypeOK

LEMMA BeginCoverage == IInv /\ BeginCycle => MemoryCoverage' /\ Coverage'
<1> SUFFICES ASSUME IInv, BeginCycle PROVE MemoryCoverage' /\ Coverage'
  OBVIOUS
<1> USE ConfigAssumption, LookbackAssumption
    DEF IInv, TypeOK, Time, Clocks, Settled, Appeared
<1> DEFINE oldest == now - Settle - MaxCatchup
<1>1. Restored \in Nat
  BY DEF Restored
\* A run that finds no checkpoint owes no more than before, or starts at base.
<1>2. ckpt # None \/ visible # None \/ watermark # None => Owed' \subseteq Owed
  BY DEF BeginCycle, Owed, console
<1>3. Coverage'
  BY <1>2 DEF BeginCycle, Coverage, CoveredUpTo, InGap, console, sink
<1>4. /\ gaps' = gaps /\ pending \subseteq pending'
      /\ rowTime' = rowTime /\ stored' = stored
  BY DEF BeginCycle, CatchupGap, console, sink
<1>5. ASSUME NEW f \in Owed', rowTime[f] <= Restored
      PROVE  f \in stored \/ InGap(f, gaps \cup pending)
  <2>1. rowTime[f] \in Nat /\ base' # None /\ base' < rowTime[f]
    BY <1>4 DEF Owed, BeginCycle, console
  <2>2. CASE watermark = None /\ visible = None
    BY <1>5, <2>1, <2>2 DEF BeginCycle, Restored
  <2>3. CASE watermark # None
    BY <1>2, <1>5, <2>3 DEF Restored, MemoryCoverage, CoveredUpTo
  <2>4. CASE watermark = None /\ visible # None
    BY <1>2, <1>5, <2>4 DEF Restored, Coverage, CoveredUpTo, InGap
  <2> QED
    BY <2>2, <2>3, <2>4
<1>6. ASSUME NEW f \in Owed', rowTime[f] <= watermark', Restored < rowTime[f]
      PROVE  InGap(f, gaps \cup pending')
  <2>1. rowTime[f] \in Nat
    BY <1>4 DEF Owed, BeginCycle, console
  <2>2. /\ Restored < oldest /\ watermark' = oldest
        /\ Gap(Restored, oldest, "beyond_catchup") \in pending'
    BY <1>1, <1>6, <2>1 DEF BeginCycle, CatchupGap
  <2>3. QED
    BY <1>1, <1>6, <2>1, <2>2 DEF InGap, Gap
<1>7. MemoryCoverage'
  <2> SUFFICES ASSUME NEW f \in Owed', rowTime[f] <= watermark'
               PROVE  f \in stored \/ InGap(f, gaps \cup pending')
    BY <1>4 DEF MemoryCoverage, CoveredUpTo, InGap
  <2>1. rowTime[f] \in Nat
    BY <1>4 DEF Owed, BeginCycle, console
  <2>2. CASE rowTime[f] <= Restored
    BY <1>4, <1>5, <2>2 DEF InGap
  <2>3. CASE ~(rowTime[f] <= Restored)
    <3>1. Restored < rowTime[f]
      BY <1>1, <2>1, <2>3
    <3>2. QED
      BY <1>6, <3>1
  <2> QED
    BY <2>2, <2>3
<1> QED
  BY <1>3, <1>7

\* A completed window covers every row owed in it: what was read is stored, and
\* what the cap cut off lies in the recorded gap.
LEMMA CompleteCoverage == IInv /\ CompleteWindow => MemoryCoverage'
<1> SUFFICES ASSUME IInv, CompleteWindow, NEW f \in Owed, rowTime[f] <= watermark'
             PROVE  f \in stored \/ InGap(f, gaps \cup pending')
  BY DEF CompleteWindow, MemoryCoverage, CoveredUpTo, Owed, InGap, console, sink
<1>1. rowTime[f] \in Nat /\ watermark \in Nat /\ watermark' = WindowEnd
  BY DEF CompleteWindow, IInv, TypeOK, Time, CycleClocks, Owed, Appeared
<1>2. pending \subseteq pending'
  BY DEF CompleteWindow, CapGap
<1>3. CASE rowTime[f] <= watermark
  BY <1>1, <1>2, <1>3, ConfigAssumption DEF IInv, MemoryCoverage, CoveredUpTo, InGap
<1>4. CASE watermark < rowTime[f] /\ f \in rows
  BY <1>4 DEF CompleteWindow, StoredInFull, Unsent, IInv, Listing
<1>5. CASE watermark < rowTime[f] /\ f \notin rows
  <2>1. problem = "capped" /\ \A g \in rows : rowTime[f] <= rowTime[g]
    BY <1>1, <1>5 DEF CompleteWindow, StoredInFull, IInv, WindowInv
  <2>2. PICK g \in rows : Gap(watermark, rowTime[g], "query_cap") \in pending'
    BY <2>1 DEF CompleteWindow, CapGap
  <2>3. QED
    BY <1>1, <1>5, <2>1, <2>2 DEF InGap, Gap
<1> QED
  BY <1>1, <1>3, <1>4, <1>5

LEMMA CoverageStep == IInv /\ [Next]_vars => MemoryCoverage' /\ Coverage'
<1> SUFFICES ASSUME IInv, [Next]_vars PROVE MemoryCoverage' /\ Coverage'
  OBVIOUS
<1> USE DEF vars, console, sink, memory, locals, window, MemoryCoverage, Coverage,
            CoveredUpTo, InGap
<1>1. ASSUME NEW f \in Flows, RowAppears(f) PROVE MemoryCoverage' /\ Coverage'
  <2>1. UNCHANGED <<stored, gaps, pending, ckpt, visible, watermark>>
    BY <1>1 DEF RowAppears
  <2>2. ASSUME NEW mark \in {ckpt, visible, watermark}, mark # None,
               NEW g \in Owed', rowTime'[g] <= mark
        PROVE  g \in Owed /\ rowTime'[g] = rowTime[g]
    BY <1>1, <2>2, NewRowIsAhead DEF IInv, Clocks, TypeOK
  <2>3. Coverage'
    BY <2>1, <2>2 DEF IInv
  <2>4. MemoryCoverage'
    BY <2>1, <2>2 DEF IInv
  <2>5. QED
    BY <2>3, <2>4
<1>2. ASSUME NEW f \in Flows, RowExpires(f) PROVE MemoryCoverage' /\ Coverage'
  BY <1>2 DEF RowExpires, Owed, IInv
<1>3. CASE Tick \/ Sigterm \/ Start \/ RestoreFails
  BY <1>3 DEF Tick, Sigterm, Start, RestoreFails, Owed, IInv
<1>4. CASE CheckpointVisible
  BY <1>4 DEF CheckpointVisible, Owed, IInv
<1>5. CASE Kill \/ Exit
  BY <1>5 DEF Kill, Exit, Gone, Owed, IInv
<1>6. CASE BeginCycle
  BY <1>6, BeginCoverage
<1>7. CASE NarrowWindow \/ ReadWindow \/ CycleFails
  BY <1>7 DEF NarrowWindow, ReadWindow, CycleFails, Owed, IInv
<1>8. ASSUME NEW n \in 0 .. Cardinality(Flows), ReadPart(n)
      PROVE  MemoryCoverage' /\ Coverage'
  BY <1>8 DEF ReadPart, Owed, IInv
<1>9. CASE BatchAccepted \/ BatchFails
  BY <1>9 DEF BatchAccepted, BatchFails, Owed, IInv
<1>10. CASE CompleteWindow
  BY <1>10, CompleteCoverage DEF CompleteWindow, Owed, IInv
<1>11. CASE HoldWindow \/ AdvanceDone
  BY <1>11 DEF HoldWindow, AdvanceDone, Owed, IInv
<1>12. CASE Checkpoint \/ CheckpointFails \/ NoCheckpoint
  BY <1>12
  DEF Checkpoint, CheckpointFails, NoCheckpoint, EndCycle, CheckpointWithGaps, Owed, IInv
<1>13. CASE Finished \/ UNCHANGED vars
  BY <1>13 DEF Finished, Owed, IInv
<1> QED
  BY <1>1, <1>2, <1>3, <1>4, <1>5, <1>6, <1>7, <1>8, <1>9, <1>10, <1>11, <1>12,
     <1>13 DEF Next, Collector, Environment

-----------------------------------------------------------------------------
LEMMA InitInv == Init => IInv
BY TypeInit, ConfigAssumption
DEF Init, IInv, Clocks, CycleClocks, Settled, Listing, WindowInv, MemoryCoverage,
    Coverage, CoveredUpTo

LEMMA StepInv == IInv /\ [Next]_vars => IInv'
BY TypeStep, ClocksStep, ListingStep, WindowStep, CoverageStep DEF IInv

THEOREM Inductive == Spec => []IInv
BY InitInv, StepInv, PTL DEF Spec

\* Every variable keeps its type, whatever the requests and the clock do.
THEOREM TypeCorrect == Spec => []TypeOK
<1>1. IInv => TypeOK
  BY DEF IInv
<1> QED
  BY <1>1, Inductive, PTL

\* Every row owed up to any watermark a restart can resume from is stored or lies
\* in a recorded gap, whatever fails and whenever the process is killed.
THEOREM CoverageHolds == Spec => []Coverage
<1>1. IInv => Coverage
  BY DEF IInv
<1> QED
  BY <1>1, Inductive, PTL

\* The same of the watermark in memory.
THEOREM MemoryCoverageHolds == Spec => []MemoryCoverage
<1>1. IInv => MemoryCoverage
  BY DEF IInv
<1> QED
  BY <1>1, Inductive, PTL

-----------------------------------------------------------------------------
(* No row is accepted twice by a process that was answered.                *)

\* What was accepted is remembered, or lies before the start of every window
\* still to come; and the window being stored lies after that start.
AckInv ==
    /\ watermark = None => acked = {}
    /\ acked \subseteq Appeared
    /\ \A f \in acked : f \in seen \/ rowTime[f] < watermark - Overlap
    /\ pc = "storing" => \A f \in rows : watermark - Overlap <= rowTime[f]

LEMMA AckStep == IInv /\ AckInv /\ [Next]_vars => AckInv'
<1> SUFFICES ASSUME IInv, AckInv, [Next]_vars PROVE AckInv'
  OBVIOUS
<1> USE ConfigAssumption, LookbackAssumption
    DEF AckInv, IInv, TypeOK, Time, Appeared, CycleClocks, vars, console, sink,
        memory, locals, window
<1>1. CASE Tick \/ CheckpointVisible \/ Sigterm \/ Start \/ RestoreFails
  BY <1>1 DEF Tick, CheckpointVisible, Sigterm, Start, RestoreFails
<1>2. ASSUME NEW f \in Flows, RowAppears(f) \/ RowExpires(f) PROVE AckInv'
  BY <1>2 DEF RowAppears, RowExpires
<1>3. CASE Kill \/ Exit
  BY <1>3 DEF Kill, Exit, Gone
<1>4. CASE BeginCycle
  <2>1. Restored \in Nat /\ (watermark # None => watermark = Restored)
    BY DEF Restored, Clocks
  <2>2. watermark' \in Nat /\ (watermark # None => watermark <= watermark')
    BY <1>4, <2>1 DEF BeginCycle
  <2>3. QED
    BY <1>4, <2>2 DEF BeginCycle
<1>5. CASE NarrowWindow \/ CycleFails
  BY <1>5 DEF NarrowWindow, InWindow, CycleFails
<1>6. \A f \in Found : watermark # None => watermark - Overlap <= rowTime[f]
  BY DEF Found, Between, WindowStart, Larger
<1>7. CASE ReadWindow
  BY <1>6, <1>7 DEF ReadWindow, InWindow, NewestOf
<1>8. ASSUME NEW n \in 0 .. Cardinality(Flows), ReadPart(n) PROVE AckInv'
  BY <1>6, <1>8 DEF ReadPart, InWindow, NewestOf
<1>9. CASE BatchAccepted \/ BatchFails
  BY <1>9 DEF BatchAccepted, BatchFails, NewestOf, Unsent
<1>10. CASE CompleteWindow
  <2>1. watermark' \in Nat /\ watermark <= watermark' /\ watermark' = WindowEnd
    BY <1>10 DEF CompleteWindow, WindowEnd, Smaller
  <2>2. \A f \in seen \cap acked : f \in seen' \/ rowTime[f] < watermark' - 2 * Overlap
    BY <1>10, <2>1 DEF CompleteWindow, SeenKept
  <2>3. \A f \in acked : f \in seen' \/ rowTime[f] < watermark' - Overlap
    BY <2>1, <2>2
  <2>4. QED
    BY <1>10, <2>1, <2>3 DEF CompleteWindow
<1>11. CASE HoldWindow \/ AdvanceDone
  BY <1>11 DEF HoldWindow, AdvanceDone
<1>12. CASE Checkpoint \/ CheckpointFails \/ NoCheckpoint
  BY <1>12 DEF Checkpoint, CheckpointFails, NoCheckpoint, EndCycle
<1>13. CASE Finished \/ UNCHANGED vars
  BY <1>13 DEF Finished
<1> QED
  BY <1>1, <1>2, <1>3, <1>4, <1>5, <1>7, <1>8, <1>9, <1>10, <1>11, <1>12, <1>13
  DEF Next, Collector, Environment

\* A batch holds no row that an earlier batch of this process had accepted.
LEMMA FreshBatches == IInv /\ AckInv /\ [Next]_vars => (seen' \ seen) \cap acked = {}
<1> SUFFICES ASSUME IInv, AckInv, [Next]_vars,
                    NEW f, f \in seen', f \notin seen, f \in acked
             PROVE  FALSE
  OBVIOUS
<1>1. BatchAccepted
  BY DEF Next, Collector, Environment, Tick, RowAppears, RowExpires,
         CheckpointVisible, Kill, Sigterm, Start, Exit, Gone, BeginCycle,
         RestoreFails, NarrowWindow, ReadWindow, ReadPart, CycleFails, BatchFails,
         CompleteWindow, SeenKept, HoldWindow, AdvanceDone, Checkpoint,
         CheckpointFails, NoCheckpoint, EndCycle, Finished, vars, memory
<1>2. f \in rows /\ pc = "storing"
  BY <1>1 DEF BatchAccepted, Unsent
<1>3. watermark - Overlap <= rowTime[f] /\ rowTime[f] < watermark - Overlap
  BY <1>2 DEF AckInv
<1> QED
  BY <1>2, <1>3, ConfigAssumption
  DEF IInv, TypeOK, Time, Appeared, CycleClocks

THEOREM AcceptedOnceHolds == Spec => AcceptedOnce
<1>1. Init => AckInv
  BY DEF Init, AckInv
<1> QED
  BY <1>1, Inductive, AckStep, FreshBatches, PTL DEF Spec, AcceptedOnce

-----------------------------------------------------------------------------
(* A cycle that reports ok has made everything durable.                    *)

\* A cycle starts behind the newest settled moment, or with a gap to write, so
\* one that reaches that moment has something to check point.
OkInv ==
    /\ pc = "down" => watermark = None /\ result # "ok"
    /\ pc = "idle" /\ watermark # None => watermark + Settle < wake
    /\ pc \in {"reading", "storing"} =>
          before = None \/ before < endLimit \/ pending # {}
    /\ pc = "closing" /\ result = "ok" => NeedsCheckpoint
    /\ OkIsDurable

LEMMA OkStep == IInv /\ OkInv /\ [Next]_vars => OkInv'
<1> SUFFICES ASSUME IInv, OkInv, [Next]_vars PROVE OkInv'
  OBVIOUS
<1> USE ConfigAssumption, LookbackAssumption
    DEF OkInv, OkIsDurable, NeedsCheckpoint, IInv, TypeOK, Time, Clocks, Settled,
        CycleClocks, vars, console, sink, memory, locals, window
<1>1. CASE Tick \/ CheckpointVisible \/ Sigterm \/ Start \/ RestoreFails
  BY <1>1 DEF Tick, CheckpointVisible, Sigterm, Start, RestoreFails
<1>2. ASSUME NEW f \in Flows, RowAppears(f) \/ RowExpires(f) PROVE OkInv'
  BY <1>2 DEF RowAppears, RowExpires
<1>3. CASE Kill \/ Exit
  BY <1>3 DEF Kill, Exit, Gone
<1>4. CASE BeginCycle
  <2>1. pending # {} => pending' # {}
    BY <1>4 DEF BeginCycle, CatchupGap
  <2>2. watermark # None => watermark < endLimit' \/ pending # {}
    BY <1>4 DEF BeginCycle, Due
  <2>3. QED
    BY <1>4, <2>1, <2>2 DEF BeginCycle
<1>5. CASE NarrowWindow \/ ReadWindow \/ CycleFails
  BY <1>5 DEF NarrowWindow, ReadWindow, CycleFails, InWindow
<1>6. ASSUME NEW n \in 0 .. Cardinality(Flows), ReadPart(n) PROVE OkInv'
  BY <1>6 DEF ReadPart, InWindow
<1>7. CASE BatchAccepted \/ BatchFails
  BY <1>7 DEF BatchAccepted, BatchFails
<1>8. CASE CompleteWindow
  <2>1. pending \subseteq pending'
    BY <1>8 DEF CompleteWindow, CapGap
  <2>2. QED
    BY <1>8, <2>1 DEF CompleteWindow
<1>9. CASE HoldWindow \/ AdvanceDone
  BY <1>9 DEF HoldWindow, AdvanceDone
<1>10. CASE Checkpoint \/ CheckpointFails \/ NoCheckpoint
  <2>1. /\ pc' = "idle" /\ watermark' = watermark /\ watermark \in Nat
        /\ watermark + Settle < wake'
    BY <1>10 DEF Checkpoint, CheckpointFails, NoCheckpoint, EndCycle
  <2>2. CASE Checkpoint
    BY <2>1, <2>2 DEF Checkpoint
  <2>3. CASE CheckpointFails
    BY <2>1, <2>3 DEF CheckpointFails, ResultOfLostWrite
  <2>4. CASE NoCheckpoint
    BY <2>1, <2>4 DEF NoCheckpoint
  <2>5. QED
    BY <1>10, <2>2, <2>3, <2>4
<1>11. CASE Finished \/ UNCHANGED vars
  BY <1>11 DEF Finished
<1> QED
  BY <1>1, <1>2, <1>3, <1>4, <1>5, <1>6, <1>7, <1>8, <1>9, <1>10, <1>11
  DEF Next, Collector, Environment

\* last_success moves only for a cycle whose checkpoint and gaps were accepted.
THEOREM OkIsDurableHolds == Spec => []OkIsDurable
<1>1. Init => OkInv
  BY DEF Init, OkInv, OkIsDurable
<1>2. OkInv => OkIsDurable
  BY DEF OkInv
<1> QED
  BY <1>1, <1>2, Inductive, OkStep, PTL DEF Spec

-----------------------------------------------------------------------------
(* The collector implements FlowArchive.                                   *)

LEMMA ArchiveInit == Init => Archive!Init
BY DEF Init, Archive!Init, Owed

LEMMA ArchiveStep == IInv /\ [Next]_vars => [Archive!Next]_(Archive!vars)
<1> SUFFICES ASSUME IInv, [Next]_vars
             PROVE  Archive!Next \/ UNCHANGED Archive!vars
  BY DEF Archive!vars
<1> USE ConfigAssumption, LookbackAssumption
    DEF vars, console, sink, memory, locals, window, Archive!vars, Owed
<1>1. ASSUME NEW f \in Flows, RowAppears(f) PROVE Archive!Appear(f)
  <2>1. /\ rowTime[f] = None /\ rowTime'[f] \in Nat
        /\ rowTime' = [rowTime EXCEPT ![f] = rowTime'[f]]
        /\ f \notin prompt
    <3>1. PICK d \in Delays : d <= now /\ rowTime' = [rowTime EXCEPT ![f] = now - d]
      BY <1>1 DEF RowAppears
    <3>2. rowTime'[f] = now - d
      BY <3>1 DEF IInv, TypeOK
    <3>3. now - d \in Nat
      BY <3>1 DEF IInv, TypeOK
    <3>4. rowTime[f] = None /\ f \notin prompt
      BY <1>1 DEF RowAppears, IInv, TypeOK, Appeared
    <3>5. QED
      BY <3>1, <3>2, <3>3, <3>4
  <2>2. Owed' \in {Owed, Owed \cup {f}}
    BY <1>1, <2>1 DEF RowAppears, IInv, TypeOK, Appeared
  <2>3. ASSUME NEW mark \in {ckpt, visible}, mark # None, f \in Owed',
               rowTime'[f] <= mark
        PROVE  FALSE
    BY <1>1, <2>1, <2>3, NewRowIsAhead DEF IInv, Clocks, TypeOK
  <2>4. UNCHANGED <<stored, gaps, ckpt, visible>>
    BY <1>1 DEF RowAppears
  <2>5. f \in Owed' => ~Archive!Behind(f, ckpt)' /\ ~Archive!Behind(f, visible)'
    BY <2>3, <2>4 DEF Archive!Behind
  <2>6. QED
    BY <2>1, <2>2, <2>4, <2>5 DEF Archive!Appear
<1>2. CASE BeginCycle
  <2>1. CASE watermark = None /\ visible = None
    <3>1. ckpt # None => Owed' \subseteq Owed
      BY <1>2, <2>1 DEF BeginCycle, IInv, Clocks, TypeOK, Time, Appeared
    <3>2. Owed' \subseteq {f \in Flows : rowTime[f] # None}
      BY <1>2 DEF BeginCycle, IInv, TypeOK, Appeared
    <3>3. QED
      BY <1>2, <2>1, <3>1, <3>2 DEF BeginCycle, Archive!FirstRun, Archive!Next
  <2>2. CASE ~(watermark = None /\ visible = None)
    BY <1>2, <2>2 DEF BeginCycle
  <2> QED
    BY <2>1, <2>2
<1>3. CASE BatchAccepted \/ BatchFails
  BY <1>3
  DEF BatchAccepted, BatchFails, NewestOf, Unsent, IInv, TypeOK, Appeared,
      Archive!Next, Archive!Accept
<1>4. CASE CheckpointVisible
  BY <1>4 DEF CheckpointVisible, Archive!Next, Archive!Show
<1>5. CASE Checkpoint \/ CheckpointFails
  <2>1. CASE UNCHANGED <<gaps, ckpt>>
    BY <1>5, <2>1 DEF Checkpoint, CheckpointFails, EndCycle
  <2>2. CASE gaps' = gaps \cup pending /\ ckpt' = watermark
    <3>1. watermark # None /\ UNCHANGED <<rowTime, Owed, stored, visible>>
      BY <1>5 DEF Checkpoint, CheckpointFails, EndCycle, IInv, CycleClocks
    <3>2. Archive!Accounted(ckpt)'
      BY <2>2, <3>1
      DEF Archive!Accounted, Archive!Behind, IInv, MemoryCoverage, CoveredUpTo, InGap
    <3>3. QED
      BY <2>2, <3>1, <3>2 DEF Archive!Commit, Archive!Next
  <2> QED
    BY <1>5, <2>1, <2>2 DEF Checkpoint, CheckpointFails, CheckpointWithGaps
<1>6. CASE Tick \/ Kill \/ Sigterm \/ Exit \/ Start \/ RestoreFails
  BY <1>6 DEF Tick, Kill, Sigterm, Exit, Gone, Start, RestoreFails
<1>7. ASSUME NEW f \in Flows, RowExpires(f) PROVE UNCHANGED Archive!vars
  BY <1>7 DEF RowExpires
<1>8. CASE NarrowWindow \/ ReadWindow \/ CycleFails \/ CompleteWindow
           \/ HoldWindow \/ AdvanceDone \/ NoCheckpoint
  BY <1>8
  DEF NarrowWindow, ReadWindow, CycleFails, CompleteWindow, HoldWindow, AdvanceDone,
      NoCheckpoint, EndCycle
<1>9. ASSUME NEW n \in 0 .. Cardinality(Flows), ReadPart(n)
      PROVE  UNCHANGED Archive!vars
  BY <1>9 DEF ReadPart
<1>10. CASE Finished \/ UNCHANGED vars
  BY <1>10 DEF Finished
<1> QED
  BY <1>1, <1>2, <1>3, <1>4, <1>5, <1>6, <1>7, <1>8, <1>9, <1>10
  DEF Next, Collector, Environment, Archive!Next

\* What a reader of VictoriaLogs may rely on, FlowArchive, is implemented: each
\* step of the collector and its surroundings is one of its steps or changes
\* nothing a reader sees.
THEOREM Refinement == Spec => KeepsArchive
BY Inductive, ArchiveInit, ArchiveStep, PTL DEF Spec, KeepsArchive, Archive!Spec

\* The collector's safety as a whole.
THEOREM CollectorIsSafe == Spec => []CollectorSafe
BY TypeCorrect, CoverageHolds, MemoryCoverageHolds, OkIsDurableHolds, PTL DEF CollectorSafe
=============================================================================
