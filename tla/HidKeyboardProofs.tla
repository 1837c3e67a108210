------------------------- MODULE HidKeyboardProofs -------------------------
(***************************************************************************)
(* The programs of the GLKVM appliance (devices/glkvm), the generator of   *)
(* the Home dashboard and the rules of its first tab, one section each.    *)
(*                                                                         *)
(* The keyboard helpers' sequences stay apart and every exit releases, for *)
(* every number of helpers, every script and every timeout.  SequencesApart *)
(* speaks of reports already submitted; what keeps it is that a helper     *)
(* holds the lock from the opening of the gadget to its end, whichever way *)
(* it ends, and has submitted nothing before (LockInv).  What it submits   *)
(* is told by its position in the script (SentInv), where its last report  *)
(* is by how far its release has come (KeysInv), and its deadline by the   *)
(* steps it has done (DueInv).                                             *)
(*                                                                         *)
(* A scrape of the metrics is answered from one whole and recent state of  *)
(* the appliance (ExportInv).                                              *)
(* A row that "or" drops says no more than the one it keeps (JoinedKeeps,  *)
(* LoudestFirst).  What a keyboard program still has to send is told by    *)
(* where it is in its script (ScriptsInv), and what the other end makes of *)
(* it by the two usage tables.  A tab of the dashboard is made of new      *)
(* panels behind all earlier ones and of the sources alone (HomeInv).      *)
(***************************************************************************)
EXTENDS HidKeyboard, GlkvmExport, HomeOverview, HidScripts,
        FiniteSetTheorems, SequenceTheorems, NaturalsInduction, WellFoundedInduction, TLAPS

Outside == {"new", "locking", "ended"}
Inside  == {"opening", "running", "polling", "writing", "flushing", "pausing"}

LockInv ==
    /\ phase \in [Helpers -> Outside \cup Inside]
    /\ DOMAIN sent = Helpers
    /\ lock \in Helpers \cup {None}
    /\ \A h \in Helpers : (phase[h] \in Inside) <=> (lock = h)
    /\ \A h \in Helpers : phase[h] \in {"new", "locking"} => sent[h] = <<>>

\* Nobody holds the lock at first.
LEMMA LockInit == Init => LockInv
BY HidAssumption DEF Init, LockInv, Outside, Inside

\* The end of a helper, by whatever exit, frees the lock if it had it.
LEMMA EndKeepsLock ==
    ASSUME LockInv, NEW h \in Helpers, NEW code, Active(h), End(h, code)
    PROVE  LockInv'
BY HidAssumption DEF LockInv, Outside, Inside, End, LockAfter, Active, gadget

\* An exception ends the helper or sends it to its neutral report, lock in hand.
LEMMA RaiseKeepsLock ==
    ASSUME LockInv, NEW h \in Helpers, NEW why, Active(h), Raise(h, why)
    PROVE  LockInv'
<1>1. CASE NoRelease(h)
    <2> DEFINE code ==
            IF why = "interrupt" \/ failure[h] = "interrupt" THEN "interrupted" ELSE "error"
    <2>1. End(h, code)
        BY <1>1 DEF Raise
    <2>2. QED
        BY <2>1, EndKeepsLock
<1>2. CASE ~NoRelease(h)
    BY <1>2 DEF Raise, NoRelease, Release, LockInv, Outside, Inside, Active, gadget
<1>3. QED
    BY <1>1, <1>2

\* Every step of a helper keeps the lock with the helper that is inside.
LEMMA HelperKeepsLock ==
    ASSUME LockInv, NEW h \in Helpers, Helper(h)
    PROVE  LockInv'
<1> USE DEF LockInv, Outside, Inside, gadget, budget
<1>1. CASE Lock(h)
    BY <1>1, HidAssumption DEF Lock, LockFree
<1>2. CASE Open(h)
    BY <1>2 DEF Open
<1>3. CASE WriteReport(h) \/ Pause(h)
    BY <1>3 DEF WriteReport, Pause, Running
<1>4. CASE Ready(h) \/ SlotTaken(h)
    BY <1>4 DEF Ready, SlotTaken, RetryTaken
<1>5. CASE Write(h)
    BY <1>5 DEF Write
<1>6. CASE ReportDone(h)
    BY <1>6 DEF ReportDone, Flushed
<1>7. CASE PauseEnds(h)
    BY <1>7 DEF PauseEnds, Release
<1>8. CASE ScriptDone(h)
    BY <1>8 DEF ScriptDone, Release
<1>9. CASE StartExpires(h) \/ Expires(h) \/ PauseExpired(h) \/ BadToken(h)
    <2>1. Active(h) /\ Raise(h, "error")
        BY <1>9 DEF StartExpires, Expires, Bounded, PauseExpired, BadToken, Running, Active
    <2>2. QED
        BY <2>1, RaiseKeepsLock
<1>10. CASE Released(h)
    <2>1. Active(h)
        BY <1>10 DEF Released, Flushed, Active
    <2>2. PICK code : End(h, code)
        BY <1>10 DEF Released
    <2>3. QED
        BY <2>1, <2>2, EndKeepsLock
<1>11. QED
    BY <1>1, <1>2, <1>3, <1>4, <1>5, <1>6, <1>7, <1>8, <1>9, <1>10 DEF Helper

\* So does everything around it.
LEMMA LockStep == LockInv /\ [Next]_vars => LockInv'
<1> SUFFICES ASSUME LockInv, [Next]_vars
             PROVE  LockInv'
    OBVIOUS
<1>1. ASSUME NEW h \in Helpers, Begin(h)
      PROVE  LockInv'
    BY <1>1, HidAssumption DEF Begin, LockInv, Outside, Inside
<1>2. ASSUME NEW h \in Helpers, Disturbance(h)
      PROVE  LockInv'
  <2>1. CASE Interrupt(h)
      BY <2>1, RaiseKeepsLock DEF Interrupt
  <2>2. CASE Kill(h)
      BY <2>2, EndKeepsLock DEF Kill
  <2>3. CASE DeviceFails(h)
    <3>1. Active(h) /\ Raise(h, "error")
        BY <2>3 DEF DeviceFails, Active
    <3>2. QED
        BY <3>1, RaiseKeepsLock
  <2>4. QED
      BY <1>2, <2>1, <2>2, <2>3 DEF Disturbance
<1>3. CASE Tick \/ HostTakes \/ CompletionError \/ \E key \in Keys \cup {Neutral} : KvmdWrites(key)
    BY <1>3 DEF Tick, HostTakes, CompletionError, KvmdWrites, progress, LockInv
<1>4. CASE UNCHANGED vars
    BY <1>4 DEF vars, progress, LockInv
<1>5. QED
    BY <1>1, <1>2, <1>3, <1>4, HelperKeepsLock DEF Next

\* A step that submits a report is a Write of the helper that submits.
LEMMA OnlyWriteSubmits ==
    ASSUME LockInv, Next, NEW h \in Helpers, Submits(h)
    PROVE  phase[h] = "writing" /\ ~Passed(limit[h])
<1>1. \E g \in Helpers : Write(g)
    <2>1. sent' # sent
        BY DEF Submits
    <2>2. ASSUME NEW g \in Helpers, Raise(g, "error") \/ Disturbance(g)
          PROVE  UNCHANGED sent
        BY <2>2 DEF Raise, End, Disturbance, Interrupt, Kill, DeviceFails
    <2>3. ASSUME NEW g \in Helpers, Helper(g), ~Write(g)
          PROVE  UNCHANGED sent
      <3>1. CASE StartExpires(g) \/ Expires(g) \/ PauseExpired(g) \/ BadToken(g)
          BY <3>1, <2>2 DEF StartExpires, Expires, PauseExpired, BadToken
      <3>2. CASE Lock(g) \/ Open(g) \/ WriteReport(g) \/ Ready(g) \/ SlotTaken(g)
          BY <3>2 DEF Lock, Open, WriteReport, Ready, SlotTaken
      <3>3. CASE ReportDone(g) \/ Released(g)
          BY <3>3 DEF ReportDone, Released, End
      <3>4. CASE Pause(g) \/ PauseEnds(g) \/ ScriptDone(g)
          BY <3>4 DEF Pause, PauseEnds, ScriptDone
      <3>5. QED
          BY <2>3, <3>1, <3>2, <3>3, <3>4 DEF Helper
    <2>4. QED
        BY <2>1, <2>2, <2>3
           DEF Next, Tick, HostTakes, CompletionError, KvmdWrites, Begin
<1>2. PICK g \in Helpers : Write(g)
    BY <1>1
<1>3. g = h
    BY <1>2 DEF Write, Submits, LockInv
<1>4. QED
    BY <1>2, <1>3 DEF Write

-----------------------------------------------------------------------------
\* From a helper's first report until it has ended, no other helper submits one.
THEOREM Apart == Spec => SequencesApart
<1>1. LockInv /\ [Next]_vars =>
        [TurnsTaken]_vars
  <2> SUFFICES ASSUME LockInv, Next, NEW h \in Helpers, NEW g \in Helpers,
                      h # g, Submits(h)
               PROVE  sent[g] = <<>> \/ phase[g] = "ended"
      BY DEF vars, TurnsTaken, TakesTurns
  <2>1. lock = h
      BY OnlyWriteSubmits DEF LockInv, Inside
  <2>2. phase[g] \in Outside
      BY <2>1 DEF LockInv
  <2>3. QED
      BY <2>2 DEF LockInv, Outside
<1>2. Spec => []LockInv
    BY LockInit, LockStep, PTL DEF Spec
<1>3. QED
    BY <1>1, <1>2, PTL DEF Spec, SequencesApart
-----------------------------------------------------------------------------
(* Types, and what the phases say of the script and of what was submitted. *)

\* A report being written or a pause going on is the script's current step; a release
\* only writes, and has submitted its neutral report once it flushes; nothing was
\* submitted before the gadget was open.
StepInv ==
    \A h \in Helpers :
        /\ phase[h] \in Bounded /\ part[h] = "body" =>
                at[h] <= Len(Script[h]) /\ Current(h).kind = "report"
        /\ phase[h] = "pausing" => at[h] <= Len(Script[h]) /\ Current(h).kind = "pause"
        /\ part[h] = "release" => phase[h] \in Bounded
        /\ phase[h] \in {"new", "locking", "opening"} => sent[h] = <<>>
        /\ phase[h] = "flushing" /\ part[h] = "release" => ~KeyDown(h)

IInv == TypeOK /\ LockInv /\ StepInv

\* TypeOK in parts.  LockInv gives the lock's.
TimeTypes ==
    /\ now \in 0 .. Horizon
    /\ requestedAt \in [Helpers -> 0 .. Horizon] /\ deadline \in [Helpers -> Nat]
    /\ limit \in [Helpers -> Nat] /\ wake \in [Helpers -> Nat]
    /\ faults \in 0 .. MaxFaults

ProgressTypes ==
    /\ phase \in [Helpers -> Outside \cup Inside]
    /\ part \in [Helpers -> {"body", "release"}]
    /\ at \in [Helpers -> Nat] /\ \A h \in Helpers : at[h] \in 1 .. Len(Script[h]) + 1
    /\ started \in [Helpers -> BOOLEAN]
    /\ failure \in [Helpers -> {"none", "error", "interrupt"}]
    /\ exit \in [Helpers -> {"none", "ok", "error", "interrupted", "killed"}]

GadgetTypes ==
    /\ slot \in [by : Helpers \cup {Kvmd}, key : Keys \cup {Neutral}] \cup {None}
    /\ host \in [by : Helpers \cup {Kvmd}, key : Keys \cup {Neutral}]
    /\ lost \in BOOLEAN
    /\ sent \in [Helpers -> Seq(Keys \cup {Neutral})]

LEMMA TypeParts == TypeOK => TimeTypes /\ ProgressTypes /\ GadgetTypes
<1>1. TypeOK => TimeTypes /\ GadgetTypes
    BY DEF TypeOK, TimeTypes, GadgetTypes
<1>2. TypeOK => ProgressTypes
    BY DEF TypeOK, ProgressTypes, Outside, Inside
<1>3. QED
    BY <1>1, <1>2

LEMMA PartsType == TimeTypes /\ ProgressTypes /\ GadgetTypes /\ LockInv => TypeOK
<1>1. LockInv => lock \in {h \in Helpers : Active(h)} \cup {None}
    BY DEF LockInv, Inside, Outside, Active
<1>2. ProgressTypes => phase \in [Helpers -> {"new", "locking", "opening", "running",
                            "polling", "writing", "flushing", "pausing", "ended"}]
    BY DEF ProgressTypes, Inside, Outside
<1>3. QED
    BY <1>1, <1>2 DEF TypeOK, TimeTypes, ProgressTypes, GadgetTypes

\* The timeouts and bounds are numbers, and a script a sequence.
LEMMA HidNumbers ==
    /\ StartTimeout \in Nat /\ ReportTimeout \in Nat /\ IoBudget \in Nat
    /\ CleanupTimeout \in Nat /\ ReportAllowance \in Nat
    /\ Horizon \in Nat /\ MaxFaults \in Nat
    /\ \A h \in Helpers : Len(Script[h]) \in Nat
<1>1. \A h \in Helpers : Script[h] \in Seq(Steps)
    BY HidAssumption
<1>2. QED
    BY <1>1, HidAssumption

\* A script's steps have the arguments their kind calls for.
LEMMA CurrentArg ==
    ASSUME NEW h \in Helpers, at[h] \in 1 .. Len(Script[h])
    PROVE  /\ Current(h).kind = "report" => Current(h).arg \in Keys \cup {Neutral}
           /\ Current(h).kind = "pause" => Current(h).arg \in Nat
<1>1. Current(h) \in Steps
    BY HidAssumption DEF Current
<1>2. QED
    BY <1>1 DEF Steps

\* The deadline of a report is one of those it is the least of.
LEMMA LimitNat ==
    ASSUME TimeTypes, NEW h \in Helpers
    PROVE  ReportLimit(h) \in Nat
<1> DEFINE a == deadline[h]
           b == now + ReportTimeout
           c == StartDeadline(h)
           Bounds == {a, b} \cup (IF started[h] THEN {} ELSE {c})
<1>1. a \in Nat /\ b \in Nat /\ c \in Nat
    BY HidNumbers DEF TimeTypes, StartDeadline
<1>2. Bounds = {a, b} \/ Bounds = {a, b, c}
    OBVIOUS
<1>3. ReportLimit(h) = Min(Bounds)
    BY DEF ReportLimit
<1> HIDE DEF a, b, c, Bounds
<1>4. \E x \in Bounds : \A y \in Bounds : x <= y
  <2>1. CASE Bounds = {a, b}
      BY <1>1, <2>1
  <2>2. CASE Bounds = {a, b, c}
    <3>1. \E x \in {a, b, c} : x <= a /\ x <= b /\ x <= c
        BY <1>1
    <3>2. QED
        BY <2>2, <3>1
  <2>3. QED
      BY <1>2, <2>1, <2>2
<1>5. Min(Bounds) \in Bounds
    BY <1>4 DEF Min
<1>6. QED
    BY <1>1, <1>2, <1>3, <1>5

LEMMA IInit == Init => IInv
<1> SUFFICES ASSUME Init PROVE IInv
    OBVIOUS
<1>1. TimeTypes
    BY HidNumbers DEF Init, TimeTypes
<1>2. GadgetTypes
  <2>1. sent \in [Helpers -> Seq(Keys \cup {Neutral})]
      BY DEF Init
  <2>2. host \in [by : Helpers \cup {Kvmd}, key : Keys \cup {Neutral}]
      BY DEF Init, Report
  <2>3. QED
      BY <2>1, <2>2 DEF Init, GadgetTypes
<1>3. ProgressTypes
    BY HidNumbers DEF Init, ProgressTypes, Outside, Inside
<1>4. StepInv
    BY DEF Init, StepInv, Bounded
<1>5. QED
    BY <1>1, <1>2, <1>3, <1>4, LockInit, PartsType DEF IInv

-----------------------------------------------------------------------------
\* The end of a helper resets it.
LEMMA EndKeepsIInv ==
    ASSUME IInv, NEW h \in Helpers, Active(h),
           NEW code \in {"ok", "error", "interrupted", "killed"}, End(h, code),
           faults' \in 0 .. MaxFaults
    PROVE  IInv'
<1>1. LockInv'
    BY EndKeepsLock DEF IInv
<1>2. TimeTypes /\ ProgressTypes /\ GadgetTypes
    BY TypeParts DEF IInv
<1>3. TimeTypes'
    BY <1>2, HidNumbers DEF End, TimeTypes
<1>4. ProgressTypes'
    BY <1>2, HidNumbers DEF End, ProgressTypes, Outside, Inside
<1>5. GadgetTypes'
    BY <1>2 DEF End, GadgetTypes, gadget
<1>6. StepInv'
    BY <1>2 DEF End, IInv, StepInv, ProgressTypes, Bounded, KeyDown, Current
<1>7. QED
    BY <1>1, <1>3, <1>4, <1>5, <1>6, PartsType, PTL DEF IInv

\* The neutral report has time of its own, whatever the exception.
LEMMA ReleaseKeepsIInv ==
    ASSUME IInv, LockInv', NEW h \in Helpers, phase[h] \in Inside \ {"opening"},
           NEW why \in {"none", "error", "interrupt"}, Release(h, why),
           UNCHANGED <<now, at, wake, exit, requestedAt, started, lock, gadget, sent>>,
           deadline' \in [Helpers -> Nat], faults' \in 0 .. MaxFaults
    PROVE  IInv'
<1>1. TimeTypes /\ ProgressTypes /\ GadgetTypes
    BY TypeParts DEF IInv
<1>2. TimeTypes'
    BY <1>1, HidNumbers DEF Release, TimeTypes
<1>3. ProgressTypes'
    BY <1>1 DEF Release, ProgressTypes, Outside, Inside
<1>4. GadgetTypes'
    BY <1>1 DEF GadgetTypes, gadget
<1>5. StepInv'
    BY <1>1 DEF Release, IInv, StepInv, ProgressTypes, Bounded, KeyDown, Current
<1>6. QED
    BY <1>2, <1>3, <1>4, <1>5, PartsType, PTL DEF IInv

LEMMA RaiseKeepsIInv ==
    ASSUME IInv, NEW h \in Helpers, Active(h), NEW why \in {"error", "interrupt"},
           Raise(h, why), faults' \in 0 .. MaxFaults
    PROVE  IInv'
<1>1. CASE NoRelease(h)
    <2> DEFINE code ==
            IF why = "interrupt" \/ failure[h] = "interrupt" THEN "interrupted" ELSE "error"
    <2>1. End(h, code)
        BY <1>1 DEF Raise
    <2>2. QED
        BY <2>1, EndKeepsIInv
<1>2. CASE ~NoRelease(h)
    <2>1. LockInv'
        BY RaiseKeepsLock DEF IInv
    <2>2. phase[h] \in Inside \ {"opening"}
        BY <1>2 DEF NoRelease, Active, IInv, LockInv, Inside, Outside
    <2>3. deadline' \in [Helpers -> Nat]
        BY <1>2 DEF Raise, budget, IInv, TypeOK
    <2>4. QED
        BY <1>2, <2>1, <2>2, <2>3, ReleaseKeepsIInv DEF Raise, budget
<1>3. QED
    BY <1>1, <1>2

\* A step inside the body or the release moves one helper on.
LEMMA HelperKeepsIInv ==
    ASSUME IInv, NEW h \in Helpers, Helper(h)
    PROVE  IInv'
<1>1. LockInv'
    BY HelperKeepsLock DEF IInv
<1>2. TimeTypes /\ ProgressTypes /\ GadgetTypes
    BY TypeParts DEF IInv
<1>3. faults \in 0 .. MaxFaults
    BY <1>2 DEF TimeTypes
<1>4. CASE Lock(h) \/ Open(h)
  <2>1. TimeTypes' /\ GadgetTypes'
      BY <1>2, <1>4 DEF Lock, Open, TimeTypes, GadgetTypes, gadget, budget
  <2>2. ProgressTypes'
      BY <1>2, <1>4 DEF Lock, Open, ProgressTypes, Inside, Outside, budget
  <2>3. StepInv'
    <3>1. /\ UNCHANGED <<part, at, sent>>
          /\ phase[h] \in {"locking", "opening"} /\ phase'[h] \in {"opening", "running"}
          /\ phase'[h] = "opening" => phase[h] = "locking"
          /\ \A g \in Helpers : g # h => phase'[g] = phase[g]
        BY <1>2, <1>4 DEF Lock, Open, ProgressTypes
    <3> QED
        BY <1>2, <3>1 DEF IInv, StepInv, Bounded, KeyDown, Current
  <2>4. QED
      BY <1>1, <2>1, <2>2, <2>3, PartsType, PTL DEF IInv
<1>5. CASE WriteReport(h) \/ Pause(h)
  <2>1. Running(h, "pause") => Current(h).arg \in Nat
      BY <1>2, CurrentArg, HidNumbers DEF Running, ProgressTypes
  <2>2. TimeTypes'
      BY <1>2, <1>5, <2>1, LimitNat DEF WriteReport, Pause, TimeTypes, budget
  <2>3. GadgetTypes'
      BY <1>2, <1>5 DEF WriteReport, Pause, GadgetTypes, gadget
  <2>4. ProgressTypes'
      BY <1>2, <1>5 DEF WriteReport, Pause, ProgressTypes, Inside, Outside, budget
  <2>5. StepInv'
      BY <1>2, <1>5 DEF WriteReport, Pause, Running, IInv, StepInv, ProgressTypes, Bounded,
                        KeyDown, Current
  <2>6. QED
      BY <1>1, <2>2, <2>3, <2>4, <2>5, PartsType, PTL DEF IInv
<1>6. CASE Ready(h) \/ SlotTaken(h)
  <2>1. TimeTypes' /\ GadgetTypes'
      BY <1>2, <1>6 DEF Ready, SlotTaken, TimeTypes, GadgetTypes, gadget, budget
  <2>2. ProgressTypes'
      BY <1>2, <1>6 DEF Ready, SlotTaken, RetryTaken, ProgressTypes, Inside, Outside, budget
  <2>3. StepInv'
    <3>1. CASE Ready(h)
        BY <1>2, <3>1 DEF Ready, IInv, StepInv, ProgressTypes, Bounded, KeyDown, Current
    <3>2. CASE SlotTaken(h)
        BY <1>2, <3>2 DEF SlotTaken, RetryTaken, IInv, StepInv, ProgressTypes, Bounded,
                          KeyDown, Current
    <3> QED
        BY <1>6, <3>1, <3>2
  <2>4. QED
      BY <1>1, <2>1, <2>2, <2>3, PartsType, PTL DEF IInv
<1>7. CASE Write(h)
  <2>1. KeyOf(h) \in Keys \cup {Neutral}
    <3>1. CASE part[h] = "release"
        BY <3>1 DEF KeyOf
    <3>2. CASE part[h] # "release"
      <4>1. at[h] \in 1 .. Len(Script[h]) /\ Current(h).kind = "report"
          BY <1>2, <1>7, <3>2, HidNumbers DEF Write, IInv, StepInv, ProgressTypes, Bounded
      <4>2. QED
          BY <3>2, <4>1, CurrentArg DEF KeyOf
    <3>3. QED
        BY <3>1, <3>2
  <2>2. sent[h] \in Seq(Keys \cup {Neutral})
      BY <1>2 DEF GadgetTypes
  <2>3. TimeTypes'
      BY <1>2, <1>7 DEF Write, TimeTypes, budget
  <2>4. GadgetTypes'
      BY <1>2, <1>7, <2>1, <2>2 DEF Write, Report, GadgetTypes
  <2>5. ProgressTypes'
      BY <1>2, <1>7 DEF Write, ProgressTypes, Inside, Outside, budget
  <2>6. ~KeyDown(h)' \/ part[h] = "body"
      BY <1>2, <1>7, <2>1, <2>2 DEF Write, KeyDown, KeyOf, Last, ProgressTypes, GadgetTypes
  <2>7. StepInv'
      BY <1>2, <1>7, <2>6 DEF Write, IInv, StepInv, ProgressTypes, GadgetTypes, Bounded,
                              KeyDown, Current
  <2>8. QED
      BY <1>1, <2>3, <2>4, <2>5, <2>7, PartsType, PTL DEF IInv
<1>8. CASE ReportDone(h)
  <2>1. at[h] \in 1 .. Len(Script[h])
      BY <1>2, <1>8, HidNumbers DEF ReportDone, Flushed, IInv, StepInv, ProgressTypes, Bounded
  <2>2. TimeTypes'
      BY <1>2, <1>8, HidNumbers DEF ReportDone, TimeTypes
  <2>3. GadgetTypes'
      BY <1>2, <1>8 DEF ReportDone, GadgetTypes, gadget
  <2>4. ProgressTypes'
      BY <1>2, <1>8, <2>1, HidNumbers DEF ReportDone, ProgressTypes, Inside, Outside
  <2>5. StepInv'
      BY <1>2, <1>8 DEF ReportDone, IInv, StepInv, ProgressTypes, Bounded, KeyDown, Current
  <2>6. QED
      BY <1>1, <2>2, <2>3, <2>4, <2>5, PartsType, PTL DEF IInv
<1>9. CASE Released(h)
  <2>1. Active(h)
      BY <1>9 DEF Released, Flushed, Active
  <2>2. PICK code \in {"ok", "error", "interrupted"} : End(h, code)
      BY <1>2, <1>9 DEF Released, ProgressTypes
  <2>3. QED
      BY <1>3, <1>9, <2>1, <2>2, EndKeepsIInv DEF Released
<1>10. CASE PauseEnds(h)
  <2>1. at[h] \in 1 .. Len(Script[h]) /\ Current(h).kind = "pause"
      BY <1>2, <1>10, HidNumbers DEF PauseEnds, IInv, StepInv, ProgressTypes
  <2>2. deadline' \in [Helpers -> Nat]
      BY <1>2, <1>10, <2>1, CurrentArg DEF PauseEnds, TimeTypes
  <2>3. CASE Passed(deadline'[h])
      BY <1>1, <1>3, <1>10, <2>2, <2>3, ReleaseKeepsIInv DEF PauseEnds, Inside
  <2>4. CASE ~Passed(deadline'[h])
    <3>1. TimeTypes'
        BY <1>2, <1>10, <2>2, <2>4 DEF PauseEnds, TimeTypes
    <3>2. GadgetTypes'
        BY <1>2, <1>10 DEF PauseEnds, GadgetTypes, gadget
    <3>3. /\ at' = [at EXCEPT ![h] = @ + 1] /\ phase' = [phase EXCEPT ![h] = "running"]
          /\ UNCHANGED <<part, failure, exit, started, sent>>
        BY <1>10, <2>4 DEF PauseEnds
    <3>4. ProgressTypes'
        BY <1>2, <2>1, <3>3, HidNumbers DEF ProgressTypes, Inside, Outside
    <3>5. part[h] = "body"
        BY <1>2, <1>10 DEF PauseEnds, IInv, StepInv, ProgressTypes, Bounded
    <3>6. StepInv'
        BY <1>2, <3>3, <3>5 DEF IInv, StepInv, ProgressTypes, Bounded, KeyDown, Current
    <3>7. QED
        BY <1>1, <3>1, <3>2, <3>4, <3>6, PartsType, PTL DEF IInv
  <2>5. QED
      BY <2>3, <2>4
<1>11. CASE ScriptDone(h)
    BY <1>1, <1>2, <1>3, <1>11, ReleaseKeepsIInv DEF ScriptDone, Inside, budget, TimeTypes
<1>12. CASE StartExpires(h) \/ Expires(h) \/ PauseExpired(h) \/ BadToken(h)
  <2>1. Active(h) /\ Raise(h, "error") /\ UNCHANGED faults
      BY <1>12 DEF StartExpires, Expires, Bounded, PauseExpired, BadToken, Running, Active
  <2>2. QED
      BY <1>3, <2>1, RaiseKeepsIInv
<1>13. QED
    BY <1>4, <1>5, <1>6, <1>7, <1>8, <1>9, <1>10, <1>11, <1>12 DEF Helper

LEMMA IStep == IInv /\ [Next]_vars => IInv'
<1> SUFFICES ASSUME IInv, [Next]_vars
             PROVE  IInv'
    OBVIOUS
<1>1. LockInv'
    BY LockStep DEF IInv
<1>2. TimeTypes /\ ProgressTypes /\ GadgetTypes
    BY TypeParts DEF IInv
<1>3. ASSUME NEW h \in Helpers, Begin(h)
      PROVE  IInv'
  <2>1. TimeTypes'
      BY <1>2, <1>3, HidNumbers DEF Begin, TimeTypes
  <2>2. GadgetTypes'
      BY <1>2, <1>3 DEF Begin, GadgetTypes, gadget
  <2>3. ProgressTypes'
      BY <1>2, <1>3 DEF Begin, ProgressTypes, Inside, Outside
  <2>4. StepInv'
      BY <1>2, <1>3 DEF Begin, IInv, StepInv, ProgressTypes, Bounded, KeyDown, Current
  <2>5. QED
      BY <1>1, <2>1, <2>2, <2>3, <2>4, PartsType, PTL DEF IInv
<1>4. ASSUME NEW h \in Helpers, Disturbance(h)
      PROVE  IInv'
  <2>1. faults' \in 0 .. MaxFaults
      BY <1>2, <1>4, HidNumbers
         DEF Disturbance, Interrupt, Kill, DeviceFails, Fault, TimeTypes
  <2>2. Active(h) /\ (Raise(h, "interrupt") \/ Raise(h, "error") \/ End(h, "killed"))
      BY <1>4 DEF Disturbance, Interrupt, Kill, DeviceFails, Active
  <2>3. QED
      BY <2>1, <2>2, RaiseKeepsIInv, EndKeepsIInv
<1>5. CASE Tick \/ HostTakes \/ CompletionError \/ \E key \in Keys \cup {Neutral} : KvmdWrites(key)
  <2>1. UNCHANGED <<progress, budget, lock, sent>>
      BY <1>5 DEF Tick, HostTakes, CompletionError, KvmdWrites
  <2>2. TimeTypes'
      BY <1>2, <1>5, <2>1, HidNumbers
         DEF Tick, HostTakes, CompletionError, KvmdWrites, Fault, TimeTypes, progress, budget
  <2>3. GadgetTypes'
    <3>1. CASE Tick \/ HostTakes \/ CompletionError
        BY <1>2, <2>1, <3>1 DEF Tick, HostTakes, CompletionError, GadgetTypes, gadget
    <3>2. ASSUME NEW key \in Keys \cup {Neutral}, KvmdWrites(key)
          PROVE  GadgetTypes'
      <4>1. slot' \in [by : Helpers \cup {Kvmd}, key : Keys \cup {Neutral}]
          BY <3>2 DEF KvmdWrites, Report
      <4>2. QED
          BY <1>2, <2>1, <3>2, <4>1 DEF KvmdWrites, GadgetTypes
    <3>3. QED
        BY <1>5, <3>1, <3>2
  <2>4. ProgressTypes' /\ StepInv'
      BY <1>2, <2>1 DEF IInv, ProgressTypes, StepInv, progress, budget, KeyDown, Current
  <2>5. QED
      BY <1>1, <2>2, <2>3, <2>4, PartsType, PTL DEF IInv
<1>6. CASE UNCHANGED vars
  <2>1. TimeTypes' /\ ProgressTypes' /\ GadgetTypes'
      BY <1>2, <1>6 DEF vars, progress, budget, gadget, TimeTypes, ProgressTypes, GadgetTypes
  <2>2. StepInv'
      BY <1>6 DEF vars, progress, IInv, StepInv, KeyDown, Current
  <2>3. QED
      BY <1>1, <2>1, <2>2, PartsType, PTL DEF IInv
<1>7. QED
    BY <1>3, <1>4, <1>5, <1>6, HelperKeepsIInv DEF Next

-----------------------------------------------------------------------------
\* Every variable keeps its type: a report's deadline is a time, the script's position
\* stays in the script, and only a helper under way holds the lock.
THEOREM TypesHold == Spec => []TypeOK
<1>1. IInv => TypeOK
    BY DEF IInv
<1>2. QED
    BY <1>1, IInit, IStep, PTL DEF Spec

\* A helper whose last report was a key ends only by a kill, or after the neutral report
\* itself ran out of time or failed, and not with exit code 0.
THEOREM Releases == Spec => EveryExitReleases
<1>1. IInv /\ [Next]_vars =>
        [ExitsRelease]_vars
  <2> SUFFICES ASSUME IInv, Next, NEW h \in Helpers,
                      exit'[h] \notin {exit[h], "killed"}, KeyDown(h)
               PROVE  /\ part[h] = "release" /\ exit'[h] # "ok"
                      /\ Passed(limit[h]) \/ faults' # faults
      BY DEF vars, ExitsRelease, ExitReleases
  <2>1. exit \in [Helpers -> {"none", "ok", "error", "interrupted", "killed"}]
      BY DEF IInv, TypeOK
  <2>2. phase[h] \notin {"locking", "opening"}
      BY DEF IInv, StepInv, KeyDown
  <2>3. ASSUME NEW g \in Helpers, NEW code, End(g, code)
        PROVE  g = h /\ exit'[h] = code
      BY <2>1, <2>3 DEF End
  <2>4. ASSUME NEW g \in Helpers, NEW why, Raise(g, why)
        PROVE  g = h /\ part[h] = "release" /\ exit'[h] # "ok"
    <3>1. NoRelease(g)
        BY <2>4 DEF Raise
    <3>2. g = h /\ exit'[h] # "ok"
        BY <2>3, <2>4, <3>1 DEF Raise
    <3>3. QED
        BY <2>2, <3>1, <3>2 DEF NoRelease
  <2>5. ASSUME NEW g \in Helpers, Disturbance(g)
        PROVE  part[h] = "release" /\ exit'[h] # "ok" /\ faults' # faults
    <3>1. faults' # faults
      <4>1. faults \in 0 .. MaxFaults
          BY DEF IInv, TypeOK
      <4>2. faults' = faults + 1
          BY <2>5 DEF Disturbance, Interrupt, Kill, DeviceFails, Fault
      <4> QED
          BY <4>1, <4>2
    <3>2. ~Kill(g)
        BY <2>3 DEF Kill
    <3>3. QED
        BY <2>4, <2>5, <3>1, <3>2 DEF Disturbance, Interrupt, DeviceFails
  <2>6. ASSUME NEW g \in Helpers, Helper(g)
        PROVE  part[h] = "release" /\ exit'[h] # "ok" /\ Passed(limit[h])
    <3>1. exit' # exit
        OBVIOUS
    <3>2. StartExpires(g) \/ Expires(g) \/ PauseExpired(g) \/ BadToken(g) \/ Released(g)
        BY <2>6, <3>1 DEF Helper, Lock, Open, WriteReport, Ready, Write, SlotTaken,
                          ReportDone, Pause, PauseEnds, ScriptDone
    <3>3. CASE Released(g)
        BY <2>3, <3>3 DEF Released, Flushed, IInv, StepInv
    <3>4. CASE ~Released(g)
      <4>1. Raise(g, "error")
          BY <3>2, <3>4 DEF StartExpires, Expires, PauseExpired, BadToken
      <4>2. g = h /\ part[h] = "release" /\ exit'[h] # "ok"
          BY <2>4, <4>1
      <4>3. Expires(g)
          BY <2>2, <3>2, <3>4, <4>2
             DEF StartExpires, PauseExpired, BadToken, Running, IInv, StepInv, Bounded
      <4>4. QED
          BY <4>2, <4>3 DEF Expires
    <3>5. QED
        BY <3>3, <3>4
  <2>7. QED
      BY <2>5, <2>6 DEF Next, Tick, HostTakes, CompletionError, KvmdWrites, Begin, progress
<1>2. QED
    BY <1>1, IInit, IStep, PTL DEF Spec, EveryExitReleases

\* "One locked sequence", released at every exit.
THEOREM SequencesClean == Spec => CleanSequences
<1>1. [TurnsTaken]_vars /\ [ExitsRelease]_vars => [TurnsTaken /\ ExitsRelease]_vars
    OBVIOUS
<1>2. QED
    BY <1>1, Apart, Releases, PTL DEF CleanSequences, SequencesApart, EveryExitReleases

-----------------------------------------------------------------------------
(* What a script submits, and the time it gains, step by step.             *)

\* A set of numbers has a least one.
LEMMA Least == ASSUME NEW Few \in SUBSET Nat, Few # {}
               PROVE  \E n \in Few : \A m \in Few : n <= m
<1> DEFINE Below == {ss \in Nat \X Nat : ss[1] < ss[2]}
<1>1. IsWellFoundedOn(Below, Nat)
    BY NatLessThanWellFounded DEF OpToRel
<1>2. \A m, n \in Nat : m < n => <<m, n>> \in Below
    OBVIOUS
<1> HIDE DEF Below
<1>3. PICK n \in Few : \A m \in Few : ~(<<m, n>> \in Below)
    BY <1>1, WFMin
<1>4. ASSUME NEW m \in Few
      PROVE  n <= m
  <2>1. m \in Nat /\ n \in Nat /\ ~(m < n)
      BY <1>2, <1>3
  <2> QED
      BY <2>1
<1> QED
    BY <1>4

\* What holds at 0, and at each number up to n if at the one before, holds up to n.
LEMMA UpTo == ASSUME NEW n \in Nat, NEW G, 0 \in G, \A i \in 1 .. n : i - 1 \in G => i \in G
              PROVE  0 .. n \subseteq G
<1> SUFFICES ASSUME NEW i \in 0 .. n, i \notin G
             PROVE  FALSE
    OBVIOUS
<1> DEFINE Failing == {j \in 0 .. n : j \notin G}
<1>1. Failing \in SUBSET Nat /\ Failing # {}
    OBVIOUS
<1>2. PICK j \in Failing : \A m \in Failing : j <= m
    BY <1>1, Least
<1>3. j \in 1 .. n /\ j - 1 \in 0 .. n /\ ~(j <= j - 1)
    BY <1>2
<1>4. j - 1 \in G
    BY <1>2, <1>3
<1> QED
    BY <1>2, <1>3, <1>4

\* f begins at start and takes n steps.
Takes(f, n, start, step) == f[0] = start /\ \A i \in 1 .. n : f[i] = step[i][f[i - 1]]

\* A step for each number up to n makes a function of them.
LEMMA Recursion == ASSUME NEW n \in Nat, NEW Kind, NEW start \in Kind, NEW step \in [1 .. n -> [Kind -> Kind]]
                   PROVE  \E f \in [0 .. n -> Kind] : Takes(f, n, start, step)
<1> DEFINE Fits(f, i) == Takes(f, i, start, step)
           G == {i \in 0 .. n : \E f \in [0 .. n -> Kind] : Fits(f, i)}
<1> USE DEF Takes
<1>1. 0 \in G
  <2>1. [i \in 0 .. n |-> start] \in [0 .. n -> Kind] /\ Fits([i \in 0 .. n |-> start], 0)
    <3>1. 1 .. 0 = {}
        OBVIOUS
    <3> QED
        BY <3>1
  <2>2. 0 \in 0 .. n
      OBVIOUS
  <2> HIDE DEF Fits
  <2> QED
      BY <2>1, <2>2
<1>2. ASSUME NEW i \in 1 .. n, i - 1 \in G
      PROVE  i \in G
  <2>1. PICK f \in [0 .. n -> Kind] : Fits(f, i - 1)
      BY <1>2
  <2>2. i \in 0 .. n /\ i - 1 \in 0 .. n /\ i # 0 /\ i - 1 # i
      OBVIOUS
  <2> DEFINE g == [f EXCEPT ![i] = step[i][f[i - 1]]]
  <2>3. g \in [0 .. n -> Kind]
      BY <2>2
  <2>4. ASSUME NEW j \in 1 .. i
        PROVE  g[j] = step[j][g[j - 1]]
    <3>1. j - 1 \in 0 .. n /\ j - 1 # i /\ j \in 0 .. n /\ (j = i \/ j \in 1 .. i - 1)
        OBVIOUS
    <3>2. g[j - 1] = f[j - 1]
        BY <3>1
    <3>3. CASE j = i
        BY <3>1, <3>2, <3>3
    <3>4. CASE j # i
        BY <2>1, <3>1, <3>2, <3>4
    <3> QED
        BY <3>3, <3>4
  <2>5. g[0] = start
      BY <2>1, <2>2
  <2> HIDE DEF g
  <2> QED
      BY <2>2, <2>3, <2>4, <2>5
<1>3. n \in G
  <2> HIDE DEF G
  <2>1. 0 .. n \subseteq G
      BY <1>1, <1>2, UpTo
  <2> QED
      BY <2>1
<1>4. PICK f \in [0 .. n -> Kind] : Fits(f, n)
    BY <1>3
<1> QED
    BY <1>4

Reported == Keys \cup {Neutral}

\* The reports of the first n steps of a helper's script.
Submitted(h, n) == Reports(Script[h])[n]

LEMMA ReportsAre == ASSUME NEW h \in Helpers
    PROVE  /\ Submitted(h, 0) = <<>>
           /\ \A n \in 0 .. Len(Script[h]) : Submitted(h, n) \in Seq(Reported)
           /\ \A n \in 1 .. Len(Script[h]) : Submitted(h, n) =
                IF Script[h][n].kind = "report" THEN Append(Submitted(h, n - 1), Script[h][n].arg)
                ELSE Submitted(h, n - 1)
<1> DEFINE script == Script[h]
           Body(g, n) == IF n = 0 THEN <<>>
                         ELSE IF script[n].kind = "report" THEN Append(g[n - 1], script[n].arg) ELSE g[n - 1]
           step == [n \in 1 .. Len(script) |-> [s \in Seq(Reported) |->
                        IF script[n].kind = "report" THEN Append(s, script[n].arg) ELSE s]]
<1>1. Len(script) \in Nat /\ script \in Seq(Steps)
    BY HidNumbers, HidAssumption
<1>2. \A n \in 1 .. Len(script) : script[n].kind = "report" => script[n].arg \in Reported
  <2>1. \A n \in 1 .. Len(script) : script[n] \in Steps
      BY <1>1
  <2> QED
      BY <2>1 DEF Steps, Reported
<1>3. step \in [1 .. Len(script) -> [Seq(Reported) -> Seq(Reported)]]
  <2>1. \A n \in 1 .. Len(script), s \in Seq(Reported) :
            (IF script[n].kind = "report" THEN Append(s, script[n].arg) ELSE s) \in Seq(Reported)
      BY <1>2
  <2> QED
      BY <2>1
<1>4. <<>> \in Seq(Reported)
    OBVIOUS
<1> HIDE DEF step, script
<1>5. PICK f \in [0 .. Len(script) -> Seq(Reported)] :
          f[0] = <<>> /\ \A n \in 1 .. Len(script) : f[n] = step[n][f[n - 1]]
  <2> DEFINE last == Len(script)
             Kind == Seq(Reported)
             none == <<>>
  <2>1. last \in Nat /\ none \in Kind /\ step \in [1 .. last -> [Kind -> Kind]]
      BY <1>1, <1>3, <1>4
  <2> HIDE DEF last, Kind, none
  <2>2. \E f \in [0 .. last -> Kind] : Takes(f, last, none, step)
      BY <2>1, Recursion, ZenonT(30)
  <2> QED
      BY <2>2 DEF last, Kind, none, Takes
<1>6. f = [n \in 0 .. Len(script) |-> Body(f, n)]
  <2>1. ASSUME NEW n \in 0 .. Len(script)
        PROVE  f[n] = Body(f, n)
    <3>1. n = 0 \/ (n # 0 /\ n \in 1 .. Len(script) /\ n - 1 \in 0 .. Len(script))
        BY <1>1
    <3>2. CASE n = 0
        BY <1>5, <3>2
    <3>3. CASE n # 0
        BY <1>5, <3>1, <3>3 DEF step
    <3> QED
        BY <3>2, <3>3
  <2> QED
      BY <2>1
<1>7. Reports(script) = CHOOSE g : g = [n \in 0 .. Len(script) |-> Body(g, n)]
    BY DEF Reports
<1>8. Reports(script) = [n \in 0 .. Len(script) |-> Body(Reports(script), n)]
  <2> HIDE DEF Body, script
  <2> QED
      BY <1>6, <1>7
<1>9. \A n \in 0 .. Len(script) : Submitted(h, n) = Body(Reports(script), n)
    BY <1>8 DEF Submitted, script
<1>10. \A n \in 1 .. Len(script) : n \in 0 .. Len(script) /\ n - 1 \in 0 .. Len(script) /\ n # 0
    BY <1>1
<1>11. \A n \in 1 .. Len(script) : Submitted(h, n) =
           IF script[n].kind = "report" THEN Append(Submitted(h, n - 1), script[n].arg) ELSE Submitted(h, n - 1)
    BY <1>9, <1>10 DEF Submitted, script
<1>12. Submitted(h, 0) = <<>>
    BY <1>1, <1>9
<1>13. \A n \in 0 .. Len(script) : Submitted(h, n) \in Seq(Reported)
  <2> DEFINE Typed == {n \in 0 .. Len(script) : Submitted(h, n) \in Seq(Reported)}
  <2>1. 0 \in Typed
    <3>1. Submitted(h, 0) \in Seq(Reported)
        BY <1>4, <1>12, Zenon
    <3>2. 0 \in 0 .. Len(script)
        BY <1>1
    <3> QED
        BY <3>1, <3>2
  <2>2. ASSUME NEW n \in 1 .. Len(script), n - 1 \in Typed
        PROVE  n \in Typed
    <3> DEFINE t == Submitted(h, n - 1)
    <3>1. t \in Seq(Reported) /\ Submitted(h, n) = IF script[n].kind = "report" THEN Append(t, script[n].arg) ELSE t
        BY <1>11, <2>2
    <3> HIDE DEF t
    <3>2. Submitted(h, n) \in Seq(Reported)
        BY <1>2, <3>1
    <3> QED
        BY <1>10, <3>2
  <2> HIDE DEF Typed
  <2>3. 0 .. Len(script) \subseteq Typed
      BY <1>1, <2>1, <2>2, UpTo
  <2> QED
      BY <2>3 DEF Typed
<1> QED
    BY <1>11, <1>12, <1>13 DEF script

\* s is the beginning of t.
Begins(s, t) == Len(s) <= Len(t) /\ \A i \in 1 .. Len(s) : s[i] = t[i]

\* What was appended is the last, and the rest is in front.
LEMMA FrontLastOfAppend == ASSUME NEW s \in Seq(Reported), NEW x \in Reported
                           PROVE  Front(Append(s, x)) = s /\ Last(Append(s, x)) = x
<1> DEFINE t == Append(s, x)
<1>1. Len(s) \in Nat /\ t \in Seq(Reported) /\ Len(t) - 1 = Len(s) /\ t[Len(t)] = x
    OBVIOUS
<1>2. /\ SubSeq(t, 1, Len(s)) \in Seq(Reported) /\ Len(SubSeq(t, 1, Len(s))) = Len(s)
      /\ \A i \in 1 .. Len(s) : SubSeq(t, 1, Len(s))[i] = s[i]
    BY <1>1
<1> HIDE DEF t
<1>3. SubSeq(t, 1, Len(s)) = s
    BY <1>1, <1>2
<1> QED
    BY <1>1, <1>3 DEF t, Front, Last

LEMMA BeginsIsPrefix == ASSUME NEW s \in Seq(Reported), NEW t \in Seq(Reported), Begins(s, t)
                        PROVE  IsPrefix(s, t)
<1>1. Len(s) \in Nat /\ Len(t) \in Nat /\ Len(s) <= Len(t)
    BY DEF Begins
<1>2. SubSeq(t, 1, Len(s)) = s
  <2>1. /\ SubSeq(t, 1, Len(s)) \in Seq(Reported)
        /\ Len(SubSeq(t, 1, Len(s))) = Len(s)
        /\ \A i \in 1 .. Len(s) : SubSeq(t, 1, Len(s))[i] = t[i]
      BY <1>1
  <2> QED
      BY <1>1, <2>1 DEF Begins
<1>3. SubSeq(s, 1, Len(s)) = s
    BY SubSeqFull
<1> QED
    BY <1>1, <1>2, <1>3 DEF IsPrefix

\* The reports of some first steps are the beginning of those of the script.
LEMMA ReportsGrow == ASSUME NEW h \in Helpers, NEW k \in 0 .. Len(Script[h])
                     PROVE  IsPrefix(Submitted(h, k), Wanted(h))
<1> DEFINE n == Len(Script[h])
           G == {m \in 0 .. n : m < k \/ Begins(Submitted(h, k), Submitted(h, m))}
<1>1. n \in Nat
    BY HidNumbers
<1> HIDE DEF n
<1>2. \A m \in 0 .. n : Submitted(h, m) \in Seq(Reported)
    BY ReportsAre DEF n
<1>3. Begins(Submitted(h, k), Submitted(h, k))
    BY <1>2 DEF Begins, n
<1>4. 0 \in G
    BY <1>1, <1>3 DEF n
<1>5. ASSUME NEW m \in 1 .. n, m - 1 \in G
      PROVE  m \in G
  <2>1. m \in 0 .. n /\ m - 1 \in 0 .. n /\ k \in 0 .. n /\ (m < k \/ m = k \/ ~(m - 1 < k))
      BY <1>1 DEF n
  <2>2. CASE m < k \/ m = k
      BY <1>3, <2>1, <2>2
  <2>3. CASE ~(m - 1 < k)
    <3> DEFINE s == Submitted(h, k)
               t == Submitted(h, m - 1)
    <3>1. Begins(s, t)
        BY <1>5, <2>3
    <3>2. s \in Seq(Reported) /\ t \in Seq(Reported)
        BY <1>2, <2>1
    <3>3. Submitted(h, m) = t \/ \E x : Submitted(h, m) = Append(t, x)
        BY ReportsAre DEF n
    <3> HIDE DEF s, t
    <3>4. ASSUME NEW x
          PROVE  Begins(s, Append(t, x))
        BY <3>1, <3>2 DEF Begins
    <3>5. Begins(s, Submitted(h, m))
        BY <3>1, <3>3, <3>4
    <3> QED
        BY <2>1, <3>5 DEF s
  <2> QED
      BY <2>1, <2>2, <2>3
<1>6. n \in G
  <2> HIDE DEF G
  <2>1. 0 .. n \subseteq G
      BY <1>1, <1>4, <1>5, UpTo
  <2> QED
      BY <1>1, <2>1
<1>7. k \in 0 .. n /\ ~(n < k)
    BY <1>1 DEF n
<1>8. Begins(Submitted(h, k), Submitted(h, n)) /\ n \in 0 .. n
    BY <1>1, <1>6, <1>7
<1>9. Wanted(h) = Submitted(h, n)
    BY DEF Wanted, Submitted, n
<1> QED
    BY <1>2, <1>7, <1>8, <1>9, BeginsIsPrefix

-----------------------------------------------------------------------------
(* What a helper has submitted, and where its reports are.                 *)

\* Reports of the first steps of the script, with or without a neutral one after them.
Begun(h) == \E k \in 0 .. Len(Script[h]) : sent[h] = Submitted(h, k)
Closed(h) == \E k \in 0 .. Len(Script[h]) : sent[h] = Append(Submitted(h, k), Neutral)
Complete(h) == sent[h] = Append(Wanted(h), Neutral)

\* In the body the position tells what was submitted; a release adds the neutral report to
\* what there is, and without an exception that is everything.
SentOf(h) ==
    /\ Begun(h) \/ Closed(h)
    /\ part[h] = "body" /\ phase[h] \notin {"flushing", "ended"} => sent[h] = Submitted(h, at[h] - 1)
    /\ part[h] = "body" /\ phase[h] = "flushing" => sent[h] = Submitted(h, at[h])
    /\ part[h] = "release" /\ phase[h] # "flushing" =>
            Begun(h) /\ (failure[h] = "none" => sent[h] = Wanted(h))
    /\ part[h] = "release" /\ phase[h] = "flushing" =>
            Closed(h) /\ (failure[h] = "none" => Complete(h))
    /\ exit[h] = "ok" => phase[h] = "ended" /\ Complete(h)

IsOf(r, h) == r # None /\ r.by = h

\* A neutral report that was submitted is still on its way, or the host is free of h; with
\* exit code 0 it is no longer on its way.
ReleasedOf(h) ==
    ~lost =>
        /\ part[h] = "release" /\ phase[h] = "flushing" =>
              /\ IsOf(slot, h) => slot.key = Neutral
              /\ ~IsOf(slot, h) => (IsOf(host, h) => host.key = Neutral)
        /\ exit[h] = "ok" => ~IsOf(slot, h) /\ (IsOf(host, h) => host.key = Neutral)

SentInv == \A h \in Helpers : SentOf(h)
KeysInv == \A h \in Helpers : ReleasedOf(h)

\* A helper that does nothing keeps both.
LEMMA SentFrame == ASSUME NEW g \in Helpers, SentOf(g),
                          UNCHANGED <<phase[g], part[g], at[g], failure[g], exit[g], sent[g]>>
                   PROVE  SentOf(g)'
BY DEF SentOf, Begun, Closed, Complete

\* The first position of a script and the end of it.
LEMMA Ends == ASSUME NEW h \in Helpers
              PROVE  /\ Submitted(h, 0) = <<>> /\ Wanted(h) = Submitted(h, Len(Script[h]))
                     /\ 0 \in 0 .. Len(Script[h]) /\ Len(Script[h]) \in 0 .. Len(Script[h])
BY ReportsAre, HidNumbers DEF Wanted, Submitted

LEMMA SentStarts == Init => SentInv
<1> SUFFICES ASSUME Init, NEW h \in Helpers
             PROVE  SentOf(h)
    BY DEF SentInv
<1>1. /\ phase[h] = "new" /\ part[h] = "body" /\ at[h] = 1 /\ exit[h] = "none" /\ sent[h] = <<>>
    BY DEF Init
<1>2. sent[h] = Submitted(h, 0) /\ at[h] - 1 = 0
    BY <1>1, Ends
<1> QED
    BY <1>1, <1>2, Ends DEF SentOf, Begun

\* A helper that ends with 0 has released everything.
LEMMA EndKeepsSent ==
    ASSUME IInv, SentInv, NEW h \in Helpers, NEW code, End(h, code),
           code = "ok" => part[h] = "release" /\ phase[h] = "flushing" /\ failure[h] = "none"
    PROVE  SentInv'
<1> SUFFICES ASSUME NEW g \in Helpers
             PROVE  SentOf(g)'
    BY DEF SentInv
<1>1. SentOf(g) /\ ProgressTypes /\ GadgetTypes
    BY TypeParts DEF SentInv, IInv
<1>2. CASE g # h
    BY <1>1, <1>2, SentFrame DEF End, ProgressTypes
<1>3. CASE g = h
  <2>1. /\ phase'[g] = "ended" /\ part'[g] = "body" /\ exit'[g] = code /\ sent'[g] = sent[g]
      BY <1>1, <1>3 DEF End, ProgressTypes
  <2>2. code = "ok" => Complete(g)
      BY <1>1, <1>3 DEF SentOf
  <2> QED
      BY <1>1, <2>1, <2>2 DEF SentOf, Begun, Closed, Complete
<1> QED
    BY <1>2, <1>3

\* __exit__ finds what the body submitted.
LEMMA ReleaseKeepsSent ==
    ASSUME IInv, SentInv, NEW h \in Helpers, phase[h] \in Inside \ {"opening"}, part[h] = "body",
           NEW why, Release(h, why), UNCHANGED <<at, exit, sent>>,
           why = "none" => phase[h] = "running" /\ at[h] > Len(Script[h])
    PROVE  SentInv'
<1> SUFFICES ASSUME NEW g \in Helpers
             PROVE  SentOf(g)'
    BY DEF SentInv
<1>1. SentOf(g) /\ ProgressTypes /\ GadgetTypes
    BY TypeParts DEF SentInv, IInv
<1>2. CASE g # h
    BY <1>1, <1>2, SentFrame DEF Release, ProgressTypes
<1>3. CASE g = h
  <2>1. /\ phase'[g] = "polling" /\ part'[g] = "release" /\ failure'[g] = why
        /\ exit'[g] = exit[g] /\ sent'[g] = sent[g]
      BY <1>1, <1>3 DEF Release, ProgressTypes
  <2>2. exit[g] # "ok"
      BY <1>1, <1>3 DEF SentOf, Inside
  <2>3. at[g] \in 1 .. Len(Script[g]) + 1 /\ Len(Script[g]) \in Nat
      BY <1>1, HidNumbers DEF ProgressTypes
  <2>4. at[g] - 1 \in 0 .. Len(Script[g])
      BY <2>3
  <2>5. phase[g] = "flushing" => at[g] \in 0 .. Len(Script[g])
      BY <1>3, <2>3 DEF IInv, StepInv, Bounded
  <2>6. Begun(g)
    <3>1. CASE phase[g] = "flushing"
        BY <1>1, <1>3, <2>5, <3>1 DEF SentOf, Begun
    <3>2. CASE phase[g] # "flushing"
        BY <1>1, <1>3, <2>4, <3>2 DEF SentOf, Begun, Inside
    <3> QED
        BY <3>1, <3>2
  <2>7. why = "none" => sent[g] = Wanted(g)
    <3>1. why = "none" => at[g] - 1 = Len(Script[g]) /\ sent[g] = Submitted(g, at[g] - 1)
        BY <1>1, <1>3, <2>3 DEF SentOf
    <3> QED
        BY <3>1, Ends
  <2> QED
      BY <2>1, <2>2, <2>6, <2>7 DEF SentOf, Begun
<1> QED
    BY <1>2, <1>3

LEMMA RaiseKeepsSent ==
    ASSUME IInv, SentInv, NEW h \in Helpers, Active(h), NEW why \in {"error", "interrupt"}, Raise(h, why)
    PROVE  SentInv'
<1>1. CASE NoRelease(h)
    BY <1>1, EndKeepsSent DEF Raise
<1>2. CASE ~NoRelease(h)
  <2>1. phase[h] \in Inside \ {"opening"} /\ part[h] = "body"
      BY <1>2 DEF NoRelease, Active, IInv, LockInv, TypeOK, Inside, Outside
  <2> QED
      BY <1>2, <2>1, ReleaseKeepsSent DEF Raise
<1> QED
    BY <1>1, <1>2

\* A step of the script's own helper: of the two that matter, a write submits the report the
\* position calls for, and a report done moves the position past it.
LEMMA HelperKeepsSent ==
    ASSUME IInv, SentInv, NEW h \in Helpers, Helper(h)
    PROVE  SentInv'
<1>1. ProgressTypes /\ GadgetTypes /\ StepInv /\ LockInv
    BY TypeParts DEF IInv
<1>2. ASSUME NEW g \in Helpers
      PROVE  SentOf(g)
    BY DEF SentInv
<1>3. Len(Script[h]) \in Nat /\ at[h] \in 1 .. Len(Script[h]) + 1
    BY <1>1, HidNumbers DEF ProgressTypes
<1>4. ASSUME NEW g \in Helpers, g # h,
             UNCHANGED <<phase[g], part[g], at[g], failure[g], exit[g], sent[g]>>
      PROVE  SentOf(g)'
    BY <1>2, <1>4, SentFrame
<1>5. CASE Lock(h) \/ Open(h) \/ WriteReport(h) \/ Pause(h) \/ Ready(h) \/ SlotTaken(h)
  <2>1. /\ UNCHANGED <<part, at, failure, exit, sent>>
        /\ phase[h] \notin {"flushing", "ended"} /\ phase'[h] \notin {"flushing", "ended"}
        /\ \A g \in Helpers : g # h => phase'[g] = phase[g]
      BY <1>1, <1>5 DEF Lock, Open, WriteReport, Pause, Ready, SlotTaken, RetryTaken, Running, ProgressTypes
  <2>2. SentOf(h)'
      BY <1>2, <2>1 DEF SentOf, Begun, Closed, Complete
  <2> QED
      BY <1>4, <2>1, <2>2 DEF SentInv
<1>6. CASE Write(h)
  <2>1. /\ UNCHANGED <<part, at, failure, exit>>
        /\ phase[h] = "writing" /\ phase'[h] = "flushing" /\ sent'[h] = Append(sent[h], KeyOf(h))
        /\ \A g \in Helpers : g # h => phase'[g] = phase[g] /\ sent'[g] = sent[g]
      BY <1>1, <1>6 DEF Write, ProgressTypes, GadgetTypes
  <2>2. exit[h] # "ok"
      BY <1>2, <2>1 DEF SentOf
  <2>3. CASE part[h] = "release"
    <3>1. sent'[h] = Append(sent[h], Neutral) /\ Begun(h) /\ (failure[h] = "none" => sent[h] = Wanted(h))
        BY <1>2, <2>1, <2>3 DEF SentOf, KeyOf
    <3>2. Closed(h)' /\ (failure[h] = "none" => Complete(h)')
        BY <3>1 DEF Begun, Closed, Complete
    <3> QED
        BY <1>4, <2>1, <2>2, <2>3, <3>2 DEF SentInv, SentOf
  <2>4. CASE part[h] # "release"
    <3>1. part[h] = "body" /\ KeyOf(h) = Current(h).arg
        BY <1>1, <2>4 DEF KeyOf, ProgressTypes
    <3>2. at[h] \in 1 .. Len(Script[h]) /\ Current(h).kind = "report"
        BY <1>1, <1>3, <2>1, <3>1 DEF StepInv, Bounded
    <3>3. sent[h] = Submitted(h, at[h] - 1)
        BY <1>2, <2>1, <3>1 DEF SentOf
    <3>4. sent'[h] = Submitted(h, at[h])
        BY <2>1, <3>1, <3>2, <3>3, ReportsAre DEF Current
    <3>5. at[h] \in 0 .. Len(Script[h])
        BY <1>3, <3>2
    <3>6. SentOf(h)'
        BY <2>1, <2>2, <3>1, <3>4, <3>5 DEF SentOf, Begun
    <3> QED
        BY <1>4, <2>1, <3>6 DEF SentInv
  <2> QED
      BY <2>3, <2>4
<1>7. CASE ReportDone(h)
  <2>1. /\ UNCHANGED <<part, failure, exit, sent>> /\ part[h] = "body"
        /\ phase[h] = "flushing" /\ phase'[h] = "running" /\ at'[h] = at[h] + 1
        /\ \A g \in Helpers : g # h => phase'[g] = phase[g] /\ at'[g] = at[g]
      BY <1>1, <1>7 DEF ReportDone, Flushed, ProgressTypes
  <2>2. SentOf(h)'
    <3>1. at'[h] - 1 = at[h]
        BY <1>3, <2>1
    <3> QED
        BY <1>2, <2>1, <3>1 DEF SentOf, Begun, Closed, Complete
  <2> QED
      BY <1>4, <2>1, <2>2 DEF SentInv
<1>8. CASE PauseEnds(h)
  <2>1. at[h] \in 1 .. Len(Script[h]) /\ Current(h).kind = "pause" /\ part[h] = "body"
    <3>1. phase[h] = "pausing" /\ phase[h] \notin Bounded /\ part[h] \in {"body", "release"}
        BY <1>1, <1>8 DEF PauseEnds, ProgressTypes, Bounded
    <3> QED
        BY <1>1, <1>3, <3>1 DEF StepInv
  <2>2. CASE Passed(deadline'[h])
      BY <1>8, <2>1, <2>2, ReleaseKeepsSent DEF PauseEnds, Inside
  <2>3. CASE ~Passed(deadline'[h])
    <3>1. /\ UNCHANGED <<part, failure, exit, sent>>
          /\ phase[h] = "pausing" /\ phase'[h] = "running" /\ at'[h] = at[h] + 1
          /\ \A g \in Helpers : g # h => phase'[g] = phase[g] /\ at'[g] = at[g]
        BY <1>1, <1>8, <2>3 DEF PauseEnds, ProgressTypes
    <3>2. sent[h] = Submitted(h, at[h] - 1)
        BY <1>2, <2>1, <3>1 DEF SentOf
    <3>3. sent[h] = Submitted(h, at[h]) /\ at'[h] - 1 = at[h]
        BY <1>3, <2>1, <3>1, <3>2, ReportsAre DEF Current
    <3>4. SentOf(h)'
        BY <1>2, <2>1, <3>1, <3>3 DEF SentOf, Begun, Closed, Complete
    <3> QED
        BY <1>4, <3>1, <3>4 DEF SentInv
  <2> QED
      BY <2>2, <2>3
<1>9. CASE ScriptDone(h)
  <2>1. part[h] = "body"
      BY <1>1, <1>9 DEF ScriptDone, StepInv, ProgressTypes, Bounded
  <2> QED
      BY <1>9, <2>1, ReleaseKeepsSent DEF ScriptDone, Inside
<1>10. CASE Released(h)
  <2>1. /\ part[h] = "release" /\ phase[h] = "flushing"
        /\ \E code \in {"ok", "error", "interrupted"} : End(h, code) /\ (code = "ok" => failure[h] = "none")
      BY <1>1, <1>10 DEF Released, Flushed, ProgressTypes
  <2> QED
      BY <2>1, EndKeepsSent
<1>11. CASE StartExpires(h) \/ Expires(h) \/ PauseExpired(h) \/ BadToken(h)
  <2>1. Active(h) /\ Raise(h, "error")
      BY <1>11 DEF StartExpires, Expires, Bounded, PauseExpired, BadToken, Running, Active
  <2> QED
      BY <2>1, RaiseKeepsSent
<1> QED
    BY <1>5, <1>6, <1>7, <1>8, <1>9, <1>10, <1>11 DEF Helper

LEMMA SentStep == IInv /\ SentInv /\ [Next]_vars => SentInv'
<1> SUFFICES ASSUME IInv, SentInv, [Next]_vars
             PROVE  SentInv'
    OBVIOUS
<1>1. ProgressTypes /\ GadgetTypes
    BY TypeParts DEF IInv
<1>2. ASSUME NEW h \in Helpers, Begin(h)
      PROVE  SentInv'
  <2>1. /\ UNCHANGED <<part, at, failure, exit, sent>>
        /\ phase[h] = "new" /\ phase'[h] = "locking"
        /\ \A g \in Helpers : g # h => phase'[g] = phase[g]
      BY <1>1, <1>2 DEF Begin, ProgressTypes
  <2>2. SentOf(h)'
      BY <2>1 DEF SentInv, SentOf, Begun, Closed, Complete
  <2> QED
      BY <2>1, <2>2, SentFrame DEF SentInv
<1>3. ASSUME NEW h \in Helpers, Disturbance(h)
      PROVE  SentInv'
  <2>1. Active(h) /\ (Raise(h, "interrupt") \/ Raise(h, "error") \/ End(h, "killed"))
      BY <1>3 DEF Disturbance, Interrupt, Kill, DeviceFails, Active
  <2> QED
      BY <2>1, RaiseKeepsSent, EndKeepsSent
<1>4. CASE UNCHANGED <<progress, sent>>
    BY <1>4, SentFrame DEF progress, SentInv
<1> QED
    BY <1>2, <1>3, <1>4, HelperKeepsSent DEF Next, Tick, HostTakes, CompletionError, KvmdWrites, vars

\* A report that is written has a key of the script, or none.
LEMMA WrittenKey ==
    ASSUME IInv, NEW h \in Helpers, phase[h] = "writing"
    PROVE  KeyOf(h) \in Keys \cup {Neutral}
<1>1. ProgressTypes
    BY TypeParts DEF IInv
<1>2. CASE part[h] = "release"
    BY <1>2 DEF KeyOf
<1>3. CASE part[h] # "release"
  <2>1. at[h] \in 1 .. Len(Script[h]) /\ Current(h).kind = "report"
      BY <1>1, <1>3, HidNumbers DEF IInv, StepInv, ProgressTypes, Bounded
  <2> QED
      BY <1>3, <2>1, CurrentArg DEF KeyOf
<1> QED
    BY <1>2, <1>3

LEMMA KeysStart == Init => KeysInv
BY HidAssumption DEF Init, KeysInv, ReleasedOf, IsOf

\* A helper that leaves the gadget alone and is not releasing keeps what there is.
LEMMA KeysFrame == ASSUME NEW g \in Helpers, ReleasedOf(g), UNCHANGED gadget,
                          part'[g] = "release" /\ phase'[g] = "flushing" => UNCHANGED <<part[g], phase[g]>>,
                          exit'[g] = "ok" => UNCHANGED exit[g]
                   PROVE  ReleasedOf(g)'
BY DEF ReleasedOf, gadget

\* A helper ends with 0 only once its neutral report has left the slot.
LEMMA EndKeepsKeys ==
    ASSUME IInv, KeysInv, NEW h \in Helpers, NEW code, End(h, code),
           code = "ok" => part[h] = "release" /\ phase[h] = "flushing" /\ slot = None
    PROVE  KeysInv'
<1> SUFFICES ASSUME NEW g \in Helpers
             PROVE  ReleasedOf(g)'
    BY DEF KeysInv
<1>1. ReleasedOf(g) /\ ProgressTypes
    BY TypeParts DEF KeysInv, IInv
<1>2. UNCHANGED gadget
    BY DEF End
<1>3. CASE g # h
  <2>1. UNCHANGED <<part[g], phase[g], exit[g]>>
      BY <1>1, <1>3 DEF End, ProgressTypes
  <2> QED
      BY <1>1, <1>2, <2>1, KeysFrame
<1>4. CASE g = h
  <2>1. phase'[g] = "ended" /\ exit'[g] = code
      BY <1>1, <1>4 DEF End, ProgressTypes
  <2> QED
      BY <1>1, <1>2, <1>4, <2>1 DEF ReleasedOf, IsOf, gadget
<1> QED
    BY <1>3, <1>4

LEMMA RaiseKeepsKeys ==
    ASSUME IInv, KeysInv, NEW h \in Helpers, NEW why \in {"error", "interrupt"}, Raise(h, why)
    PROVE  KeysInv'
<1>1. CASE NoRelease(h)
    BY <1>1, EndKeepsKeys DEF Raise
<1>2. CASE ~NoRelease(h)
  <2>1. ProgressTypes /\ UNCHANGED <<gadget, exit>> /\ Release(h, why)
      BY <1>2, TypeParts DEF Raise, IInv
  <2>2. ASSUME NEW g \in Helpers
        PROVE  part'[g] = "release" /\ phase'[g] = "flushing" => UNCHANGED <<part[g], phase[g]>>
      BY <2>1 DEF Release, ProgressTypes
  <2> QED
      BY <2>1, <2>2, KeysFrame DEF KeysInv
<1> QED
    BY <1>1, <1>2

LEMMA HelperKeepsKeys ==
    ASSUME IInv, SentInv, KeysInv, NEW h \in Helpers, Helper(h)
    PROVE  KeysInv'
<1>1. ProgressTypes /\ GadgetTypes /\ LockInv
    BY TypeParts DEF IInv
<1>2. CASE Write(h)
  <2>1. /\ UNCHANGED <<part, exit, host, lost>> /\ slot = None /\ slot' = Report(h, KeyOf(h))
        /\ phase[h] = "writing" /\ phase'[h] = "flushing"
        /\ \A g \in Helpers : g # h => phase'[g] = phase[g]
      BY <1>1, <1>2 DEF Write, ProgressTypes
  <2>2. ASSUME NEW g \in Helpers
        PROVE  ReleasedOf(g)'
    <3>1. CASE g = h
      <4>1. exit'[g] # "ok"
          BY <2>1, <3>1 DEF SentInv, SentOf
      <4>2. slot' # None /\ slot'.by = g /\ (part'[g] = "release" => slot'.key = Neutral)
        <5>1. slot' # None
          <6>1. KeyOf(h) \in Keys \cup {Neutral}
              BY <2>1, WrittenKey
          <6>2. Report(h, KeyOf(h)) \in [by : Helpers \cup {Kvmd}, key : Keys \cup {Neutral}]
              BY <6>1 DEF Report
          <6> QED
              BY <2>1, <6>2, HidAssumption
        <5> QED
            BY <2>1, <3>1, <5>1 DEF Report, KeyOf
      <4> QED
          BY <4>1, <4>2 DEF ReleasedOf, IsOf
    <3>2. CASE g # h
      <4>1. ~(phase'[g] = "flushing")
          BY <1>1, <2>1, <3>2 DEF LockInv, Inside
      <4>2. ~IsOf(slot', g)
          BY <2>1, <3>2 DEF IsOf, Report
      <4> QED
          BY <2>1, <4>1, <4>2 DEF KeysInv, ReleasedOf, IsOf
    <3> QED
        BY <3>1, <3>2
  <2> QED
      BY <2>2 DEF KeysInv
<1>3. CASE Released(h)
  <2>1. /\ part[h] = "release" /\ phase[h] = "flushing" /\ slot = None
        /\ \E code \in {"ok", "error", "interrupted"} : End(h, code)
      BY <1>1, <1>3 DEF Released, Flushed, ProgressTypes
  <2> QED
      BY <2>1, EndKeepsKeys
<1>4. CASE StartExpires(h) \/ Expires(h) \/ PauseExpired(h) \/ BadToken(h)
  <2>1. Raise(h, "error")
      BY <1>4 DEF StartExpires, Expires, PauseExpired, BadToken
  <2> QED
      BY <2>1, RaiseKeepsKeys
<1>5. CASE ~Write(h) /\ ~Released(h) /\ ~(StartExpires(h) \/ Expires(h) \/ PauseExpired(h) \/ BadToken(h))
  <2>1. /\ UNCHANGED <<gadget, exit>> /\ phase'[h] # "flushing"
        /\ \A g \in Helpers : g # h => phase'[g] = phase[g] /\ part'[g] = part[g]
    <3>1. CASE Lock(h) \/ Open(h) \/ WriteReport(h) \/ Pause(h) \/ Ready(h) \/ SlotTaken(h)
        BY <1>1, <3>1 DEF Lock, Open, WriteReport, Pause, Ready, SlotTaken, RetryTaken, ProgressTypes
    <3>2. CASE ReportDone(h) \/ ScriptDone(h)
        BY <1>1, <3>2 DEF ReportDone, ScriptDone, Release, ProgressTypes
    <3>3. CASE PauseEnds(h)
        BY <1>1, <3>3 DEF PauseEnds, Release, ProgressTypes, gadget
    <3> QED
        BY <1>5, <3>1, <3>2, <3>3 DEF Helper
  <2> QED
      BY <2>1, KeysFrame DEF KeysInv
<1> QED
    BY <1>2, <1>3, <1>4, <1>5

LEMMA KeysStep == IInv /\ SentInv /\ KeysInv /\ [Next]_vars => KeysInv'
<1> SUFFICES ASSUME IInv, SentInv, KeysInv, [Next]_vars
             PROVE  KeysInv'
    OBVIOUS
<1>1. ProgressTypes /\ GadgetTypes
    BY TypeParts DEF IInv
<1>2. ASSUME NEW h \in Helpers, Begin(h)
      PROVE  KeysInv'
  <2>1. /\ UNCHANGED <<gadget, exit, part>> /\ phase'[h] = "locking"
        /\ \A g \in Helpers : g # h => phase'[g] = phase[g]
      BY <1>1, <1>2 DEF Begin, ProgressTypes
  <2> QED
      BY <2>1, KeysFrame DEF KeysInv
<1>3. ASSUME NEW h \in Helpers, Disturbance(h)
      PROVE  KeysInv'
  <2>1. Raise(h, "interrupt") \/ Raise(h, "error") \/ End(h, "killed")
      BY <1>3 DEF Disturbance, Interrupt, Kill, DeviceFails
  <2> QED
      BY <2>1, RaiseKeepsKeys, EndKeepsKeys
<1>4. CASE UNCHANGED <<progress, gadget>>
    BY <1>4, KeysFrame DEF progress, KeysInv
<1>5. CASE CompletionError
    BY <1>5 DEF CompletionError, KeysInv, ReleasedOf
<1>6. CASE HostTakes
  <2>1. /\ UNCHANGED progress /\ lost' = lost /\ slot # None /\ host' = slot /\ slot' = None
      BY <1>6 DEF HostTakes
  <2> QED
      BY <2>1 DEF progress, KeysInv, ReleasedOf, IsOf
<1>7. ASSUME NEW key \in Keys \cup {Neutral}, KvmdWrites(key)
      PROVE  KeysInv'
  <2>1. /\ UNCHANGED progress /\ UNCHANGED <<host, lost>> /\ slot = None /\ slot'.by = Kvmd
      BY <1>7 DEF KvmdWrites, Report
  <2> QED
      BY <2>1, HidAssumption DEF progress, KeysInv, ReleasedOf, IsOf
<1> QED
    BY <1>2, <1>3, <1>4, <1>5, <1>6, <1>7, HelperKeepsKeys DEF Next, Tick, gadget, vars

-----------------------------------------------------------------------------
\* A helper submits its reports in order, once, and then at most a neutral one; exit code
\* 0 leaves none of its keys down (hid_input.py).
THEOREM HelpersAreSafe == Spec => []HelpersSafe
<1>1. IInv /\ SentInv /\ KeysInv => HelpersSafe
  <2> SUFFICES ASSUME IInv, SentInv, KeysInv
               PROVE  HelpersSafe
      OBVIOUS
  <2>1. InOrder
    <3> SUFFICES ASSUME NEW h \in Helpers
                 PROVE  IsPrefix(sent[h], Wanted(h)) \/ (IsPrefix(Front(sent[h]), Wanted(h)) /\ Last(sent[h]) = Neutral)
        BY DEF InOrder
    <3>1. CASE Begun(h)
        BY <3>1, ReportsGrow DEF Begun
    <3>2. CASE Closed(h)
      <4>1. PICK k \in 0 .. Len(Script[h]) : sent[h] = Append(Submitted(h, k), Neutral)
          BY <3>2 DEF Closed
      <4>2. Submitted(h, k) \in Seq(Reported) /\ Neutral \in Reported
          BY ReportsAre DEF Reported
      <4>3. Front(sent[h]) = Submitted(h, k) /\ Last(sent[h]) = Neutral
          BY <4>1, <4>2, FrontLastOfAppend
      <4> QED
          BY <4>3, ReportsGrow
    <3> QED
        BY <3>1, <3>2 DEF SentInv, SentOf
  <2>2. SuccessReleases
    <3> SUFFICES ASSUME NEW h \in Helpers, exit[h] = "ok"
                 PROVE  /\ sent[h] = Append(Wanted(h), Neutral)
                        /\ \A r \in {slot, host} \ {None} : r.by = h /\ ~lost => r = host /\ r.key = Neutral
        BY DEF SuccessReleases
    <3>1. Complete(h)
        BY DEF SentInv, SentOf
    <3>2. ~lost => ~IsOf(slot, h) /\ (IsOf(host, h) => host.key = Neutral)
        BY DEF KeysInv, ReleasedOf
    <3> QED
        BY <3>1, <3>2 DEF Complete, IsOf
  <2> QED
      BY <2>1, <2>2 DEF HelpersSafe, IInv
<1> QED
    BY <1>1, IInit, IStep, SentStarts, SentStep, KeysStart, KeysStep, PTL DEF Spec

-----------------------------------------------------------------------------
(* The deadlines.                                                          *)

\* The time the first n steps of a helper's script add.
Earned(h, n) == Gains(Script[h])[n]

LEMMA EarnedIs == ASSUME NEW h \in Helpers
    PROVE  /\ Earned(h, 0) = 0
           /\ \A n \in 0 .. Len(Script[h]) : Earned(h, n) \in Nat
           /\ \A n \in 1 .. Len(Script[h]) : Earned(h, n) = Earned(h, n - 1) + Allowance(Script[h][n])
<1> DEFINE script == Script[h]
           Body(g, n) == IF n = 0 THEN 0 ELSE g[n - 1] + Allowance(script[n])
           step == [n \in 1 .. Len(script) |-> [t \in Nat |-> t + Allowance(script[n])]]
<1>1. Len(script) \in Nat /\ script \in Seq(Steps)
    BY HidNumbers, HidAssumption
<1>2. \A n \in 1 .. Len(script) : Allowance(script[n]) \in Nat
  <2>1. \A n \in 1 .. Len(script) : script[n] \in Steps
      BY <1>1
  <2> QED
      BY <2>1, HidNumbers DEF Steps, Allowance
<1>3. step \in [1 .. Len(script) -> [Nat -> Nat]]
    BY <1>2
<1> HIDE DEF step, script
<1>4. PICK f \in [0 .. Len(script) -> Nat] : f[0] = 0 /\ \A n \in 1 .. Len(script) : f[n] = step[n][f[n - 1]]
  <2> DEFINE last == Len(script)
             Kind == Nat
  <2>1. last \in Nat /\ 0 \in Kind /\ step \in [1 .. last -> [Kind -> Kind]]
      BY <1>1, <1>3
  <2> HIDE DEF last, Kind
  <2>2. \E f \in [0 .. last -> Kind] : Takes(f, last, 0, step)
      BY <2>1, Recursion
  <2> QED
      BY <2>2 DEF last, Kind, Takes
<1>5. f = [n \in 0 .. Len(script) |-> Body(f, n)]
  <2>1. ASSUME NEW n \in 0 .. Len(script)
        PROVE  f[n] = Body(f, n)
    <3>1. n = 0 \/ (n # 0 /\ n \in 1 .. Len(script) /\ n - 1 \in 0 .. Len(script))
        BY <1>1
    <3>2. CASE n = 0
        BY <1>4, <3>2
    <3>3. CASE n # 0
        BY <1>4, <3>1, <3>3 DEF step
    <3> QED
        BY <3>2, <3>3
  <2> QED
      BY <2>1
<1>6. Gains(script) = CHOOSE g : g = [n \in 0 .. Len(script) |-> Body(g, n)]
    BY DEF Gains
<1>7. Gains(script) = [n \in 0 .. Len(script) |-> Body(Gains(script), n)]
  <2> HIDE DEF Body
  <2> QED
      BY <1>5, <1>6
<1>8. \A n \in 0 .. Len(script) : Earned(h, n) = Body(Gains(script), n)
    BY <1>7 DEF Earned, script
<1>9. \A n \in 1 .. Len(script) : n \in 0 .. Len(script) /\ n - 1 \in 0 .. Len(script) /\ n # 0
    BY <1>1
<1>10. \A n \in 1 .. Len(script) : Earned(h, n) = Earned(h, n - 1) + Allowance(script[n])
    BY <1>8, <1>9 DEF Earned, script
<1>11. Earned(h, 0) = 0
    BY <1>1, <1>8
<1>12. \A n \in 0 .. Len(script) : Earned(h, n) \in Nat
  <2> DEFINE Typed == {n \in 0 .. Len(script) : Earned(h, n) \in Nat}
  <2>1. 0 \in Typed
      BY <1>1, <1>11
  <2>2. ASSUME NEW n \in 1 .. Len(script), n - 1 \in Typed
        PROVE  n \in Typed
      BY <1>2, <1>9, <1>10, <2>2
  <2> HIDE DEF Typed
  <2>3. 0 .. Len(script) \subseteq Typed
      BY <1>1, <2>1, <2>2, UpTo
  <2> QED
      BY <2>3 DEF Typed
<1> QED
    BY <1>10, <1>11, <1>12 DEF script

\* In the body the total deadline is what was asked for and what the steps done added, a
\* report's own deadline lies within it, and only a report that was submitted lifts the
\* start deadline.
DueOf(h) ==
    /\ phase[h] = "new" => at[h] = 1
    /\ part[h] = "body" /\ phase[h] \in Inside \cup {"locking"} =>
            deadline[h] = requestedAt[h] + IoBudget + Earned(h, at[h] - 1)
    /\ part[h] = "body" /\ phase[h] \in Bounded =>
            limit[h] <= deadline[h] /\ (~started[h] => limit[h] <= StartDeadline(h))
    /\ started[h] => sent[h] # <<>>

DueInv == \A h \in Helpers : DueOf(h)

LEMMA DueFrame == ASSUME NEW g \in Helpers, DueOf(g),
                         UNCHANGED <<phase[g], part[g], at[g], deadline[g], requestedAt[g], limit[g], started[g], sent[g]>>
                  PROVE  DueOf(g)'
BY DEF DueOf, StartDeadline

LEMMA DueStarts == Init => DueInv
BY DEF Init, DueInv, DueOf, Inside, Bounded

LEMMA EndKeepsDue ==
    ASSUME IInv, DueInv, NEW h \in Helpers, NEW code, End(h, code)
    PROVE  DueInv'
<1> SUFFICES ASSUME NEW g \in Helpers
             PROVE  DueOf(g)'
    BY DEF DueInv
<1>1. DueOf(g) /\ ProgressTypes /\ TimeTypes
    BY TypeParts DEF DueInv, IInv
<1>2. CASE g # h
    BY <1>1, <1>2, DueFrame DEF End, ProgressTypes, TimeTypes
<1>3. CASE g = h
  <2>1. phase'[g] = "ended" /\ started'[g] = FALSE
      BY <1>1, <1>3 DEF End, ProgressTypes
  <2> QED
      BY <2>1 DEF DueOf, Inside, Bounded
<1> QED
    BY <1>2, <1>3

LEMMA ReleaseKeepsDue ==
    ASSUME IInv, DueInv, NEW h \in Helpers, NEW why, Release(h, why),
           UNCHANGED <<at, requestedAt, started, sent>>,
           \A g \in Helpers : g # h => deadline'[g] = deadline[g]
    PROVE  DueInv'
<1> SUFFICES ASSUME NEW g \in Helpers
             PROVE  DueOf(g)'
    BY DEF DueInv
<1>1. DueOf(g) /\ ProgressTypes /\ TimeTypes
    BY TypeParts DEF DueInv, IInv
<1>2. CASE g # h
    BY <1>1, <1>2, DueFrame DEF Release, ProgressTypes, TimeTypes
<1>3. CASE g = h
  <2>1. phase'[g] = "polling" /\ part'[g] = "release"
      BY <1>1, <1>3 DEF Release, ProgressTypes
  <2> QED
      BY <1>1, <2>1 DEF DueOf, Inside, Bounded
<1> QED
    BY <1>2, <1>3

LEMMA RaiseKeepsDue ==
    ASSUME IInv, DueInv, NEW h \in Helpers, NEW why, Raise(h, why)
    PROVE  DueInv'
<1>1. CASE NoRelease(h)
    BY <1>1, EndKeepsDue DEF Raise
<1>2. CASE ~NoRelease(h)
    BY <1>2, ReleaseKeepsDue DEF Raise, budget
<1> QED
    BY <1>1, <1>2

\* The deadline of a report is within those it is the least of.
LEMMA LimitWithin ==
    ASSUME TimeTypes, NEW h \in Helpers
    PROVE  ReportLimit(h) <= deadline[h] /\ (~started[h] => ReportLimit(h) <= StartDeadline(h))
<1> DEFINE a == deadline[h]
           b == now + ReportTimeout
           c == StartDeadline(h)
           Bounds == {a, b} \cup (IF started[h] THEN {} ELSE {c})
<1>1. a \in Nat /\ b \in Nat /\ c \in Nat
    BY HidNumbers DEF TimeTypes, StartDeadline
<1>2. Bounds \in SUBSET Nat /\ a \in Bounds /\ (~started[h] => c \in Bounds)
    BY <1>1
<1>3. ReportLimit(h) = Min(Bounds)
    BY DEF ReportLimit
<1> HIDE DEF a, b, c, Bounds
<1>4. PICK x \in Bounds : \A y \in Bounds : x <= y
    BY <1>2, Least
<1>5. \A y \in Bounds : Min(Bounds) <= y
    BY <1>4 DEF Min
<1> QED
    BY <1>2, <1>3, <1>5 DEF a, c

LEMMA HelperKeepsDue ==
    ASSUME IInv, SentInv, DueInv, NEW h \in Helpers, Helper(h)
    PROVE  DueInv'
<1>1. ProgressTypes /\ GadgetTypes /\ TimeTypes /\ StepInv /\ LockInv
    BY TypeParts DEF IInv
<1>2. ASSUME NEW g \in Helpers
      PROVE  DueOf(g)
    BY DEF DueInv
<1>3. /\ Len(Script[h]) \in Nat /\ at[h] \in 1 .. Len(Script[h]) + 1
      /\ deadline[h] \in Nat /\ requestedAt[h] \in Nat /\ limit[h] \in Nat /\ IoBudget \in Nat
    BY <1>1, HidNumbers DEF ProgressTypes, TimeTypes
<1>4. ASSUME NEW g \in Helpers, g # h,
             UNCHANGED <<phase[g], part[g], at[g], deadline[g], requestedAt[g], limit[g], started[g], sent[g]>>
      PROVE  DueOf(g)'
    BY <1>2, <1>4, DueFrame
<1>5. CASE Lock(h) \/ Open(h) \/ Pause(h)
  <2>1. /\ UNCHANGED <<part, at, deadline, requestedAt, limit, started, sent>>
        /\ phase[h] \in Inside \cup {"locking"} /\ phase'[h] \in Inside \ Bounded
        /\ \A g \in Helpers : g # h => phase'[g] = phase[g]
      BY <1>1, <1>5 DEF Lock, Open, Pause, Running, ProgressTypes, budget, Inside, Bounded
  <2>2. DueOf(h)'
      BY <1>2, <2>1 DEF DueOf, Inside, Bounded
  <2> QED
      BY <1>4, <2>1, <2>2 DEF DueInv
<1>6. CASE Ready(h) \/ SlotTaken(h) \/ Write(h)
  <2>1. /\ UNCHANGED <<part, at, deadline, requestedAt, limit, started>>
        /\ phase[h] \in Bounded /\ phase'[h] \in Bounded
        /\ \A g \in Helpers : g # h => phase'[g] = phase[g] /\ sent'[g] = sent[g]
        /\ sent[h] # <<>> => sent'[h] # <<>>
    <3>1. CASE Write(h)
      <4>1. sent[h] \in Seq(Keys \cup {Neutral}) /\ sent'[h] = Append(sent[h], KeyOf(h))
          BY <1>1, <3>1 DEF Write, GadgetTypes
      <4>2. sent'[h] # <<>>
          BY <4>1, <1>1, <3>1, WrittenKey DEF Write
      <4> QED
          BY <1>1, <3>1, <4>2 DEF Write, ProgressTypes, GadgetTypes, budget, Bounded
    <3>2. CASE ~Write(h)
        BY <1>1, <1>6, <3>2 DEF Ready, SlotTaken, RetryTaken, ProgressTypes, budget, Bounded
    <3> QED
        BY <3>1, <3>2
  <2>2. DueOf(h)'
      BY <1>2, <2>1 DEF DueOf, Inside, Bounded, StartDeadline
  <2> QED
      BY <1>4, <2>1, <2>2 DEF DueInv
<1>7. CASE WriteReport(h)
  <2>1. /\ UNCHANGED <<part, at, deadline, requestedAt, started, sent>>
        /\ phase[h] = "running" /\ phase'[h] = "polling" /\ limit'[h] = ReportLimit(h)
        /\ \A g \in Helpers : g # h => phase'[g] = phase[g] /\ limit'[g] = limit[g]
      BY <1>1, <1>7 DEF WriteReport, Running, ProgressTypes, TimeTypes, budget
  <2>2. DueOf(h)'
      BY <1>1, <1>2, <2>1, LimitWithin DEF DueOf, Inside, Bounded, StartDeadline
  <2> QED
      BY <1>4, <2>1, <2>2 DEF DueInv
<1>8. CASE ReportDone(h)
  <2>1. /\ UNCHANGED <<part, requestedAt, sent>> /\ part[h] = "body"
        /\ phase[h] = "flushing" /\ phase'[h] = "running" /\ at'[h] = at[h] + 1
        /\ deadline'[h] = deadline[h] + ReportAllowance
        /\ \A g \in Helpers : g # h => /\ phase'[g] = phase[g] /\ at'[g] = at[g] /\ deadline'[g] = deadline[g]
                                       /\ limit'[g] = limit[g] /\ started'[g] = started[g]
      BY <1>1, <1>8 DEF ReportDone, Flushed, ProgressTypes, TimeTypes
  <2>2. at[h] \in 1 .. Len(Script[h]) /\ Script[h][at[h]].kind = "report"
      BY <1>1, <1>3, <2>1 DEF StepInv, Bounded, Current
  <2>3. deadline[h] = requestedAt[h] + IoBudget + Earned(h, at[h] - 1)
      BY <1>2, <2>1 DEF DueOf, Inside
  <2>4. deadline'[h] = requestedAt'[h] + IoBudget + Earned(h, at'[h] - 1)
    <3>1. Earned(h, at[h]) = Earned(h, at[h] - 1) + ReportAllowance
        BY <2>2, EarnedIs DEF Allowance
    <3>2. at[h] - 1 \in 0 .. Len(Script[h]) /\ at'[h] - 1 = at[h]
        BY <1>3, <2>1, <2>2
    <3>3. Earned(h, at[h] - 1) \in Nat /\ ReportAllowance \in Nat
        BY <3>2, EarnedIs, HidNumbers
    <3> QED
        BY <1>3, <2>1, <2>3, <3>1, <3>2, <3>3, SMTT(30)
  <2>5. sent'[h] # <<>>
    <3>1. sent'[h] = Append(Submitted(h, at[h] - 1), Script[h][at[h]].arg)
        BY <2>1, <2>2, ReportsAre DEF SentInv, SentOf
    <3>2. Submitted(h, at[h] - 1) \in Seq(Reported)
      <4>1. at[h] - 1 \in 0 .. Len(Script[h])
          BY <1>3, <2>2
      <4> QED
          BY <4>1, ReportsAre
    <3> QED
        BY <3>1, <3>2
  <2>6. DueOf(h)'
      BY <2>1, <2>4, <2>5 DEF DueOf, Bounded
  <2> QED
      BY <1>4, <2>1, <2>6 DEF DueInv
<1>9. CASE PauseEnds(h)
  <2>1. at[h] \in 1 .. Len(Script[h]) /\ Script[h][at[h]].kind = "pause" /\ phase[h] = "pausing" /\ part[h] = "body"
    <3>1. phase[h] = "pausing" /\ phase[h] \notin Bounded /\ part[h] \in {"body", "release"}
        BY <1>1, <1>9 DEF PauseEnds, ProgressTypes, Bounded
    <3> QED
        BY <1>1, <1>3, <3>1 DEF StepInv, Current
  <2>2. /\ UNCHANGED <<requestedAt, started, sent>> /\ deadline'[h] = deadline[h] + Script[h][at[h]].arg
        /\ \A g \in Helpers : g # h => deadline'[g] = deadline[g]
      BY <1>1, <1>9 DEF PauseEnds, TimeTypes, Current
  <2>3. CASE Passed(deadline'[h])
      BY <1>9, <2>2, <2>3, ReleaseKeepsDue DEF PauseEnds
  <2>4. CASE ~Passed(deadline'[h])
    <3>1. /\ UNCHANGED <<part, limit>> /\ phase'[h] = "running" /\ at'[h] = at[h] + 1
          /\ \A g \in Helpers : g # h => phase'[g] = phase[g] /\ at'[g] = at[g]
        BY <1>1, <1>9, <2>4 DEF PauseEnds, ProgressTypes
    <3>2. deadline[h] = requestedAt[h] + IoBudget + Earned(h, at[h] - 1)
        BY <1>2, <2>1 DEF DueOf, Inside
    <3>3. Earned(h, at[h]) = Earned(h, at[h] - 1) + Script[h][at[h]].arg
        BY <2>1, EarnedIs DEF Allowance
    <3>4. at[h] - 1 \in 0 .. Len(Script[h]) /\ at'[h] - 1 = at[h] /\ Script[h][at[h]].arg \in Nat
        BY <1>3, <2>1, <3>1, CurrentArg DEF Current
    <3>5. Earned(h, at[h] - 1) \in Nat
        BY <3>4, EarnedIs
    <3>6. deadline'[h] = requestedAt'[h] + IoBudget + Earned(h, at'[h] - 1)
      <4> DEFINE before == Earned(h, at[h] - 1)
                 seconds == Script[h][at[h]].arg
                 due == deadline[h]
                 since == requestedAt[h]
      <4>1. /\ due = since + IoBudget + before /\ before \in Nat /\ seconds \in Nat
            /\ due \in Nat /\ since \in Nat /\ IoBudget \in Nat
          BY <1>3, <3>2, <3>4, <3>5
      <4>2. /\ deadline'[h] = due + seconds /\ requestedAt'[h] = since
            /\ Earned(h, at'[h] - 1) = before + seconds
          BY <2>2, <3>3, <3>4
      <4> HIDE DEF before, seconds, due, since
      <4> QED
          BY <4>1, <4>2
    <3>7. DueOf(h)'
        BY <1>2, <2>2, <3>1, <3>6 DEF DueOf, Bounded
    <3> QED
        BY <1>4, <2>2, <3>1, <3>7 DEF DueInv
  <2> QED
      BY <2>3, <2>4
<1>10. CASE ScriptDone(h)
    BY <1>10, ReleaseKeepsDue DEF ScriptDone, budget
<1>11. CASE Released(h)
  <2>1. \E code \in {"ok", "error", "interrupted"} : End(h, code)
      BY <1>1, <1>11 DEF Released, ProgressTypes
  <2> QED
      BY <2>1, EndKeepsDue
<1>12. CASE StartExpires(h) \/ Expires(h) \/ PauseExpired(h) \/ BadToken(h)
    BY <1>12, RaiseKeepsDue DEF StartExpires, Expires, PauseExpired, BadToken
<1> QED
    BY <1>5, <1>6, <1>7, <1>8, <1>9, <1>10, <1>11, <1>12 DEF Helper

LEMMA DueStep == IInv /\ SentInv /\ DueInv /\ [Next]_vars => DueInv'
<1> SUFFICES ASSUME IInv, SentInv, DueInv, [Next]_vars
             PROVE  DueInv'
    OBVIOUS
<1>1. ProgressTypes /\ TimeTypes
    BY TypeParts DEF IInv
<1>2. ASSUME NEW h \in Helpers, Begin(h)
      PROVE  DueInv'
  <2>1. /\ UNCHANGED <<part, at, limit, started, sent>>
        /\ phase[h] = "new" /\ phase'[h] = "locking" /\ requestedAt'[h] = now /\ deadline'[h] = now + IoBudget
        /\ \A g \in Helpers : g # h =>
              phase'[g] = phase[g] /\ requestedAt'[g] = requestedAt[g] /\ deadline'[g] = deadline[g]
      BY <1>1, <1>2 DEF Begin, ProgressTypes, TimeTypes
  <2>2. at[h] = 1 /\ Earned(h, 0) = 0 /\ now \in Nat /\ IoBudget \in Nat
      BY <1>1, <2>1, EarnedIs, HidNumbers DEF DueInv, DueOf, TimeTypes
  <2>3. at'[h] - 1 = 0 /\ deadline'[h] = requestedAt'[h] + IoBudget + 0
      BY <2>1, <2>2
  <2>4. DueOf(h)'
      BY <2>1, <2>2, <2>3 DEF DueInv, DueOf, Bounded
  <2> QED
      BY <2>1, <2>4, DueFrame DEF DueInv
<1>3. ASSUME NEW h \in Helpers, Disturbance(h)
      PROVE  DueInv'
    BY <1>3, RaiseKeepsDue, EndKeepsDue DEF Disturbance, Interrupt, Kill, DeviceFails
<1>4. CASE UNCHANGED <<progress, budget, sent>>
    BY <1>4, DueFrame DEF progress, budget, DueInv
<1> QED
    BY <1>2, <1>3, <1>4, HelperKeepsDue DEF Next, Tick, HostTakes, CompletionError, KvmdWrites, vars

\* A report of the body is submitted before the total deadline, which gains only what its
\* pauses and completed reports add, and the first before the start deadline.
THEOREM InputIsInTime == Spec => InTime
<1>1. ASSUME IInv, DueInv, [Next]_vars, NEW h \in Helpers, Submits(h), part[h] = "body"
      PROVE  now < requestedAt[h] + IoBudget + Gained(h) /\ (sent[h] = <<>> => now < StartDeadline(h))
  <2>1. Next
      BY <1>1 DEF vars, Submits
  <2>2. phase[h] = "writing" /\ TimeTypes /\ LockInv
      BY <1>1, <2>1, OnlyWriteSubmits, TypeParts DEF IInv
  <2>3. now < limit[h]
    <3>1. ~(now >= limit[h]) /\ limit[h] \in Nat /\ now \in Nat
        BY <1>1, <2>1, <2>2, OnlyWriteSubmits, HidNumbers DEF Passed, TimeTypes
    <3> QED
        BY <3>1
  <2>4. /\ limit[h] <= deadline[h] /\ (~started[h] => limit[h] <= StartDeadline(h))
        /\ deadline[h] = requestedAt[h] + IoBudget + Gained(h) /\ (started[h] => sent[h] # <<>>)
      BY <1>1, <2>2 DEF DueInv, DueOf, Inside, Bounded, Gained, Earned
  <2>5. now \in Nat /\ limit[h] \in Nat /\ deadline[h] \in Nat /\ StartDeadline(h) \in Nat
      BY <2>2, HidNumbers DEF TimeTypes, StartDeadline
  <2>6. now < deadline[h]
      BY <2>3, <2>4, <2>5
  <2>7. sent[h] = <<>> => now < StartDeadline(h)
      BY <2>3, <2>4, <2>5
  <2> QED
      BY <2>4, <2>6, <2>7
<1> DEFINE Timely == \A h \in Helpers :
                        Submits(h) /\ part[h] = "body" =>
                            /\ now < requestedAt[h] + IoBudget + Gained(h)
                            /\ sent[h] = <<>> => now < StartDeadline(h)
<1>2. IInv /\ DueInv /\ [Next]_vars => [Timely]_vars
    BY <1>1
<1>3. Spec => [](IInv /\ SentInv /\ DueInv)
    BY IInit, IStep, SentStarts, SentStep, DueStarts, DueStep, PTL DEF Spec
<1> QED
    BY <1>2, <1>3, PTL DEF Spec, InTime

-----------------------------------------------------------------------------
(* GlkvmExport.  What each manager said is tied to the request that asked it, and *)
(* what an answer is made of to the values a manager can give: CacheInv, AnswerInv. *)

\* The values a manager gives, whichever sources the firmware registers.
PartOf(info, F) == [p \in {q \in DOMAIN info : Head(q) \in F} |-> info[p]]
Told(m) ==
    CASE m = "atx" -> Atxs
      [] m = "info" -> {PartOf(i, F) : i \in Infos, F \in SUBSET {"health", "fan"}}
      [] m = "gpio" -> Gpios
Notes == {Unread} \cup [at : Nat, value : Told("atx") \cup Told("info") \cup Told("gpio")]
Entries == [phase : {"none", "asking", "kept"}, began : Nat, until : Nat, got : [Managers -> Notes]]

\* A manager was read while the request ran.
ReadBetween(got, from, to) == \A m \in Managers : got[m].at \in from .. to /\ got[m].value \in Told(m)

CacheInv ==
    /\ cache \in Entries /\ elapsed \in Nat
    /\ cache.phase = "none" => cache = NoEntry
    /\ cache.phase = "asking" => cache.began <= elapsed
    /\ cache.phase = "asking" => \A m \in Managers :
          cache.got[m] = Unread \/ (cache.got[m].at \in cache.began .. elapsed /\ cache.got[m].value \in Told(m))
    /\ cache.phase = "kept" => elapsed <= cache.until /\ ReadBetween(cache.got, cache.began, cache.until - Ttl)
AnswerInv ==
    answer.status = 200 =>
       /\ answer.entry \in Entries /\ answer.sent <= answer.entry.until
       /\ ReadBetween(answer.entry.got, answer.entry.began, answer.entry.until - Ttl)
ExportInv == ExportTypeOK /\ CacheInv /\ AnswerInv

LEMMA NoEntryIsOne == NoEntry \in Entries /\ NoEntry.phase = "none" /\ NoEntry.began = 0
BY DEF NoEntry, Entries, Notes

\* What a manager answers, on any firmware.
LEMMA ValuesAreTold == \A m \in Managers : Values(m) \subseteq Told(m)
<1>1. Values("info") \subseteq Told("info")
  <2>1. Fields \in SUBSET {"health", "fan"}
      BY DEF Fields
  <2> QED
      BY <2>1 DEF Values, Told, PartOf
<1>2. Values("atx") \subseteq Told("atx") /\ Values("gpio") \subseteq Told("gpio")
    BY DEF Values, Told
<1> QED
    BY <1>1, <1>2 DEF Managers

LEMMA ExportStarts == ExportInit => ExportInv
<1> SUFFICES ASSUME ExportInit
             PROVE  ExportInv
    OBVIOUS
<1>1. CacheInv
    BY NoEntryIsOne DEF ExportInit, CacheInv
<1>2. AnswerInv
    BY DEF ExportInit, AnswerInv, Unanswered
<1>3. ExportTypeOK
    BY NoEntryIsOne DEF ExportInit, ExportTypeOK, Waiting, Unanswered
<1> QED
    BY <1>1, <1>2, <1>3 DEF ExportInv

LEMMA BootKeeps == ASSUME ExportInv, NEW pyc \in {"verified", "other", "missing"}, Boots(pyc)
                   PROVE  ExportInv'
<1> USE DEF ExportInv, Boots
<1>1. CacheInv'
    BY NoEntryIsOne DEF CacheInv
<1>2. AnswerInv'
    BY DEF AnswerInv, Unanswered
<1>3. module' \in {"copy", "vendor", "none"} /\ subs' \subseteq {"health", "fan", "hw"}
    BY DEF Imported
<1>4. Waiting' = {} /\ \A s \in Scrapers : asked'[s] = -1
    BY DEF Waiting
<1>5. answer'.status = 0 /\ cache'.phase = "none" /\ elapsed' = elapsed /\ elapsed \in Nat
    BY NoEntryIsOne DEF Unanswered, CacheInv
<1>6. ExportTypeOK'
    BY <1>3, <1>4, <1>5 DEF ExportTypeOK
<1> QED
    BY <1>1, <1>2, <1>6

\* An answer from a cache that is kept, or has been completed.
LEMMA OkIsWhole ==
    ASSUME ExportInv, NEW to, NEW entry \in Entries, answer' = Ok(to, entry), elapsed <= entry.until,
           ReadBetween(entry.got, entry.began, entry.until - Ttl)
    PROVE  AnswerInv' /\ answer'.status = 200
<1>1. answer'.status = 200 /\ answer'.entry = entry /\ answer'.sent = elapsed
    BY DEF Ok
<1> QED
    BY <1>1 DEF AnswerInv, ReadBetween

LEMMA ScrapeKeeps == ASSUME ExportInv, NEW s \in Scrapers, Scrape(s)
                     PROVE  ExportInv'
<1> USE DEF ExportInv
<1>1. elapsed \in Nat /\ elapsed' = elapsed /\ cache \in Entries /\ UNCHANGED <<subs, module>>
    BY DEF CacheInv, Scrape
<1>2. CASE cache.phase = "kept"
  <2>1. answer' = Ok({s}, cache) /\ cache' = cache /\ asked' = asked
      BY <1>2 DEF Scrape
  <2>2. AnswerInv' /\ answer'.status = 200
      BY <1>1, <1>2, <2>1, OkIsWhole DEF CacheInv
  <2>3. CacheInv'
      BY <1>1, <2>1 DEF CacheInv
  <2>4. ExportTypeOK'
      BY <1>1, <2>1, <2>2 DEF ExportTypeOK, Waiting
  <2> QED
      BY <2>2, <2>3, <2>4
<1>3. CASE cache.phase # "kept"
  <2>1. /\ asked' = [asked EXCEPT ![s] = elapsed] /\ answer' = answer
        /\ cache' = IF cache.phase = "none" THEN [cache EXCEPT !.phase = "asking", !.began = elapsed] ELSE cache
      BY <1>3 DEF Scrape
  <2>2. cache' \in Entries /\ cache'.phase = "asking" /\ cache'.got = cache.got
        /\ (cache.phase = "none" => cache'.began = elapsed) /\ (cache.phase # "none" => cache' = cache)
      BY <1>1, <1>3, <2>1 DEF Entries
  <2>3. CacheInv'
    <3>1. CASE cache.phase = "none"
      <4>1. \A m \in Managers : cache'.got[m] = Unread
          BY <2>2, <3>1 DEF CacheInv, NoEntry
      <4> QED
          BY <1>1, <2>2, <3>1, <4>1 DEF CacheInv
    <3>2. CASE cache.phase # "none"
        BY <1>1, <2>2, <3>2 DEF CacheInv
    <3> QED
        BY <3>1, <3>2
  <2>4. AnswerInv'
      BY <2>1 DEF AnswerInv
  <2>5. \A t \in Scrapers : asked'[t] \in -1 .. elapsed
      BY <1>1, <2>1 DEF ExportTypeOK
  <2>6. ExportTypeOK'
      BY <1>1, <2>1, <2>2, <2>5 DEF ExportTypeOK
  <2> QED
      BY <2>3, <2>4, <2>6
<1> QED
    BY <1>2, <1>3

LEMMA AnswersKeeps == ASSUME ExportInv, NEW m \in Managers, ManagerAnswers(m)
                      PROVE  ExportInv'
<1> USE DEF ExportInv
<1>1. /\ elapsed \in Nat /\ cache \in Entries /\ cache.phase = "asking"
      /\ UNCHANGED <<subs, module, asked, answer, elapsed>>
    BY DEF CacheInv, ManagerAnswers
<1>2. PICK v \in Values(m) : cache' = [cache EXCEPT !.got[m] = [at |-> elapsed, value |-> v]]
    BY DEF ManagerAnswers
<1>3. v \in Told(m) /\ v \in Told("atx") \cup Told("info") \cup Told("gpio")
    BY <1>2, ValuesAreTold DEF Managers
<1>4. /\ cache' \in Entries /\ cache'.phase = "asking" /\ cache'.began = cache.began
      /\ cache'.got = [cache.got EXCEPT ![m] = [at |-> elapsed, value |-> v]]
    BY <1>1, <1>2, <1>3 DEF Entries, Notes
<1>5. ASSUME NEW n \in Managers
      PROVE  cache'.got[n] = Unread \/ (cache'.got[n].at \in cache.began .. elapsed /\ cache'.got[n].value \in Told(n))
  <2>1. cache.got \in [Managers -> Notes]
      BY <1>1 DEF Entries
  <2>2. CASE n = m
    <3>1. cache'.got[n] = [at |-> elapsed, value |-> v]
        BY <1>4, <2>1, <2>2
    <3>2. cache.began <= elapsed /\ cache.began \in Nat
        BY <1>1 DEF CacheInv, Entries
    <3> QED
        BY <1>1, <1>3, <2>2, <3>1, <3>2
  <2>3. CASE n # m
    <3>1. cache'.got[n] = cache.got[n]
        BY <1>4, <2>1, <2>3
    <3> QED
        BY <1>1, <3>1 DEF CacheInv
  <2> QED
      BY <2>2, <2>3
<1>6. CacheInv'
    BY <1>1, <1>4, <1>5 DEF CacheInv
<1>7. AnswerInv' /\ ExportTypeOK'
    BY <1>1, <1>4 DEF AnswerInv, ExportTypeOK, Waiting
<1> QED
    BY <1>6, <1>7

LEMMA FailsKeeps == ASSUME ExportInv, NEW m \in Managers, NEW broken \in BOOLEAN, Fails(m, broken)
                    PROVE  ExportInv'
<1> USE DEF ExportInv
<1>1. /\ elapsed \in Nat /\ cache' = NoEntry /\ UNCHANGED <<subs, module, elapsed>>
      /\ asked' = [s \in Scrapers |-> -1]
      /\ answer' = IF Waiting = {} THEN answer ELSE Error(Waiting)
    BY DEF CacheInv, Fails, Forgotten
<1>2. answer' = answer \/ answer'.status = 500
    BY <1>1 DEF Error, Unanswered
<1>3. CacheInv'
    BY <1>1, NoEntryIsOne DEF CacheInv
<1>4. AnswerInv'
    BY <1>2 DEF AnswerInv
<1>5. Waiting' = {} /\ \A s \in Scrapers : asked'[s] \in -1 .. elapsed
    BY <1>1 DEF Waiting
<1>6. ExportTypeOK'
    BY <1>1, <1>2, <1>5, NoEntryIsOne DEF ExportTypeOK
<1> QED
    BY <1>3, <1>4, <1>6

LEMMA AnsweredKeeps == ExportInv /\ Answered => ExportInv'
<1> SUFFICES ASSUME ExportInv, Answered
             PROVE  ExportInv'
    OBVIOUS
<1> USE DEF ExportInv
<1> DEFINE entry == [cache EXCEPT !.phase = "kept", !.until = elapsed + Ttl]
<1>1. /\ elapsed \in Nat /\ cache \in Entries /\ cache' = entry /\ UNCHANGED <<subs, module, elapsed>>
      /\ cache.phase = "asking" /\ \A m \in Managers : cache.got[m] # Unread
      /\ asked' = [s \in Scrapers |-> -1]
      /\ answer' = IF Waiting = {} THEN answer ELSE Ok(Waiting, entry)
    BY DEF CacheInv, Answered
<1>2. /\ entry \in Entries /\ entry.phase = "kept" /\ entry.got = cache.got /\ entry.began = cache.began
      /\ entry.until = elapsed + Ttl /\ entry.until - Ttl = elapsed /\ elapsed <= entry.until
  <2>1. elapsed + Ttl \in Nat /\ elapsed + Ttl - Ttl = elapsed /\ elapsed <= elapsed + Ttl
      BY <1>1, ExportAssumption
  <2>2. /\ entry.phase = "kept" /\ entry.got = cache.got /\ entry.began = cache.began
        /\ entry.until = elapsed + Ttl
      BY <1>1 DEF Entries
  <2>3. entry \in Entries
      BY <1>1, <2>1 DEF Entries
  <2> HIDE DEF entry
  <2>4. entry.until - Ttl = elapsed
    <3>1. entry.until = elapsed + Ttl /\ elapsed \in Nat /\ Ttl \in Nat
        BY <1>1, <2>2, ExportAssumption
    <3> QED
        BY <3>1
  <2>5. elapsed <= entry.until
      BY <2>1, <2>2
  <2> QED
      BY <2>2, <2>3, <2>4, <2>5
<1> HIDE DEF entry
<1>3. ReadBetween(entry.got, entry.began, entry.until - Ttl)
    BY <1>1, <1>2 DEF CacheInv, ReadBetween
<1>4. CacheInv'
    BY <1>1, <1>2, <1>3 DEF CacheInv, ReadBetween
<1>5. AnswerInv' /\ answer'.status \in {0, 200, 500}
  <2>1. CASE Waiting = {}
      BY <1>1, <2>1 DEF AnswerInv, ExportTypeOK
  <2>2. CASE Waiting # {}
      BY <1>1, <1>2, <1>3, <2>2, OkIsWhole
  <2> QED
      BY <2>1, <2>2
<1>6. Waiting' = {} /\ \A s \in Scrapers : asked'[s] \in -1 .. elapsed
    BY <1>1 DEF Waiting
<1>7. ExportTypeOK'
    BY <1>1, <1>2, <1>5, <1>6 DEF ExportTypeOK
<1> QED
    BY <1>4, <1>5, <1>7

LEMMA GivesUpKeeps == ASSUME ExportInv, NEW s \in Scrapers, GivesUp(s)
                      PROVE  ExportInv'
<1> USE DEF ExportInv, GivesUp
<1>1. elapsed \in Nat
    BY DEF CacheInv
<1>2. \A t \in Scrapers : asked'[t] \in -1 .. elapsed /\ (asked'[t] # -1 => asked[t] # -1)
    BY <1>1 DEF ExportTypeOK
<1>3. ExportTypeOK'
    BY <1>2 DEF ExportTypeOK, Waiting
<1> QED
    BY <1>3 DEF CacheInv, AnswerInv

LEMMA TimeKeeps == ExportInv /\ (Expired \/ SecondPasses \/ UNCHANGED evars) => ExportInv'
<1> SUFFICES ASSUME ExportInv, Expired \/ SecondPasses \/ UNCHANGED evars
             PROVE  ExportInv'
    OBVIOUS
<1> USE DEF ExportInv
<1>1. UNCHANGED <<subs, module, asked, answer>>
    BY DEF Expired, SecondPasses, evars
<1>2. CASE Expired
  <2>1. cache' = NoEntry /\ elapsed' = elapsed /\ cache.phase = "kept"
      BY <1>2 DEF Expired, Forgotten
  <2>2. CacheInv'
      BY <2>1, NoEntryIsOne DEF CacheInv
  <2>3. ExportTypeOK' /\ AnswerInv'
      BY <1>1, <2>1, NoEntryIsOne DEF ExportTypeOK, AnswerInv, Waiting
  <2> QED
      BY <2>2, <2>3
<1>3. CASE SecondPasses
  <2>1. /\ elapsed' = elapsed + 1 /\ cache' = cache /\ elapsed \in Nat /\ cache \in Entries
        /\ cache.phase = "kept" => ~(elapsed >= cache.until)
      BY <1>3 DEF SecondPasses, CacheInv
  <2>2. cache.began \in Nat /\ cache.until \in Nat
      BY <2>1 DEF Entries
  <2>3. CacheInv'
      BY <2>1, <2>2 DEF CacheInv
  <2>4. ExportTypeOK' /\ AnswerInv'
      BY <1>1, <2>1 DEF ExportTypeOK, AnswerInv, Waiting
  <2> QED
      BY <2>3, <2>4
<1>4. CASE UNCHANGED evars
    BY <1>4 DEF evars, CacheInv, AnswerInv, ExportTypeOK, Waiting
<1> QED
    BY <1>2, <1>3, <1>4

LEMMA ExportStep == ExportInv /\ [ExportNext]_evars => ExportInv'
BY BootKeeps, ScrapeKeeps, AnswersKeeps, FailsKeeps, AnsweredKeeps, GivesUpKeeps, TimeKeeps DEF ExportNext

\* Rows of one name are one row, and the states of the channels are in them.
LEMMA RowsTell ==
    ASSUME NEW got, \A m \in Managers : got[m].value \in Told(m)
    PROVE  LET gpio == got["gpio"].value
               metrics == Rows(got)
           IN /\ \A r, q \in metrics : r.name = q.name => r = q
              /\ {r \in metrics : Head(r.name) = "gpio" /\ r.name[3] = "state"} =
                   {[name |-> <<"gpio", c[1], "state", c[2]>>, value |-> gpio[c]] :
                       c \in {d \in DOMAIN gpio : d[2] \notin Hidden}}
<1> DEFINE gpio == got["gpio"].value
           info == got["info"].value
           Kept == {d \in DOMAIN gpio : d[2] \notin Hidden}
           Atx == {[name |-> <<"atx", key>>, value |-> got["atx"].value[key]] : key \in {"enabled", "power"}}
           States == {[name |-> <<"gpio", c[1], "state", c[2]>>, value |-> gpio[c]] : c \in Kept}
<1>1. gpio \in Gpios /\ \A c \in DOMAIN gpio : c = <<c[1], c[2]>>
    BY PathsAssumption DEF Told, Managers
<1>2. PICK i \in Infos : \E F \in SUBSET {"health", "fan"} : info = PartOf(i, F)
  <2>1. info \in Told("info")
      BY DEF Managers
  <2>2. Told("info") = {PartOf(i, F) : i \in Infos, F \in SUBSET {"health", "fan"}}
      BY DEF Told
  <2> HIDE DEF info
  <2> QED
      BY <2>1, <2>2
<1>3. \A p \in DOMAIN info : p \in DOMAIN i /\ info[p] = i[p] /\ Head(p) \in {"health", "fan"}
    BY <1>2 DEF PartOf
<1>4. Rows(got) = Atx \cup GpioRows(gpio) \cup InfoRows(info)
    BY DEF Rows
<1>5. \A r \in Atx : Head(r.name) = "atx" /\ \E key \in {"enabled", "power"} :
           r = [name |-> <<"atx", key>>, value |-> got["atx"].value[key]]
    OBVIOUS
<1>6. \A r \in GpioRows(gpio) : Head(r.name) = "gpio" /\ \E c \in Kept, key \in {"online", "state"} :
           r = [name |-> <<"gpio", c[1], key, c[2]>>, value |-> gpio[c]]
    BY DEF GpioRows
<1>7. \A r \in InfoRows(info) : Head(r.name) \in {"health", "fan"} /\ \E p \in DOMAIN i :
           i[p] # NoNumber /\ r = [name |-> PathName(p), value |-> i[p]]
    BY <1>3, PathsAssumption DEF InfoRows
<1>8. \A r, q \in Atx : r.name = q.name => r = q
    BY <1>5
<1>9. \A r, q \in GpioRows(gpio) : r.name = q.name => r = q
  <2> SUFFICES ASSUME NEW r \in GpioRows(gpio), NEW q \in GpioRows(gpio), r.name = q.name
               PROVE  r = q
      OBVIOUS
  <2>1. PICK c \in Kept, key \in {"online", "state"} : r = [name |-> <<"gpio", c[1], key, c[2]>>, value |-> gpio[c]]
      BY <1>6
  <2>2. PICK d \in Kept, other \in {"online", "state"} : q = [name |-> <<"gpio", d[1], other, d[2]>>, value |-> gpio[d]]
      BY <1>6
  <2>3. c[1] = d[1] /\ c[2] = d[2] /\ key = other
      BY <2>1, <2>2
  <2>4. c = d
      BY <1>1, <2>3
  <2> QED
      BY <2>1, <2>2, <2>3, <2>4
<1>10. \A r, q \in InfoRows(info) : r.name = q.name => r = q
  <2> SUFFICES ASSUME NEW r \in InfoRows(info), NEW q \in InfoRows(info), r.name = q.name
               PROVE  r = q
      OBVIOUS
  <2>1. PICK p \in DOMAIN i : i[p] # NoNumber /\ r = [name |-> PathName(p), value |-> i[p]]
      BY <1>7
  <2>2. PICK o \in DOMAIN i : i[o] # NoNumber /\ q = [name |-> PathName(o), value |-> i[o]]
      BY <1>7
  <2>3. p = o
      BY <2>1, <2>2, PathsAssumption
  <2> QED
      BY <2>1, <2>2, <2>3
<1> HIDE DEF Atx
<1>11. \A r, q \in Rows(got) : r.name = q.name => r = q
    BY <1>4, <1>5, <1>6, <1>7, <1>8, <1>9, <1>10
<1>12. {r \in Rows(got) : Head(r.name) = "gpio" /\ r.name[3] = "state"} = States
  <2>1. ASSUME NEW r \in Rows(got), Head(r.name) = "gpio", r.name[3] = "state"
        PROVE  r \in States
    <3>1. r \in GpioRows(gpio)
        BY <2>1, <1>4, <1>5, <1>7
    <3>2. PICK c \in Kept, key \in {"online", "state"} : r = [name |-> <<"gpio", c[1], key, c[2]>>, value |-> gpio[c]]
        BY <3>1, <1>6
    <3>3. key = "state"
        BY <2>1, <3>2
    <3> QED
        BY <3>2, <3>3
  <2>2. ASSUME NEW r \in States
        PROVE  r \in Rows(got) /\ Head(r.name) = "gpio" /\ r.name[3] = "state"
    <3>1. PICK c \in Kept : r = [name |-> <<"gpio", c[1], "state", c[2]>>, value |-> gpio[c]]
        BY <2>2
    <3>2. r \in GpioRows(gpio)
      <4> DEFINE Metric(d, key) == [name |-> <<"gpio", d[1], key, d[2]>>, value |-> gpio[d]]
      <4>1. r = Metric(c, "state")
          BY <3>1
      <4>2. GpioRows(gpio) = {Metric(d, key) : d \in Kept, key \in {"online", "state"}}
          BY DEF GpioRows
      <4> HIDE DEF Metric, Kept
      <4> QED
          BY <4>1, <4>2
    <3> QED
        BY <1>4, <3>1, <3>2
  <2> QED
      BY <2>1, <2>2
<1> QED
    BY <1>11, <1>12

\* Every scrape is answered from one whole and recent state of the appliance, for any
\* states, number of scrapers and time a state is kept (export.py).
THEOREM ExportIsSafe == ExportSpec => []ExportSafe
<1>1. ExportInv => ExportSafe
  <2> SUFFICES ASSUME ExportInv
               PROVE  ExportSafe
      OBVIOUS
  <2>1. AnswersAreWholeAndRecent
      BY DEF ExportInv, AnswerInv, ReadBetween, AnswersAreWholeAndRecent
  <2>2. RowsAreTheState
    <3> SUFFICES ASSUME answer.status = 200
                 PROVE  RowsAreTheState
        BY DEF RowsAreTheState
    <3>1. \A m \in Managers : answer.entry.got[m].value \in Told(m)
        BY DEF ExportInv, AnswerInv, ReadBetween
    <3> QED
        BY <3>1, RowsTell DEF RowsAreTheState
  <2> QED
      BY <2>1, <2>2 DEF ExportSafe, ExportInv
<1> QED
    BY <1>1, ExportStarts, ExportStep, PTL DEF ExportSpec

\* A scrape is answered 500 only where a manager failed while it waited.
THEOREM ErrorsAreOfManagers == ExportSpec => FailsOnlyWithAManager
<1> DEFINE Blamed == answer' # answer /\ answer'.status = 500 => failedAt' = elapsed /\ \A s \in answer'.to : asked[s] # -1
<1>1. ASSUME [ExportNext]_evars
      PROVE  Blamed
  <2> SUFFICES ASSUME answer' # answer, answer'.status = 500
               PROVE  failedAt' = elapsed /\ \A s \in answer'.to : asked[s] # -1
      OBVIOUS
  <2>1. PICK m \in Managers, broken \in BOOLEAN : Fails(m, broken)
      BY <1>1 DEF ExportNext, evars, Boots, Unanswered, Scrape, Ok, GivesUp, ManagerAnswers, Answered, Expired, SecondPasses
  <2>2. broken
      BY <2>1 DEF Fails, Fields
  <2>3. answer'.to = Waiting
      BY <2>1 DEF Fails, Error, Unanswered
  <2> QED
      BY <2>1, <2>2, <2>3 DEF Fails, Waiting
<1> QED
    BY <1>1, PTL DEF ExportSpec, FailsOnlyWithAManager
-----------------------------------------------------------------------------
(* HomeOverview.  A row that is dropped says the same as one of a rule     *)
(* before its own (JoinedKeeps), and those that can say the same stand the *)
(* loudest first (LoudestFirst); the rest is true of any readings that     *)
(* have their types.                                                       *)

OverviewInv == OverviewTypeOK /\ samples \in [HealthCounts -> Seq(Readings)]

LEMMA JoinedKeeps ==
    ASSUME NEW rules, Len(rules) \in Nat
    PROVE  /\ \A r \in Joined(rules) : \E i \in 1 .. Len(rules) : r \in rules[i]
           /\ \A i \in 1 .. Len(rules) : \A q \in rules[i] :
                 \E j \in 1 .. i : \E r \in Joined(rules) : r \in rules[j] /\ Said(r) = Said(q)
<1> DEFINE n == Len(rules)
           All == UNION {rules[i] : i \in 1 .. n}
           Body(f, i) == IF i = 0 THEN {} ELSE Or(f[i - 1], rules[i])
           step == [i \in 1 .. n |-> [s \in SUBSET All |-> Or(s, rules[i])]]
           upTo == CHOOSE f : f = [i \in 0 .. n |-> Body(f, i)]
<1>1. n \in Nat
    OBVIOUS
<1>2. step \in [1 .. n -> [SUBSET All -> SUBSET All]]
  <2>1. ASSUME NEW i \in 1 .. n, NEW s \in SUBSET All
        PROVE  Or(s, rules[i]) \in SUBSET All
      BY DEF Or
  <2> HIDE DEF All
  <2> QED
      BY <2>1
<1>3. {} \in SUBSET All
    OBVIOUS
<1> HIDE DEF step, All, n
<1>4. PICK f \in [0 .. n -> SUBSET All] : Takes(f, n, {}, step)
    BY <1>1, <1>2, <1>3, Recursion
<1>5. \A i \in 0 .. n : f[i] = Body(f, i)
  <2>1. f[0] = {} /\ \A i \in 1 .. n : f[i] = step[i][f[i - 1]]
      BY <1>4 DEF Takes
  <2>2. ASSUME NEW i \in 1 .. n
        PROVE  f[i] = Body(f, i)
    <3>1. i - 1 \in 0 .. n /\ i # 0 /\ f[i - 1] \in SUBSET All
        BY <1>1, <1>4
    <3> QED
        BY <2>1, <3>1 DEF step
  <2> QED
      BY <1>1, <2>1, <2>2
<1>6. f = [i \in 0 .. n |-> Body(f, i)]
    BY <1>4, <1>5
<1> HIDE DEF Body
<1>7. upTo = [i \in 0 .. n |-> Body(upTo, i)]
    BY <1>6
<1> USE DEF Body
<1>8. Joined(rules) = upTo[n]
    BY DEF Joined, n
<1> HIDE DEF upTo
<1>9. upTo[0] = {} /\ \A i \in 1 .. n : upTo[i] = Or(upTo[i - 1], rules[i])
  <2>1. 0 \in 0 .. n
      BY <1>1
  <2>2. upTo[0] = Body(upTo, 0)
      BY <1>7, <2>1
  <2>3. ASSUME NEW i \in 1 .. n
        PROVE  upTo[i] = Body(upTo, i) /\ i # 0
    <3>1. i \in 0 .. n /\ i # 0
        BY <1>1
    <3> QED
        BY <1>7, <3>1
  <2> QED
      BY <2>2, <2>3
<1> DEFINE From(i) == \A r \in upTo[i] : \E k \in 1 .. i : r \in rules[k]
           Kept(i) == \A k \in 1 .. i : \A q \in rules[k] : \E j \in 1 .. k : \E r \in upTo[i] : r \in rules[j] /\ Said(r) = Said(q)
           Good == {i \in 0 .. n : From(i) /\ Kept(i)}
<1>10. 0 \in Good
    BY <1>1, <1>9
<1>11. ASSUME NEW i \in 1 .. n, i - 1 \in Good
       PROVE  i \in Good
  <2>1. i - 1 \in 0 .. n /\ i \in Nat /\ upTo[i] = upTo[i - 1] \cup {r \in rules[i] : \A l \in upTo[i - 1] : Said(l) # Said(r)}
      BY <1>9, <1>11 DEF Or
  <2>2. From(i)
    <3> SUFFICES ASSUME NEW r \in upTo[i]
                 PROVE  \E k \in 1 .. i : r \in rules[k]
        OBVIOUS
    <3>1. CASE r \in upTo[i - 1]
      <4>1. PICK k \in 1 .. i - 1 : r \in rules[k]
          BY <1>11, <3>1
      <4> QED
          BY <2>1, <4>1
    <3>2. CASE r \in rules[i]
        BY <2>1, <3>2
    <3> QED
        BY <2>1, <3>1, <3>2
  <2>3. Kept(i)
    <3> SUFFICES ASSUME NEW k \in 1 .. i, NEW q \in rules[k]
                 PROVE  \E j \in 1 .. k : \E r \in upTo[i] : r \in rules[j] /\ Said(r) = Said(q)
        OBVIOUS
    <3>1. CASE k \in 1 .. i - 1
      <4>1. PICK j \in 1 .. k, r \in upTo[i - 1] : r \in rules[j] /\ Said(r) = Said(q)
          BY <1>11, <3>1
      <4> QED
          BY <2>1, <4>1
    <3>2. CASE k = i /\ q \in upTo[i]
        BY <2>1, <3>2
    <3>3. CASE k = i /\ q \notin upTo[i]
      <4>1. PICK l \in upTo[i - 1] : Said(l) = Said(q)
          BY <2>1, <3>3
      <4>2. PICK j \in 1 .. i - 1 : l \in rules[j]
          BY <1>11
      <4> QED
          BY <2>1, <3>3, <4>1, <4>2
    <3> QED
        BY <2>1, <3>1, <3>2, <3>3
  <2> QED
      BY <2>1, <2>2, <2>3
<1>12. n \in Good
  <2> HIDE DEF Good
  <2>1. 0 .. n \subseteq Good
      BY <1>1, <1>10, <1>11, UpTo
  <2> QED
      BY <1>1, <2>1
<1> QED
    BY <1>8, <1>12 DEF n

IsRow(r) == r = Row(r.system, r.thing, r.what, r.detail, r.level)

LEMMA RowIs ==
    ASSUME NEW system, NEW thing, NEW what, NEW detail, NEW level
    PROVE  LET row == Row(system, thing, what, detail, level)
           IN row.system = system /\ row.thing = thing /\ row.what = what /\ row.detail = detail /\ row.level = level
BY DEF Row

\* Rows that say the same say each thing the same.
LEMMA SaidAlike ==
    ASSUME NEW r, NEW q, IsRow(r), IsRow(q), Said(r) = Said(q)
    PROVE  r.system = q.system /\ r.thing = q.thing /\ r.what = q.what /\ r.detail = q.detail
<1>1. Said(r) = Row(r.system, r.thing, r.what, r.detail, 0) /\ Said(q) = Row(q.system, q.thing, q.what, q.detail, 0)
    BY DEF IsRow, Said, Row
<1>2. Row(r.system, r.thing, r.what, r.detail, 0) = Row(q.system, q.thing, q.what, q.detail, 0)
    BY <1>1
<1> QED
    BY <1>2, RowIs

\* Rows of one level are all a rule's.
LEMMA RuleIs ==
    ASSUME NEW these, NEW level \in Int, \A r \in these : r.level = level
    PROVE  Rule(these) = these
BY DEF Rule

\* What the rows of each rule are.
LevelOf == <<3, 2, 1, 2, 2, 1, 2, 2, 1, 2>>
Says(i, r) ==
    /\ i \in 1 .. 3 => \E a \in firing : r.what = a.name
    /\ i = 4 => r.what = "Collectors_silent"
    /\ i \in 5 .. 6 => r.what = "Disk_filling_up"
    /\ i = 7 => r.what = "Disk_nearly_full"
    /\ i \in 8 .. 9 => r.what = "Running_hot"
    /\ i = 10 => r.what \in HealthCounts /\ MinOverTime(samples[r.what])

LEMMA RulesSay ==
    /\ Len(R) = 10
    /\ \A i \in 1 .. 10 : \A r \in R[i] : IsRow(r) /\ r.level = LevelOf[i] /\ Says(i, r)
<1> USE DEF Row
<1>1. /\ Len(R) = 10
      /\ R[1] = Alerts(3) /\ R[2] = Alerts(2) /\ R[3] = Alerts(1) /\ R[4] = CollectorsSilent
      /\ R[5] = FillingUp(2, 0, 7) /\ R[6] = FillingUp(1, 7, 30) /\ R[7] = NearlyFull
      /\ R[8] = RunningHot(2, -273, 5) /\ R[9] = RunningHot(1, 5, 15) /\ R[10] = K8s
    BY DEF R
<1>2. ASSUME NEW these, NEW r \in Rule(these)
      PROVE  r \in these
    BY <1>2 DEF Rule
<1>3. ASSUME NEW level \in 1 .. 3, NEW r \in Alerts(level)
      PROVE  IsRow(r) /\ r.level = level /\ \E a \in firing : r.what = a.name
  <2>1. PICK a \in firing : r = Row(S(a.labels), a.thing, a.name, a.detail, level)
      BY <1>2 DEF Alerts
  <2> QED
      BY <2>1 DEF IsRow
<1>4. ASSUME NEW r \in CollectorsSilent
      PROVE  IsRow(r) /\ r.level = 2 /\ r.what = "Collectors_silent"
  <2>1. PICK l \in unheard : r = Row(S(l), "", "Collectors_silent", "affected", 2)
      BY <1>2 DEF CollectorsSilent
  <2> QED
      BY <2>1 DEF IsRow
<1>5. ASSUME NEW level, NEW from, NEW below, NEW r \in FillingUp(level, from, below)
      PROVE  IsRow(r) /\ r.level = level /\ r.what = "Disk_filling_up"
  <2>1. PICK d \in Growing : r = Row(S(d.labels), d.thing, "Disk_filling_up", "days", level)
      BY <1>2 DEF FillingUp
  <2> QED
      BY <2>1 DEF IsRow
<1>6. ASSUME NEW r \in NearlyFull
      PROVE  IsRow(r) /\ r.level = 2 /\ r.what = "Disk_nearly_full"
  <2>1. PICK d \in Disks : r = Row(S(d.labels), d.thing, "Disk_nearly_full", "used", 2)
      BY <1>2 DEF NearlyFull
  <2> QED
      BY <2>1 DEF IsRow
<1>7. ASSUME NEW level, NEW from, NEW below, NEW r \in RunningHot(level, from, below)
      PROVE  IsRow(r) /\ r.level = level /\ r.what = "Running_hot"
  <2>1. PICK h \in Hosts : r = Row(S(h.labels), h.thing, "Running_hot", "C", level)
      BY <1>2 DEF RunningHot
  <2> QED
      BY <2>1 DEF IsRow
<1>8. ASSUME NEW r \in K8s
      PROVE  IsRow(r) /\ r.level = 2 /\ r.what \in HealthCounts /\ MinOverTime(samples[r.what])
  <2>1. PICK c \in HealthCounts : MinOverTime(samples[c]) /\ r = Row("k8s-prod", "", c, "affected", 2)
      BY <1>2 DEF K8s
  <2> QED
      BY <2>1 DEF IsRow
<1> SUFFICES ASSUME NEW i \in 1 .. 10, NEW r \in R[i]
             PROVE  IsRow(r) /\ r.level = LevelOf[i] /\ Says(i, r)
    BY <1>1
<1> HIDE DEF Row
<1>9. CASE i = 1
    BY <1>1, <1>3, <1>9 DEF LevelOf, Says
<1>10. CASE i = 2
    BY <1>1, <1>3, <1>10 DEF LevelOf, Says
<1>11. CASE i = 3
    BY <1>1, <1>3, <1>11 DEF LevelOf, Says
<1>12. CASE i = 4
  <2>1. IsRow(r) /\ r.level = 2 /\ r.what = "Collectors_silent"
      BY <1>1, <1>4, <1>12
  <2>2. LevelOf[4] = 2
      BY DEF LevelOf
  <2> QED
      BY <1>12, <2>1, <2>2 DEF Says
<1>13. CASE i = 5
  <2>1. IsRow(r) /\ r.level = 2 /\ r.what = "Disk_filling_up"
      BY <1>1, <1>5, <1>13
  <2>2. LevelOf[5] = 2
      BY DEF LevelOf
  <2> QED
      BY <1>13, <2>1, <2>2 DEF Says
<1>14. CASE i = 6
  <2>1. IsRow(r) /\ r.level = 1 /\ r.what = "Disk_filling_up"
      BY <1>1, <1>5, <1>14
  <2>2. LevelOf[6] = 1
      BY DEF LevelOf
  <2> QED
      BY <1>14, <2>1, <2>2 DEF Says
<1>15. CASE i = 7
  <2>1. IsRow(r) /\ r.level = 2 /\ r.what = "Disk_nearly_full"
      BY <1>1, <1>6, <1>15
  <2>2. LevelOf[7] = 2
      BY DEF LevelOf
  <2> QED
      BY <1>15, <2>1, <2>2 DEF Says
<1>16. CASE i = 8
  <2>1. IsRow(r) /\ r.level = 2 /\ r.what = "Running_hot"
      BY <1>1, <1>7, <1>16
  <2>2. LevelOf[8] = 2
      BY DEF LevelOf
  <2> QED
      BY <1>16, <2>1, <2>2 DEF Says
<1>17. CASE i = 9
  <2>1. IsRow(r) /\ r.level = 1 /\ r.what = "Running_hot"
      BY <1>1, <1>7, <1>17
  <2>2. LevelOf[9] = 1
      BY DEF LevelOf
  <2> QED
      BY <1>17, <2>1, <2>2 DEF Says
<1>18. CASE i = 10
    BY <1>1, <1>8, <1>18 DEF LevelOf, Says
<1> QED
    BY <1>9, <1>10, <1>11, <1>12, <1>13, <1>14, <1>15, <1>16, <1>17, <1>18

\* Of rules that can say the same the earlier is the louder.
LEMMA LoudestFirst ==
    ASSUME OverviewTypeOK, NEW i \in 1 .. 10, NEW j \in 1 .. i, NEW r \in R[j], NEW q \in R[i], Said(r) = Said(q)
    PROVE  r.level >= q.level
<1>1. r.what = q.what /\ r.level = LevelOf[j] /\ q.level = LevelOf[i] /\ Says(j, r) /\ Says(i, q)
    BY SaidAlike, RulesSay
<1>2. \A a \in firing : a.name \notin HealthCounts \cup RuleWords
    BY OverviewAssumption DEF OverviewTypeOK
<1>3. HealthCounts \cap RuleWords = {}
    BY OverviewAssumption
<1>4. \/ i \in 1 .. 3 /\ j \in 1 .. 3
      \/ i = 4 /\ j = 4
      \/ i \in 5 .. 6 /\ j \in 5 .. 6
      \/ i = 7 /\ j = 7
      \/ i \in 8 .. 9 /\ j \in 8 .. 9
      \/ i = 10 /\ j = 10
    BY <1>1, <1>2, <1>3 DEF Says, RuleWords
<1> QED
    BY <1>1, <1>4 DEF LevelOf

\* A row that is crossed is listed, as itself or as one at least as loud that says the same.
LEMMA CrossedIsListed ==
    ASSUME OverviewTypeOK
    PROVE  /\ \A r \in crossed : \E i \in 1 .. 10 : r \in R[i]
           /\ \A i \in 1 .. 10 : \A q \in R[i] :
                 \E r \in crossed : /\ r.system = q.system /\ r.thing = q.thing /\ r.what = q.what
                                    /\ r.level >= q.level
<1>1. Len(R) = 10
    BY RulesSay
<1>2. \A r \in crossed : \E i \in 1 .. 10 : r \in R[i]
  <2>1. Len(R) \in Nat /\ 1 .. Len(R) = 1 .. 10
      BY <1>1
  <2>2. \A r \in Joined(R) : \E i \in 1 .. Len(R) : r \in R[i]
      BY <2>1, JoinedKeeps, Zenon
  <2> QED
      BY <2>1, <2>2, Zenon DEF crossed
<1>3. ASSUME NEW i \in 1 .. 10, NEW q \in R[i]
      PROVE  \E r \in crossed : r.system = q.system /\ r.thing = q.thing /\ r.what = q.what /\ r.level >= q.level
  <2>1. PICK j \in 1 .. i, r \in crossed : r \in R[j] /\ Said(r) = Said(q)
    <3>1. i \in 1 .. Len(R) /\ Len(R) \in Nat
        BY <1>1
    <3>2. \E k \in 1 .. i : \E p \in Joined(R) : p \in R[k] /\ Said(p) = Said(q)
        BY <3>1, JoinedKeeps
    <3> QED
        BY <3>2 DEF crossed
  <2>2. IsRow(r) /\ IsRow(q)
      BY <2>1, RulesSay
  <2> QED
      BY <2>1, <2>2, SaidAlike, LoudestFirst
<1> QED
    BY <1>2, <1>3

LEMMA LevelsAre ==
    ASSUME OverviewTypeOK, NEW i \in 1 .. 10, NEW r \in R[i]
    PROVE  r.level \in {1, 2, 3}
BY RulesSay DEF LevelOf

\* No system is called as the first tab is.
LEMMA SystemsNamed == \A c \in ToSet(SYSTEMS) : c # ""
<1> DEFINE first == ""
<1>1. /\ "k8s-prod" # first /\ "pve-sbx" # first /\ "spark" # first /\ "athena" # first
      /\ "network" # first /\ "power" # first /\ "devices" # first
    BY Zenon
<1> HIDE DEF first
<1>2. DOMAIN SYSTEMS = 1 .. 7 /\ \A i \in 1 .. 7 : SYSTEMS[i] # first
    BY <1>1 DEF SYSTEMS
<1>3. \A c \in ToSet(SYSTEMS) : c # first
    BY <1>2 DEF ToSet
<1> QED
    BY <1>3 DEF first

LEMMA OverviewLists == OverviewTypeOK => AlertsAreListed
<1> SUFFICES ASSUME OverviewTypeOK, NEW a \in firing
             PROVE  \E r \in Attention("") :
                       /\ r.thing = a.thing /\ r.what = a.name /\ r.level >= Level(a.severity)
                       /\ \A c \in ToSet(SYSTEMS) : r \in [t \in ToSet(SYSTEMS) |-> Attention(t)][c] <=> c = S(a.labels)
    BY DEF AlertsAreListed
<1> DEFINE level == Level(a.severity)
           row == Row(S(a.labels), a.thing, a.name, a.detail, level)
<1>1. level \in {1, 2, 3}
    BY DEF Level
<1>2. row.system = S(a.labels) /\ row.thing = a.thing /\ row.what = a.name /\ row.level = level
    BY DEF Row
<1>3. row \in Alerts(level)
  <2> DEFINE these == {Row(S(x.labels), x.thing, x.name, x.detail, level) : x \in {y \in firing : Level(y.severity) = level}}
  <2>1. row \in these
      OBVIOUS
  <2>2. \A r \in these : r.level = level
      BY DEF Row
  <2>3. level \in Int
      BY <1>1
  <2> HIDE DEF these, row, level
  <2>4. Rule(these) = these
      BY <2>2, <2>3, RuleIs
  <2> QED
      BY <2>1, <2>4 DEF Alerts, these
<1> HIDE DEF row, level
<1>4. PICK i \in 1 .. 3 : row \in R[i]
    BY <1>1, <1>3 DEF R
<1>5. PICK r \in crossed : r.system = row.system /\ r.thing = row.thing /\ r.what = row.what /\ r.level >= row.level
  <2>1. i \in 1 .. 10
      OBVIOUS
  <2> QED
      BY <1>4, <2>1, CrossedIsListed
<1>6. r \in Attention("") /\ r.level >= level
    BY <1>2, <1>5 DEF Attention, Listed
<1>8. \A c \in ToSet(SYSTEMS) : r \in Attention(c) <=> c = S(a.labels)
    BY <1>2, <1>5, SystemsNamed DEF Attention, Listed
<1> QED
    BY <1>2, <1>5, <1>6, <1>8 DEF level

LEMMA OverviewBoard == OverviewTypeOK => BoardShowsTheWorst
<1> SUFFICES ASSUME OverviewTypeOK, NEW c \in ToSet(SYSTEMS)
             PROVE  /\ Board(c, Listed(c, crossed)) # {}
                    /\ \A b \in Board(c, Listed(c, crossed)) :
                          /\ \A r \in Listed(c, UNION ToSet(R)) : r.level <= b.level
                          /\ b.level = 0 <=> QuietShown(Listed(c, crossed))
    BY DEF BoardShowsTheWorst
<1> DEFINE its == Listed(c, crossed)
           rules == Listed(c, UNION ToSet(R))
           top == Top(its)
           none == Row(c, "", "", "", 0)
<1>1. its = {r \in crossed : r.system = c}
  <2>1. c # ""
      BY SystemsNamed
  <2> QED
      BY <2>1 DEF Listed
<1>2. \A r \in its : r.level \in {1, 2, 3}
    BY <1>1, CrossedIsListed, LevelsAre
<1>0. rules = {q \in UNION {R[i] : i \in 1 .. 10} : q.system = c}
  <2>1. c # ""
      BY SystemsNamed
  <2>2. DOMAIN R = 1 .. 10
      BY DEF R
  <2>3. UNION ToSet(R) = UNION {R[i] : i \in 1 .. 10}
      BY <2>2 DEF ToSet
  <2> QED
      BY <2>1, <2>3 DEF Listed
<1>3. \A q \in rules : \E r \in its : r.level >= q.level
  <2> SUFFICES ASSUME NEW q \in rules
               PROVE  \E r \in its : r.level >= q.level
      OBVIOUS
  <2>1. PICK i \in 1 .. 10 : q \in R[i] /\ q.system = c
      BY <1>0
  <2> QED
      BY <1>1, <2>1, CrossedIsListed
<1>4. \A q \in rules : q.level \in {1, 2, 3}
    BY <1>0, LevelsAre
<1>5. top = {r \in its : \A q \in its : q.level <= r.level}
    BY DEF Top
<1>6. its # {} => top # {}
  <2>1. CASE \E r \in its : r.level = 3
      BY <1>2, <1>5, <2>1
  <2>2. CASE (\A r \in its : r.level # 3) /\ \E r \in its : r.level = 2
      BY <1>2, <1>5, <2>2
  <2>3. CASE (\A r \in its : r.level # 3) /\ \A r \in its : r.level # 2
      BY <1>2, <1>5, <2>3
  <2> QED
      BY <2>1, <2>2, <2>3
<1>7. none.level = 0 /\ Board(c, its) = IF top # {} THEN top ELSE {none}
    BY DEF Board, Row
<1>8. QuietShown(its) <=> its = {}
    BY DEF QuietShown
<1> HIDE DEF its, rules, top, none
<1>9. CASE its = {}
  <2>1. top = {} /\ rules = {}
      BY <1>3, <1>5, <1>9
  <2> QED
      BY <1>7, <1>8, <1>9, <2>1 DEF its, rules
<1>10. CASE its # {}
  <2>1. Board(c, its) = top /\ top # {}
      BY <1>6, <1>7, <1>10
  <2>2. ASSUME NEW b \in top, NEW r \in rules
        PROVE  r.level <= b.level
    <3>1. PICK q \in its : q.level >= r.level
        BY <1>3
    <3>2. q.level <= b.level /\ b \in its
        BY <1>5
    <3> QED
        BY <1>2, <1>4, <3>1, <3>2
  <2>3. \A b \in top : b.level # 0
      BY <1>2, <1>5
  <2> QED
      BY <1>8, <1>10, <2>1, <2>2, <2>3 DEF its, rules
<1> QED
    BY <1>9, <1>10

LEMMA OverviewCounts == OverviewInv => CountsHaveToStay
<1> SUFFICES ASSUME OverviewInv, NEW c \in HealthCounts
             PROVE  LET listed == \E r \in crossed : r.what = c
                        inTime == {i \in DOMAIN samples[c] : i > Len(samples[c]) - SampleWindow}
                    IN /\ listed => \A i \in inTime : samples[c][i] # "zero"
                       /\ inTime # {} /\ (\A i \in inTime : samples[c][i] = "some") => listed
    BY DEF CountsHaveToStay
<1> DEFINE listed == \E r \in crossed : r.what = c
           inTime == {i \in DOMAIN samples[c] : i > Len(samples[c]) - SampleWindow}
<1>0. OverviewTypeOK
    BY DEF OverviewInv
<1>1. ASSUME listed
      PROVE  MinOverTime(samples[c])
  <2>1. PICK r \in crossed : r.what = c
      BY <1>1
  <2>2. PICK i \in 1 .. 10 : r \in R[i]
      BY <1>0, CrossedIsListed
  <2>3. Says(i, r)
      BY <2>2, RulesSay
  <2>4. \A a \in firing : a.name # c
      BY <1>0, OverviewAssumption DEF OverviewTypeOK
  <2>5. c \notin RuleWords
      BY OverviewAssumption
  <2>6. i = 10
      BY <2>1, <2>3, <2>4, <2>5 DEF Says, RuleWords
  <2> QED
      BY <2>1, <2>3, <2>6 DEF Says
<1>2. samples[c] \in Seq(Readings) /\ Len(samples[c]) <= SampleWindow
    BY DEF OverviewInv, OverviewTypeOK
<1>3. inTime = DOMAIN samples[c]
  <2>1. SampleWindow \in Nat
      BY OverviewAssumption
  <2>2. Len(samples[c]) \in Nat /\ DOMAIN samples[c] = 1 .. Len(samples[c])
      BY <1>2
  <2> QED
      BY <1>2, <2>1, <2>2
<1>4. ASSUME inTime # {}, \A i \in inTime : samples[c][i] = "some"
      PROVE  listed
  <2> DEFINE blank == ""
             row == Row("k8s-prod", blank, c, "affected", 2)
  <2> HIDE DEF blank
  <2>1. MinOverTime(samples[c])
      BY <1>3, <1>4 DEF MinOverTime
  <2>2. row \in K8s
    <3> DEFINE these == {Row("k8s-prod", blank, n, "affected", 2) : n \in {d \in HealthCounts : MinOverTime(samples[d])}}
    <3>1. row \in these /\ \A r \in these : r.level = 2
        BY <2>1, RowIs
    <3> HIDE DEF these, row
    <3>2. Rule(these) = these
        BY <3>1, RuleIs
    <3> QED
        BY <3>1, <3>2 DEF K8s, these, blank
  <2>3. row.what = c
      BY RowIs
  <2> HIDE DEF row
  <2>4. row \in R[10] /\ 10 \in 1 .. 10
      BY <2>2 DEF R
  <2> QED
      BY <1>0, <2>3, <2>4, CrossedIsListed
<1> QED
    BY <1>1, <1>3, <1>4 DEF MinOverTime

\* What S makes of the labels the properties speak of.
LEMMA SystemOf ==
    ASSUME NEW labels
    PROVE  /\ labels.probe = "unifi-gateway" => S(labels) = "network"
           /\ labels.job = "blackbox" /\ labels.probe # "unifi-gateway" => S(labels) = "k8s-prod"
           /\ labels.job = "nut" /\ labels.probe # "unifi-gateway" => S(labels) = "power"
           /\ labels.family = "UPS" /\ labels.job = "" /\ labels.probe = "" => S(labels) = "power"
<1> DEFINE byCluster == IF labels.cluster \in {"k8s-prod", "pve-sbx"} THEN labels.cluster ELSE ""
           byPlatform == Lookup(PLATFORMS, labels.platform, byCluster)
           byFamily == Lookup(ALERT_FAMILIES, labels.family, byPlatform)
           jobs == [nut |-> "power", blackbox |-> "k8s-prod"]
           byJob == Lookup(jobs, labels.job, byFamily)
           byProbe == IF labels.probe = "unifi-gateway" THEN "network" ELSE byJob
           nothing == ""
<1>1. S(labels) = IF byProbe = nothing THEN "unassigned" ELSE byProbe
    BY DEF S
<1>2. nothing # "unifi-gateway" /\ nothing # "network" /\ nothing # "power" /\ nothing # "k8s-prod" /\ nothing # "nut" /\ nothing # "blackbox"
    BY Zenon
<1>3. /\ labels.job = "nut" => byJob = "power"
      /\ labels.job = "blackbox" => byJob = "k8s-prod"
      /\ labels.job = nothing => byJob = byFamily
  <2> HIDE DEF nothing, byFamily
  <2>1. DOMAIN jobs = {"nut", "blackbox"} /\ jobs["nut"] = "power" /\ jobs["blackbox"] = "k8s-prod"
      OBVIOUS
  <2> QED
      BY <1>2, <2>1 DEF Lookup
<1>4. labels.family = "UPS" => byFamily = "power"
  <2> HIDE DEF byPlatform
  <2> QED
      BY DEF Lookup, ALERT_FAMILIES
<1> HIDE DEF byJob, nothing, byFamily
<1>5. /\ labels.probe = "unifi-gateway" => byProbe = "network"
      /\ labels.probe # "unifi-gateway" => byProbe = byJob
    OBVIOUS
<1> HIDE DEF byProbe
<1>6. labels.family = "UPS" /\ labels.job = nothing /\ labels.probe = nothing => S(labels) = "power"
    BY <1>1, <1>2, <1>3, <1>4, <1>5
<1> QED
    BY <1>1, <1>2, <1>3, <1>5, <1>6 DEF nothing

LEMMA OverviewPlaces == OverviewTypeOK => PlacedByWhatItIsAbout
<1> SUFFICES ASSUME OverviewTypeOK
             PROVE  PlacedByWhatItIsAbout
    OBVIOUS
<1>1. ASSUME NEW labels \in Collectors \cup {a.labels : a \in AlertSeries}, NEW i \in 1 .. 10, NEW q \in R[i], q.system = S(labels)
      PROVE  ListedUnder(labels, {r \in crossed : r.what = q.what})
  <2>1. PICK r \in crossed : r.system = S(labels) /\ r.what = q.what
      BY <1>1, CrossedIsListed
  <2>2. \A tab \in {"network", "k8s-prod", "power"} : tab = S(labels) => r \in Attention(tab)
      BY <2>1 DEF Attention, Listed
  <2>3. labels.job = "nut" => labels.probe # "unifi-gateway"
      BY OverviewAssumption
  <2> QED
      BY <2>1, <2>2, <2>3, SystemOf DEF ListedUnder
<1>2. ASSUME NEW a \in firing
      PROVE  ListedUnder(a.labels, {r \in crossed : r.what = a.name})
  <2> DEFINE level == Level(a.severity)
             row == Row(S(a.labels), a.thing, a.name, a.detail, level)
             these == {Row(S(x.labels), x.thing, x.name, x.detail, level) : x \in {y \in firing : Level(y.severity) = level}}
  <2>1. level \in {1, 2, 3}
      BY DEF Level
  <2>2. row \in these /\ row.system = S(a.labels) /\ row.what = a.name /\ \A r \in these : r.level = level
      BY DEF Row
  <2> HIDE DEF these, row, level
  <2>3. Rule(these) = these
      BY <2>1, <2>2, RuleIs
  <2>4. row \in Alerts(level)
      BY <2>2, <2>3 DEF Alerts, these
  <2>5. PICK i \in 1 .. 3 : row \in R[i]
      BY <2>1, <2>4 DEF R
  <2>6. i \in 1 .. 10 /\ a.labels \in Collectors \cup {b.labels : b \in AlertSeries}
      BY DEF OverviewTypeOK
  <2> QED
      BY <1>1, <2>2, <2>5, <2>6
<1>3. ASSUME NEW l \in unheard
      PROVE  ListedUnder(l, {r \in crossed : r.what = "Collectors_silent"})
  <2> DEFINE blank == ""
             row == Row(S(l), blank, "Collectors_silent", "affected", 2)
             these == {Row(S(x), blank, "Collectors_silent", "affected", 2) : x \in unheard}
  <2> HIDE DEF blank
  <2>1. row \in these /\ row.system = S(l) /\ row.what = "Collectors_silent" /\ \A r \in these : r.level = 2
      BY RowIs
  <2> HIDE DEF these, row
  <2>2. Rule(these) = these
      BY <2>1, RuleIs
  <2>3. row \in CollectorsSilent
      BY <2>1, <2>2 DEF CollectorsSilent, these, blank
  <2>4. row \in R[4] /\ 4 \in 1 .. 10
      BY <2>3 DEF R
  <2>5. l \in Collectors \cup {b.labels : b \in AlertSeries}
      BY DEF OverviewTypeOK
  <2> QED
      BY <1>1, <2>1, <2>4, <2>5
<1> QED
    BY <1>2, <1>3 DEF PlacedByWhatItIsAbout

LEMMA WindowKeeps ==
    ASSUME NEW Kind, NEW old \in Seq(Kind), NEW x \in Kind, Len(old) <= SampleWindow
    PROVE  InWindow(Append(old, x)) \in Seq(Kind) /\ Len(InWindow(Append(old, x))) <= SampleWindow
<1> DEFINE new == Append(old, x)
<1>0. SampleWindow \in Nat
    BY OverviewAssumption
<1>1. SampleWindow \in Nat /\ Len(old) \in Nat
    BY <1>0
<1>2. new \in Seq(Kind) /\ Len(new) = Len(old) + 1
    OBVIOUS
<1>3. Tail(new) \in Seq(Kind) /\ Len(Tail(new)) = Len(old)
    BY <1>1, <1>2
<1> QED
    BY <1>1, <1>2, <1>3 DEF InWindow

LEMMA OverviewStarts == OverviewInit => OverviewInv
<1> SUFFICES ASSUME OverviewInit PROVE OverviewInv
    OBVIOUS
<1>1. samples \in [HealthCounts -> Seq(Readings)] /\ \A c \in HealthCounts : samples[c] = <<>>
    BY DEF OverviewInit
<1>2. SampleWindow \in Nat
    BY OverviewAssumption
<1>3. \A c \in HealthCounts : Len(samples[c]) <= SampleWindow /\ \A i \in DOMAIN samples[c] : samples[c][i] \in Readings
    BY <1>1, <1>2
<1> QED
    BY <1>1, <1>3 DEF OverviewInit, OverviewInv, OverviewTypeOK

LEMMA OverviewSteps == OverviewInv /\ [OverviewNext]_mvars => OverviewInv'
<1> SUFFICES ASSUME OverviewInv, [OverviewNext]_mvars PROVE OverviewInv'
    OBVIOUS
<1> USE DEF OverviewInv, OverviewTypeOK
<1>1. CASE \E a \in AlertSeries : AlertChanges(a)
    BY <1>1 DEF AlertChanges
<1>2. CASE \E l \in Collectors : CollectorChanges(l)
    BY <1>2 DEF CollectorChanges
<1>3. CASE \E d \in Disks : DiskChanges(d)
    BY <1>3 DEF DiskChanges
<1>4. CASE \E h \in Hosts : RoomChanges(h)
    BY <1>4 DEF RoomChanges
<1>5. CASE Sampled
  <2>1. PICK reading \in [HealthCounts -> Readings] :
            samples' = [c \in HealthCounts |-> InWindow(Append(samples[c], reading[c]))]
      BY <1>5 DEF Sampled
  <2>2. ASSUME NEW c \in HealthCounts
        PROVE  samples'[c] \in Seq(Readings) /\ Len(samples'[c]) <= SampleWindow
    <3> DEFINE old == samples[c]
               new == Append(old, reading[c])
    <3>1. old \in Seq(Readings) /\ Len(old) <= SampleWindow /\ Len(old) \in Nat /\ SampleWindow \in Nat /\ reading[c] \in Readings
      <4>1. SampleWindow \in Nat
          BY OverviewAssumption
      <4>2. old \in Seq(Readings) /\ Len(old) <= SampleWindow /\ reading[c] \in Readings
          OBVIOUS
      <4> QED
          BY <4>1, <4>2
    <3> HIDE DEF old
    <3>4. samples'[c] = InWindow(new)
        BY <2>1 DEF old
    <3> QED
        BY <3>1, <3>4, WindowKeeps
  <2>3. samples' \in [HealthCounts -> Seq(Readings)]
      BY <2>1, <2>2
  <2>4. \A c \in HealthCounts : \A i \in DOMAIN samples'[c] : samples'[c][i] \in Readings
      BY <2>2
  <2> QED
      BY <1>5, <2>2, <2>3, <2>4 DEF Sampled
<1>6. CASE UNCHANGED mvars
    BY <1>6 DEF mvars
<1> QED
    BY <1>1, <1>2, <1>3, <1>4, <1>5, <1>6 DEF OverviewNext

\* overview.py: an alert is listed at its level or above, the board shows the worst that any
\* rule has of a system, a count is listed once it has stayed, and what is listed stands under
\* the system it is about, for any series, readings and length of the window.
THEOREM OverviewIsSafe == OverviewSpec => []OverviewSafe
<1>1. OverviewInit => OverviewInv
    BY OverviewStarts
<1>2. OverviewInv /\ [OverviewNext]_mvars => OverviewInv'
    BY OverviewSteps
<1>3. OverviewInv => OverviewSafe
    BY OverviewLists, OverviewBoard, OverviewCounts, OverviewPlaces DEF OverviewInv, OverviewSafe
<1> QED
    BY <1>1, <1>2, <1>3, PTL DEF OverviewSpec
-----------------------------------------------------------------------------
(* HidScripts.  The table facts need the tables themselves (CharMeans,     *)
(* ChordMeans, NameMeans); the rest is where a program is in its script:   *)
(* what was heard, what the strokes under way will make heard and what is  *)
(* left of a token make up what was wished for up to that token.           *)

HidReports == [mod : 0 .. 255, key : 0 .. 255]
AllStrokes == [kind : {"report", "pause", "bad"}, mod : 0 .. 255, key : 0 .. 255, span : Nat]
Endings == {"new", "running", "ok", "refused", "bad", "stopped"}

ScriptTypes ==
    /\ command \in Commands /\ ending \in Endings
    /\ tokensLeft \in Seq(Tokens) /\ charsLeft \in Seq(STRING) /\ strokes \in Seq(AllStrokes)
    /\ holdEnd \in Int /\ clock \in Nat /\ upSince \in Nat /\ upSince <= clock
    /\ down \in HidReports /\ heard \in Seq(HidReports)

\* The readings of reports.
SaidOf(reports) == [i \in DOMAIN reports |-> Reading(reports[i])]
Spelled(chars) == [i \in DOMAIN chars |-> <<"key", chars[i]>>]
Wishes(tokens) == [i \in DOMAIN tokens |-> Wished(tokens[i])]
Asked(tokens, k) == SoFar(Wishes(tokens))[k]

\* What was said, what the strokes under way will say and the characters left of the token
\* are what was wished for so far.
TapRest == {<<Rest(3), Press(0, 0), Rest(6)>>, <<Press(0, 0), Rest(6)>>, FirstNeutral}
Resting(st, last) == (st = <<>> \/ \E span \in Nat : st = <<Rest(span)>>) /\ last = Off
TypingAt(st, chars, last, said, wish) ==
    \/ st = <<Bad>> /\ IsPrefix(said, wish)
    \/ (Resting(st, last) \/ st \in TapRest) /\ said \o Spelled(chars) = wish
    \/ /\ last = Off
       /\ \E r \in HidReports \ {Off} :
             st = Tap(r.mod, r.key) /\ (said \o <<Reading(r)>>) \o Spelled(chars) = wish

\* The tokens left are the last ones of the command.
LastOf(left, tokens) ==
    Len(left) <= Len(tokens) /\ \A i \in 1 .. Len(left) : left[i] = tokens[Len(tokens) - Len(left) + i]
TypingInv ==
    command.program = "type" /\ ending = "running" =>
        /\ LastOf(tokensLeft, command.tokens)
        /\ TypingAt(strokes, charsLeft, down, SaidOf(heard),
                    Asked(command.tokens, Len(command.tokens) - Len(tokensLeft)))

SwitchWords(channel) == <<<<"ctrl", "alone">>, <<"ctrl", "alone">>, <<"key", Digits[channel]>>>>
PressesIn(p) == IF p < 2 THEN 0 ELSE IF p < 6 THEN 1 ELSE IF p < 10 THEN 2 ELSE 3
SwitchAt(p, channel, st, last, said) ==
    /\ st = SubSeq(SwitchSteps(channel), p + 1, 12)
    /\ said = SubSeq(SwitchWords(channel), 1, PressesIn(p))
    /\ p \in {1, 4, 5, 8, 9, 12} => last = Off
SwitchInv ==
    command.program = "switch" /\ ending = "running" =>
        /\ tokensLeft = <<>> /\ charsLeft = <<>>
        /\ \E p \in 0 .. 12 : SwitchAt(p, command.channel, strokes, down, SaidOf(heard))

Held == [mod |-> 0, key |-> command.key]
UpBriefly == heard # <<>> => down = Off /\ clock <= upSince + 4 + MaxSlack
HoldAt(p) ==
    CASE p = 0 -> clock < holdEnd /\ UpBriefly
      [] p = 1 -> clock < holdEnd /\ down = Held
      [] p = 2 -> clock < holdEnd + 16 + MaxSlack /\ down = Held
      [] p = 3 -> clock < holdEnd + 16 + MaxSlack /\ down = Off /\ upSince = clock
      [] p = 4 -> UpBriefly /\ (heard # <<>> => clock < holdEnd + 20 + 2 * MaxSlack)
HoldInv ==
    command.program = "hold" /\ ending = "running" =>
        /\ tokensLeft = <<>> /\ charsLeft = <<>>
        /\ \A i \in DOMAIN heard : heard[i] = Held
        /\ \E p \in 0 .. 4 : strokes = SubSeq(HoldRound(command.key), p + 1, 4) /\ HoldAt(p)

StagesInv ==
    /\ ending \in {"new", "refused"} =>
           heard = <<>> /\ strokes = <<>> /\ tokensLeft = <<>> /\ charsLeft = <<>>
    /\ ending \notin {"new", "refused"} => Accepted
    /\ ending \in {"ok", "bad", "stopped"} => HearsWhatIsAsked

ScriptsInv == ScriptTypes /\ TypingInv /\ SwitchInv /\ HoldInv /\ StagesInv


-----------------------------------------------------------------------------
(* The tables.                                                             *)

Mid == <<"enter", "esc", "bksp", "tab", "blank", "-", "=", "[", "]", "\\", "nonus", "semicolon", "'", "backtick",
         "comma", ".", "/", "capslock">>
Far == <<"printscreen", "scrolllock", "pause", "ins", "home", "pgup", "del", "end", "pgdn",
         "right", "left", "down", "up">>

MidShifted == <<"enter", "esc", "bksp", "tab", "blank", "underscore", "+", "lbrace", "rbrace", "|", "nonus", ":", "dquote", "~",
                "<", ">", "?">>

Chars ==
    STRING \cup {Letters[i] : i \in 1 .. 26} \cup {Capitals[i] : i \in 1 .. 26} \cup {Digits[i] : i \in 1 .. 10}
        \cup {DigitMarks[i] : i \in 1 .. 10} \cup {FKeys[i] : i \in 1 .. 12} \cup {Mid[i] : i \in 1 .. 18}
        \cup {MidShifted[i] : i \in 1 .. 17} \cup {Far[i] : i \in 1 .. 13} \cup {NearMarks[i] : i \in 1 .. 6}
        \cup {FarMarks[i] : i \in 1 .. 6} \cup {Bases[i] : i \in 1 .. 11} \cup {Symbols[i] : i \in 1 .. 11}

\* The whole is s and then t, of these lengths.
Follows(whole, s, t, m, n) ==
    /\ whole \in Seq(Chars) /\ Len(whole) = m + n
    /\ \A i \in 1 .. m : whole[i] = s[i]
    /\ \A i \in 1 .. n : whole[m + i] = t[i]

LEMMA ConcatAt == ASSUME NEW s \in Seq(Chars), NEW t \in Seq(Chars)
    PROVE  Follows(s \o t, s, t, Len(s), Len(t))
BY DEF Follows

LEMMA TableLengths ==
    /\ Letters \in Seq(Chars) /\ Len(Letters) = 26
    /\ Capitals \in Seq(Chars) /\ Len(Capitals) = 26
    /\ Digits \in Seq(Chars) /\ Len(Digits) = 10
    /\ DigitMarks \in Seq(Chars) /\ Len(DigitMarks) = 10
    /\ FKeys \in Seq(Chars) /\ Len(FKeys) = 12
    /\ Mid \in Seq(Chars) /\ Len(Mid) = 18
    /\ MidShifted \in Seq(Chars) /\ Len(MidShifted) = 17
    /\ Far \in Seq(Chars) /\ Len(Far) = 13
    /\ NearMarks \in Seq(Chars) /\ Len(NearMarks) = 6
    /\ FarMarks \in Seq(Chars) /\ Len(FarMarks) = 6
    /\ Bases \in Seq(Chars) /\ Len(Bases) = 11
    /\ Symbols \in Seq(Chars) /\ Len(Symbols) = 11
<1>1. Letters \in Seq(Chars) /\ Len(Letters) = 26
  <2>1. Letters \in Seq({Letters[i] : i \in 1 .. 26}) /\ Len(Letters) = 26
      BY DEF Letters
  <2>2. {Letters[i] : i \in 1 .. 26} \subseteq Chars
      BY DEF Chars
  <2> QED
      BY <2>1, <2>2
<1>2. Capitals \in Seq(Chars) /\ Len(Capitals) = 26
  <2>1. Capitals \in Seq({Capitals[i] : i \in 1 .. 26}) /\ Len(Capitals) = 26
      BY DEF Capitals
  <2>2. {Capitals[i] : i \in 1 .. 26} \subseteq Chars
      BY DEF Chars
  <2> QED
      BY <2>1, <2>2
<1>3. Digits \in Seq(Chars) /\ Len(Digits) = 10
  <2>1. Digits \in Seq({Digits[i] : i \in 1 .. 10}) /\ Len(Digits) = 10
      BY DEF Digits
  <2>2. {Digits[i] : i \in 1 .. 10} \subseteq Chars
      BY DEF Chars
  <2> QED
      BY <2>1, <2>2
<1>4. DigitMarks \in Seq(Chars) /\ Len(DigitMarks) = 10
  <2>1. DigitMarks \in Seq({DigitMarks[i] : i \in 1 .. 10}) /\ Len(DigitMarks) = 10
      BY DEF DigitMarks
  <2>2. {DigitMarks[i] : i \in 1 .. 10} \subseteq Chars
      BY DEF Chars
  <2> QED
      BY <2>1, <2>2
<1>5. FKeys \in Seq(Chars) /\ Len(FKeys) = 12
  <2>1. FKeys \in Seq({FKeys[i] : i \in 1 .. 12}) /\ Len(FKeys) = 12
      BY DEF FKeys
  <2>2. {FKeys[i] : i \in 1 .. 12} \subseteq Chars
      BY DEF Chars
  <2> QED
      BY <2>1, <2>2
<1>6. Mid \in Seq(Chars) /\ Len(Mid) = 18
  <2>1. Mid \in Seq({Mid[i] : i \in 1 .. 18}) /\ Len(Mid) = 18
      BY DEF Mid
  <2>2. {Mid[i] : i \in 1 .. 18} \subseteq Chars
      BY DEF Chars
  <2> QED
      BY <2>1, <2>2
<1>7. MidShifted \in Seq(Chars) /\ Len(MidShifted) = 17
  <2>1. MidShifted \in Seq({MidShifted[i] : i \in 1 .. 17}) /\ Len(MidShifted) = 17
      BY DEF MidShifted
  <2>2. {MidShifted[i] : i \in 1 .. 17} \subseteq Chars
      BY DEF Chars
  <2> QED
      BY <2>1, <2>2
<1>8. Far \in Seq(Chars) /\ Len(Far) = 13
  <2>1. Far \in Seq({Far[i] : i \in 1 .. 13}) /\ Len(Far) = 13
      BY DEF Far
  <2>2. {Far[i] : i \in 1 .. 13} \subseteq Chars
      BY DEF Chars
  <2> QED
      BY <2>1, <2>2
<1>9. NearMarks \in Seq(Chars) /\ Len(NearMarks) = 6
  <2>1. NearMarks \in Seq({NearMarks[i] : i \in 1 .. 6}) /\ Len(NearMarks) = 6
      BY DEF NearMarks
  <2>2. {NearMarks[i] : i \in 1 .. 6} \subseteq Chars
      BY DEF Chars
  <2> QED
      BY <2>1, <2>2
<1>10. FarMarks \in Seq(Chars) /\ Len(FarMarks) = 6
  <2>1. FarMarks \in Seq({FarMarks[i] : i \in 1 .. 6}) /\ Len(FarMarks) = 6
      BY DEF FarMarks
  <2>2. {FarMarks[i] : i \in 1 .. 6} \subseteq Chars
      BY DEF Chars
  <2> QED
      BY <2>1, <2>2
<1>11. Bases \in Seq(Chars) /\ Len(Bases) = 11
  <2>1. Bases \in Seq({Bases[i] : i \in 1 .. 11}) /\ Len(Bases) = 11
      BY DEF Bases
  <2>2. {Bases[i] : i \in 1 .. 11} \subseteq Chars
      BY DEF Chars
  <2> QED
      BY <2>1, <2>2
<1>12. Symbols \in Seq(Chars) /\ Len(Symbols) = 11
  <2>1. Symbols \in Seq({Symbols[i] : i \in 1 .. 11}) /\ Len(Symbols) = 11
      BY DEF Symbols
  <2>2. {Symbols[i] : i \in 1 .. 11} \subseteq Chars
      BY DEF Chars
  <2> QED
      BY <2>1, <2>2
<1> QED
    BY <1>1, <1>2, <1>3, <1>4, <1>5, <1>6, <1>7, <1>8, <1>9, <1>10, <1>11, <1>12

LEMMA UsageIs ==
    /\ \A i \in 1 .. 26 : Usage[i] = Letters[i]
    /\ \A i \in 1 .. 10 : Usage[26 + i] = Digits[i]
    /\ \A i \in 1 .. 18 : Usage[36 + i] = Mid[i]
    /\ \A i \in 1 .. 12 : Usage[54 + i] = FKeys[i]
    /\ \A i \in 1 .. 13 : Usage[66 + i] = Far[i]
<1> DEFINE a == Letters \o Digits
           b == a \o Mid
           c == b \o FKeys
           d == c \o Far
<1>1. Usage = d
    BY DEF Usage, Mid, Far
<1>2. Follows(a, Letters, Digits, 26, 10) /\ a \in Seq(Chars) /\ Len(a) = 36
  <2>1. Follows(a, Letters, Digits, 26, 10)
      BY TableLengths, ConcatAt, Zenon
  <2> HIDE DEF a
  <2> QED
      BY <2>1 DEF Follows
<1> HIDE DEF a
<1>3. Follows(b, a, Mid, 36, 18) /\ b \in Seq(Chars) /\ Len(b) = 54
  <2>1. Follows(b, a, Mid, 36, 18)
      BY <1>2, TableLengths, ConcatAt, Zenon
  <2> HIDE DEF b
  <2> QED
      BY <2>1 DEF Follows
<1> HIDE DEF b
<1>4. Follows(c, b, FKeys, 54, 12) /\ c \in Seq(Chars) /\ Len(c) = 66
  <2>1. Follows(c, b, FKeys, 54, 12)
      BY <1>3, TableLengths, ConcatAt, Zenon
  <2> HIDE DEF c
  <2> QED
      BY <2>1 DEF Follows
<1> HIDE DEF c
<1>5. Follows(d, c, Far, 66, 13)
  <2>1. Follows(c \o Far, c, Far, Len(c), Len(Far))
      BY <1>4, TableLengths, ConcatAt, Zenon
  <2> QED
      BY <1>4, <2>1, TableLengths, Zenon
<1> HIDE DEF d
<1>6. /\ \A i \in 1 .. 66 : Usage[i] = c[i]
      /\ \A i \in 1 .. 13 : Usage[66 + i] = Far[i]
    BY <1>1, <1>5 DEF Follows
<1>7. /\ \A i \in 1 .. 54 : Usage[i] = b[i]
      /\ \A i \in 1 .. 12 : Usage[54 + i] = FKeys[i]
  <2>1. /\ \A i \in 1 .. 54 : c[i] = b[i] /\ i \in 1 .. 66
        /\ \A i \in 1 .. 12 : c[54 + i] = FKeys[i] /\ 54 + i \in 1 .. 66
      BY <1>4 DEF Follows
  <2> QED
      BY <1>6, <2>1
<1>8. /\ \A i \in 1 .. 36 : Usage[i] = a[i]
      /\ \A i \in 1 .. 18 : Usage[36 + i] = Mid[i]
  <2>1. /\ \A i \in 1 .. 36 : b[i] = a[i] /\ i \in 1 .. 54
        /\ \A i \in 1 .. 18 : b[36 + i] = Mid[i] /\ 36 + i \in 1 .. 54
      BY <1>3 DEF Follows
  <2> QED
      BY <1>7, <2>1
<1>9. /\ \A i \in 1 .. 26 : Usage[i] = Letters[i]
      /\ \A i \in 1 .. 10 : Usage[26 + i] = Digits[i]
  <2>1. /\ \A i \in 1 .. 26 : a[i] = Letters[i] /\ i \in 1 .. 36
        /\ \A i \in 1 .. 10 : a[26 + i] = Digits[i] /\ 26 + i \in 1 .. 36
      BY <1>2 DEF Follows
  <2> QED
      BY <1>8, <2>1
<1> QED
    BY <1>6, <1>7, <1>8, <1>9

LEMMA UsageShiftedIs ==
    /\ \A i \in 1 .. 26 : UsageShifted[i] = Capitals[i]
    /\ \A i \in 1 .. 10 : UsageShifted[26 + i] = DigitMarks[i]
    /\ \A i \in 1 .. 17 : UsageShifted[36 + i] = MidShifted[i]
<1> DEFINE a == Capitals \o DigitMarks
           b == a \o MidShifted
<1>1. UsageShifted = b
    BY DEF UsageShifted, MidShifted
<1>2. Follows(a, Capitals, DigitMarks, 26, 10) /\ a \in Seq(Chars) /\ Len(a) = 36
  <2>1. Follows(a, Capitals, DigitMarks, 26, 10)
      BY TableLengths, ConcatAt, Zenon
  <2> HIDE DEF a
  <2> QED
      BY <2>1 DEF Follows
<1> HIDE DEF a
<1>3. Follows(b, a, MidShifted, 36, 17)
    BY <1>2, TableLengths, ConcatAt, Zenon
<1> HIDE DEF b
<1>4. /\ \A i \in 1 .. 36 : UsageShifted[i] = a[i]
      /\ \A i \in 1 .. 17 : UsageShifted[36 + i] = MidShifted[i]
    BY <1>1, <1>3 DEF Follows
<1>5. /\ \A i \in 1 .. 26 : a[i] = Capitals[i] /\ i \in 1 .. 36
      /\ \A i \in 1 .. 10 : a[26 + i] = DigitMarks[i] /\ 26 + i \in 1 .. 36
    BY <1>2 DEF Follows
<1> QED
    BY <1>4, <1>5

\* The table pairs each name with the value at its place.
TableOf(table, names, values) ==
    /\ DOMAIN table = {names[i] : i \in 1 .. Len(names)}
    /\ \A c \in DOMAIN table : \E i \in 1 .. Len(names) : names[i] = c /\ table[c] = values[i]

LEMMA PairedIs == ASSUME NEW names \in Seq(Chars), NEW values
    PROVE  TableOf(Paired(names, values), names, values)
<1>1. DOMAIN names = 1 .. Len(names) /\ ToSet(names) = {names[i] : i \in DOMAIN names}
    BY DEF ToSet
<1>2. DOMAIN Paired(names, values) = ToSet(names)
    BY DEF Paired
<1>3. ASSUME NEW c \in ToSet(names)
      PROVE  \E i \in 1 .. Len(names) : names[i] = c /\ Paired(names, values)[c] = values[i]
  <2>1. \E i \in DOMAIN names : names[i] = c
      BY <1>1
  <2> DEFINE i == CHOOSE i \in DOMAIN names : names[i] = c
  <2>2. i \in DOMAIN names /\ names[i] = c
      BY <2>1
  <2>3. Paired(names, values)[c] = values[i]
      BY DEF Paired
  <2> HIDE DEF i
  <2> QED
      BY <1>1, <2>2, <2>3
<1> QED
    BY <1>1, <1>2, <1>3 DEF TableOf

LEMMA NumberedIs == ASSUME NEW names \in Seq(Chars), NEW first \in Nat
    PROVE  TableOf(Numbered(names, first), names, [i \in DOMAIN names |-> first + i - 1])
BY PairedIs, Zenon DEF Numbered

\* The one dictionary updated with the other.
Merges(whole, f, g) ==
    /\ DOMAIN whole = DOMAIN f \cup DOMAIN g
    /\ \A c \in DOMAIN g : whole[c] = g[c]
    /\ \A c \in DOMAIN f : c \notin DOMAIN g => whole[c] = f[c]

LEMMA UpdatedIs == ASSUME NEW f, NEW g
    PROVE  Merges(Updated(f, g), f, g)
BY DEF Updated, Merges

\* No character has two places among the keys that print.
LEMMA UsageOnce == \A i, j \in 1 .. 54 : Usage[i] = Usage[j] => i = j
<1>1. \A i, j \in 1 .. 26 : Letters[i] = Letters[j] => i = j
    BY DEF Letters
<1>2. \A i, j \in 1 .. 10 : Digits[i] = Digits[j] => i = j
    BY DEF Digits
<1>3. \A i, j \in 1 .. 18 : Mid[i] = Mid[j] => i = j
    BY DEF Mid
<1>4. \A i \in 1 .. 26, j \in 1 .. 10 : Letters[i] # Digits[j]
    BY DEF Letters, Digits
<1>5. \A i \in 1 .. 26, j \in 1 .. 18 : Letters[i] # Mid[j]
    BY DEF Letters, Mid
<1>6. \A i \in 1 .. 10, j \in 1 .. 18 : Digits[i] # Mid[j]
    BY DEF Digits, Mid
<1>7. ASSUME NEW i \in 1 .. 54
      PROVE  \/ i \in 1 .. 26 /\ Usage[i] = Letters[i]
             \/ i - 26 \in 1 .. 10 /\ Usage[i] = Digits[i - 26]
             \/ i - 36 \in 1 .. 18 /\ Usage[i] = Mid[i - 36]
  <2>1. CASE i \in 1 .. 26
      BY <2>1, UsageIs
  <2>2. CASE i - 26 \in 1 .. 10
    <3>1. 26 + (i - 26) = i
        OBVIOUS
    <3> QED
        BY <2>2, <3>1, UsageIs
  <2>3. CASE i - 36 \in 1 .. 18
    <3>1. 36 + (i - 36) = i
        OBVIOUS
    <3> QED
        BY <2>3, <3>1, UsageIs
  <2> QED
      BY <2>1, <2>2, <2>3
<1> SUFFICES ASSUME NEW i \in 1 .. 54, NEW j \in 1 .. 54, Usage[i] = Usage[j]
             PROVE  i = j
    OBVIOUS
<1>8. CASE i \in 1 .. 26 /\ Usage[i] = Letters[i]
  <2>1. CASE j \in 1 .. 26 /\ Usage[j] = Letters[j]
      BY <1>1, <1>8, <2>1
  <2>2. CASE j - 26 \in 1 .. 10 /\ Usage[j] = Digits[j - 26]
      BY <1>4, <1>8, <2>2
  <2>3. CASE j - 36 \in 1 .. 18 /\ Usage[j] = Mid[j - 36]
      BY <1>5, <1>8, <2>3
  <2> QED
      BY <1>7, <2>1, <2>2, <2>3
<1>9. CASE i - 26 \in 1 .. 10 /\ Usage[i] = Digits[i - 26]
  <2>1. CASE j - 26 \in 1 .. 10 /\ Usage[j] = Digits[j - 26]
    <3>1. i - 26 = j - 26
        BY <1>2, <1>9, <2>1
    <3> QED
        BY <3>1
  <2>2. CASE j \in 1 .. 26 /\ Usage[j] = Letters[j]
      BY <1>4, <1>9, <2>2
  <2>3. CASE j - 36 \in 1 .. 18 /\ Usage[j] = Mid[j - 36]
      BY <1>6, <1>9, <2>3
  <2> QED
      BY <1>7, <2>1, <2>2, <2>3
<1>10. CASE i - 36 \in 1 .. 18 /\ Usage[i] = Mid[i - 36]
  <2>1. CASE j - 36 \in 1 .. 18 /\ Usage[j] = Mid[j - 36]
    <3>1. i - 36 = j - 36
        BY <1>3, <1>10, <2>1
    <3> QED
        BY <3>1
  <2>2. CASE j \in 1 .. 26 /\ Usage[j] = Letters[j]
      BY <1>5, <1>10, <2>2
  <2>3. CASE j - 26 \in 1 .. 10 /\ Usage[j] = Digits[j - 26]
      BY <1>6, <1>10, <2>3
  <2> QED
      BY <1>7, <2>1, <2>2, <2>3
<1> QED
    BY <1>7, <1>8, <1>9, <1>10

\* A code of the table is that of the key with the character or name.
Coded(table, last) == \A c \in DOMAIN table : table[c] \in 4 .. last /\ Usage[table[c] - 3] = c

LEMMA NumberedCoded ==
    ASSUME NEW names \in Seq(Chars), NEW first \in 4 .. 82, NEW last \in Nat, first + Len(names) <= last + 1,
           \A i \in 1 .. Len(names) : Usage[first + i - 4] = names[i]
    PROVE  Coded(Numbered(names, first), last)
<1>1. TableOf(Numbered(names, first), names, [i \in DOMAIN names |-> first + i - 1])
    BY NumberedIs
<1>2. ASSUME NEW c \in DOMAIN Numbered(names, first)
      PROVE  Numbered(names, first)[c] \in 4 .. last /\ Usage[Numbered(names, first)[c] - 3] = c
  <2>1. PICK i \in 1 .. Len(names) : names[i] = c /\ Numbered(names, first)[c] = [j \in DOMAIN names |-> first + j - 1][i]
      BY <1>1 DEF TableOf
  <2>2. Numbered(names, first)[c] = first + i - 1
      BY <2>1
  <2>3. first + i - 1 \in 4 .. last /\ (first + i - 1) - 3 = first + i - 4
      OBVIOUS
  <2> QED
      BY <2>1, <2>2, <2>3
<1> QED
    BY <1>2 DEF Coded

LEMMA UpdatedCoded == ASSUME NEW f, NEW g, NEW last, Coded(f, last), Coded(g, last)
    PROVE  Coded(Updated(f, g), last)
<1> DEFINE whole == Updated(f, g)
<1>1. Merges(whole, f, g)
    BY UpdatedIs
<1> HIDE DEF whole
<1>2. Coded(whole, last)
    BY <1>1 DEF Coded, Merges
<1> QED
    BY <1>2 DEF whole

LEMMA PlainCoded == Coded(Plain, 56)
<1>1. Coded(Numbered(Letters, 4), 56)
  <2>1. \A i \in 1 .. 26 : Usage[4 + i - 4] = Letters[i]
    <3>1. \A i \in 1 .. 26 : 4 + i - 4 = i
        OBVIOUS
    <3> QED
        BY <3>1, UsageIs
  <2>2. /\ Letters \in Seq(Chars) /\ 4 \in 4 .. 82 /\ 56 \in Nat /\ 4 + Len(Letters) <= 56 + 1
        /\ \A i \in 1 .. Len(Letters) : Usage[4 + i - 4] = Letters[i]
      BY <2>1, TableLengths
  <2> QED
      BY <2>2, NumberedCoded, Zenon
<1>2. Coded(Numbered(Digits, 30), 56)
  <2>1. \A i \in 1 .. 10 : Usage[30 + i - 4] = Digits[i]
    <3>1. \A i \in 1 .. 10 : 30 + i - 4 = 26 + i
        OBVIOUS
    <3> QED
        BY <3>1, UsageIs
  <2>2. /\ Digits \in Seq(Chars) /\ 30 \in 4 .. 82 /\ 56 \in Nat /\ 30 + Len(Digits) <= 56 + 1
        /\ \A i \in 1 .. Len(Digits) : Usage[30 + i - 4] = Digits[i]
      BY <2>1, TableLengths
  <2> QED
      BY <2>2, NumberedCoded, Zenon
<1>3. Coded(Numbered(NearMarks, 44), 56)
  <2>1. \A i \in 1 .. 6 : Usage[44 + i - 4] = NearMarks[i]
    <3>1. \A i \in 1 .. 6 : 44 + i - 4 = 36 + (4 + i) /\ 4 + i \in 1 .. 18
        OBVIOUS
    <3>2. \A i \in 1 .. 6 : Mid[4 + i] = NearMarks[i]
        BY DEF Mid, NearMarks
    <3> QED
        BY <3>1, <3>2, UsageIs
  <2>2. /\ NearMarks \in Seq(Chars) /\ 44 \in 4 .. 82 /\ 56 \in Nat /\ 44 + Len(NearMarks) <= 56 + 1
        /\ \A i \in 1 .. Len(NearMarks) : Usage[44 + i - 4] = NearMarks[i]
      BY <2>1, TableLengths
  <2> QED
      BY <2>2, NumberedCoded, Zenon
<1>4. Coded(Numbered(FarMarks, 51), 56)
  <2>1. \A i \in 1 .. 6 : Usage[51 + i - 4] = FarMarks[i]
    <3>1. \A i \in 1 .. 6 : 51 + i - 4 = 36 + (11 + i) /\ 11 + i \in 1 .. 18
        OBVIOUS
    <3>2. \A i \in 1 .. 6 : Mid[11 + i] = FarMarks[i]
        BY DEF Mid, FarMarks
    <3> QED
        BY <3>1, <3>2, UsageIs
  <2>2. /\ FarMarks \in Seq(Chars) /\ 51 \in 4 .. 82 /\ 56 \in Nat /\ 51 + Len(FarMarks) <= 56 + 1
        /\ \A i \in 1 .. Len(FarMarks) : Usage[51 + i - 4] = FarMarks[i]
      BY <2>1, TableLengths
  <2> QED
      BY <2>2, NumberedCoded, Zenon
<1> QED
    BY <1>1, <1>2, <1>3, <1>4, UpdatedCoded DEF Plain

LEMMA PlainHas ==
    /\ \A i \in 1 .. 26 : Letters[i] \in DOMAIN Plain
    /\ \A i \in 1 .. 10 : Digits[i] \in DOMAIN Plain
    /\ \A i \in 1 .. 11 : Bases[i] \in DOMAIN Plain
<1>1. /\ DOMAIN Numbered(Letters, 4) = {Letters[i] : i \in 1 .. 26}
      /\ DOMAIN Numbered(Digits, 30) = {Digits[i] : i \in 1 .. 10}
      /\ DOMAIN Numbered(NearMarks, 44) = {NearMarks[i] : i \in 1 .. 6}
      /\ DOMAIN Numbered(FarMarks, 51) = {FarMarks[i] : i \in 1 .. 6}
  <2>1. ASSUME NEW names \in Seq(Chars), NEW first \in Nat
        PROVE  DOMAIN Numbered(names, first) = {names[i] : i \in 1 .. Len(names)}
      BY NumberedIs, Zenon DEF TableOf
  <2>2. /\ DOMAIN Numbered(Letters, 4) = {Letters[i] : i \in 1 .. Len(Letters)}
        /\ DOMAIN Numbered(Digits, 30) = {Digits[i] : i \in 1 .. Len(Digits)}
        /\ DOMAIN Numbered(NearMarks, 44) = {NearMarks[i] : i \in 1 .. Len(NearMarks)}
        /\ DOMAIN Numbered(FarMarks, 51) = {FarMarks[i] : i \in 1 .. Len(FarMarks)}
    <3>1. 4 \in Nat /\ 30 \in Nat /\ 44 \in Nat /\ 51 \in Nat
        OBVIOUS
    <3> QED
        BY <2>1, <3>1, TableLengths, Zenon
  <2> QED
      BY <2>2, TableLengths
<1>2. DOMAIN Plain = DOMAIN Numbered(Letters, 4) \cup DOMAIN Numbered(Digits, 30)
                         \cup DOMAIN Numbered(NearMarks, 44) \cup DOMAIN Numbered(FarMarks, 51)
  <2> DEFINE a == Numbered(Letters, 4)
             b == Numbered(Digits, 30)
             c == Numbered(NearMarks, 44)
             d == Numbered(FarMarks, 51)
  <2>1. /\ DOMAIN Updated(Updated(a, b), Updated(c, d)) = DOMAIN Updated(a, b) \cup DOMAIN Updated(c, d)
        /\ DOMAIN Updated(a, b) = DOMAIN a \cup DOMAIN b /\ DOMAIN Updated(c, d) = DOMAIN c \cup DOMAIN d
    <3> HIDE DEF a, b, c, d
    <3>1. ASSUME NEW f, NEW g
          PROVE  DOMAIN Updated(f, g) = DOMAIN f \cup DOMAIN g
        BY UpdatedIs DEF Merges
    <3> QED
        BY <3>1, Zenon
  <2>2. Plain = Updated(Updated(a, b), Updated(c, d))
      BY DEF Plain
  <2> HIDE DEF a, b, c, d
  <2>3. DOMAIN Plain = DOMAIN a \cup DOMAIN b \cup DOMAIN c \cup DOMAIN d
      BY <2>1, <2>2
  <2> QED
      BY <2>3 DEF a, b, c, d
<1>3. /\ \A i \in 1 .. 5 : Bases[i] = NearMarks[i + 1] /\ i + 1 \in 1 .. 6
      /\ \A i \in 6 .. 11 : Bases[i] = FarMarks[i - 5] /\ i - 5 \in 1 .. 6
    BY DEF Bases, NearMarks, FarMarks
<1> QED
    BY <1>1, <1>2, <1>3

\* The code of a shifted character is that of the key that prints it with Shift.
LEMMA ShiftedCoded == \A c \in DOMAIN Shifted : Shifted[c] \in 4 .. 56 /\ UsageShifted[Shifted[c] - 3] = c
<1>1. ASSUME NEW k \in 1 .. 53, Usage[k] \in DOMAIN Plain
      PROVE  Plain[Usage[k]] = k + 3
  <2>1. Plain[Usage[k]] \in 4 .. 56 /\ Usage[Plain[Usage[k]] - 3] = Usage[k]
      BY <1>1, PlainCoded DEF Coded
  <2> DEFINE p == Plain[Usage[k]]
  <2> HIDE DEF p
  <2>2. p \in 4 .. 56 /\ Usage[p - 3] = Usage[k]
      BY <2>1 DEF p
  <2>3. p - 3 \in 1 .. 54 /\ k \in 1 .. 54
      BY <2>2
  <2>4. p - 3 = k
      BY <2>2, <2>3, UsageOnce
  <2>5. p = k + 3
      BY <2>2, <2>4
  <2> QED
      BY <2>5 DEF p
<1>2. ASSUME NEW c \in DOMAIN Shifted
      PROVE  \E k \in 1 .. 53 : BaseOf[c] = Usage[k] /\ BaseOf[c] \in DOMAIN Plain /\ UsageShifted[k] = c
  <2> DEFINE ones == Paired(Capitals, Letters)
             twos == Paired(DigitMarks, Digits)
             rest == Paired(Symbols, Bases)
             both == Updated(ones, twos)
  <2>1. /\ TableOf(ones, Capitals, Letters) /\ TableOf(twos, DigitMarks, Digits) /\ TableOf(rest, Symbols, Bases)
      BY TableLengths, PairedIs
  <2>2. BaseOf = Updated(both, rest)
      BY DEF BaseOf
  <2>3. c \in DOMAIN BaseOf
      BY DEF Shifted
  <2> HIDE DEF ones, twos, rest
  <2>4. \/ c \in DOMAIN ones /\ BaseOf[c] = ones[c]
        \/ c \in DOMAIN twos /\ BaseOf[c] = twos[c]
        \/ c \in DOMAIN rest /\ BaseOf[c] = rest[c]
    <3>1. Merges(both, ones, twos) /\ Merges(BaseOf, both, rest)
        BY <2>2, UpdatedIs, Zenon
    <3> HIDE DEF both
    <3> QED
        BY <2>3, <3>1 DEF Merges
  <2>5. CASE c \in DOMAIN ones /\ BaseOf[c] = ones[c]
    <3>1. PICK i \in 1 .. 26 : Capitals[i] = c /\ BaseOf[c] = Letters[i]
      <4>1. Len(Capitals) = 26
          BY TableLengths
      <4>2. \E i \in 1 .. Len(Capitals) : Capitals[i] = c /\ ones[c] = Letters[i]
          BY <2>1, <2>5, Zenon DEF TableOf
      <4> QED
          BY <2>5, <4>1, <4>2
    <3>2. i \in 1 .. 53 /\ Usage[i] = Letters[i] /\ UsageShifted[i] = Capitals[i] /\ Letters[i] \in DOMAIN Plain
        BY UsageIs, UsageShiftedIs, PlainHas
    <3> QED
        BY <3>1, <3>2
  <2>6. CASE c \in DOMAIN twos /\ BaseOf[c] = twos[c]
    <3>1. PICK i \in 1 .. 10 : DigitMarks[i] = c /\ BaseOf[c] = Digits[i]
      <4>1. Len(DigitMarks) = 10
          BY TableLengths
      <4>2. \E i \in 1 .. Len(DigitMarks) : DigitMarks[i] = c /\ twos[c] = Digits[i]
          BY <2>1, <2>6, Zenon DEF TableOf
      <4> QED
          BY <2>6, <4>1, <4>2
    <3>2. 26 + i \in 1 .. 53 /\ Usage[26 + i] = Digits[i] /\ UsageShifted[26 + i] = DigitMarks[i] /\ Digits[i] \in DOMAIN Plain
        BY UsageIs, UsageShiftedIs, PlainHas
    <3> QED
        BY <3>1, <3>2
  <2>7. CASE c \in DOMAIN rest /\ BaseOf[c] = rest[c]
    <3>1. PICK i \in 1 .. 11 : Symbols[i] = c /\ BaseOf[c] = Bases[i]
      <4>1. Len(Symbols) = 11
          BY TableLengths
      <4>2. \E i \in 1 .. Len(Symbols) : Symbols[i] = c /\ rest[c] = Bases[i]
          BY <2>1, <2>7, Zenon DEF TableOf
      <4> QED
          BY <2>7, <4>1, <4>2
    <3> DEFINE j == IF i < 6 THEN i + 5 ELSE i + 6
    <3>2. j \in 1 .. 17 /\ j \in 1 .. 18 /\ 36 + j \in 1 .. 53
        OBVIOUS
    <3>3. Mid[j] = Bases[i] /\ MidShifted[j] = Symbols[i]
      <4>1. Mid[j] = Bases[i]
          BY DEF Mid, Bases
      <4>2. MidShifted[j] = Symbols[i]
          BY DEF MidShifted, Symbols
      <4> QED
          BY <4>1, <4>2
    <3> HIDE DEF j
    <3>4. Usage[36 + j] = Mid[j] /\ UsageShifted[36 + j] = MidShifted[j] /\ Bases[i] \in DOMAIN Plain
        BY <3>2, UsageIs, UsageShiftedIs, PlainHas
    <3> QED
        BY <3>1, <3>2, <3>3, <3>4
  <2> QED
      BY <2>4, <2>5, <2>6, <2>7
<1>3. ASSUME NEW c \in DOMAIN Shifted
      PROVE  Shifted[c] \in 4 .. 56 /\ UsageShifted[Shifted[c] - 3] = c
  <2>1. PICK k \in 1 .. 53 : BaseOf[c] = Usage[k] /\ BaseOf[c] \in DOMAIN Plain /\ UsageShifted[k] = c
      BY <1>2
  <2>2. Shifted[c] = k + 3
      BY <1>1, <2>1 DEF Shifted
  <2>3. k + 3 \in 4 .. 56 /\ k + 3 - 3 = k
      OBVIOUS
  <2> QED
      BY <2>1, <2>2, <2>3
<1> QED
    BY <1>3

LEMMA NamedCoded ==
    /\ "space" \in DOMAIN Named
    /\ \A c \in DOMAIN Named : Named[c] \in 4 .. 82 /\ Usage[Named[c] - 3] = Glyph(c)
<1> DEFINE table == [enter |-> 40, esc |-> 41, bksp |-> 42, tab |-> 43, space |-> 44, capslock |-> 57,
                     right |-> 79, left |-> 80, down |-> 81, up |-> 82, ins |-> 73, home |-> 74,
                     pgup |-> 75, del |-> 76, end |-> 77, pgdn |-> 78, pause |-> 72]
           fkeys == Numbered(FKeys, 58)
<1>1. Named = Updated(table, fkeys)
    BY DEF Named
<1>2. Coded(fkeys, 82) /\ DOMAIN fkeys = {FKeys[i] : i \in 1 .. 12}
  <2>1. \A i \in 1 .. 12 : Usage[58 + i - 4] = FKeys[i]
    <3>1. \A i \in 1 .. 12 : 58 + i - 4 = 54 + i
        OBVIOUS
    <3> QED
        BY <3>1, UsageIs
  <2>2. /\ FKeys \in Seq(Chars) /\ 58 \in 4 .. 82 /\ 58 \in Nat /\ 82 \in Nat /\ 58 + Len(FKeys) <= 82 + 1
        /\ \A i \in 1 .. Len(FKeys) : Usage[58 + i - 4] = FKeys[i]
      BY <2>1, TableLengths
  <2>3. Coded(fkeys, 82) /\ DOMAIN fkeys = {FKeys[i] : i \in 1 .. Len(FKeys)}
      BY <2>2, NumberedCoded, NumberedIs, Zenon DEF TableOf
  <2> QED
      BY <2>3, TableLengths
<1>3. \A i \in 1 .. 12 : FKeys[i] # "space"
    BY DEF FKeys
<1> HIDE DEF fkeys
<1>4. /\ "space" \in DOMAIN table
      /\ \A c \in DOMAIN table : table[c] \in 4 .. 82 /\ (c = "space" <=> table[c] = 44)
    OBVIOUS
<1>5. \A c \in DOMAIN table : Usage[table[c] - 3] = Glyph(c)
  <2>1. /\ Usage[37] = Mid[1] /\ Usage[38] = Mid[2] /\ Usage[39] = Mid[3] /\ Usage[40] = Mid[4]
        /\ Usage[41] = Mid[5] /\ Usage[54] = Mid[18]
    <3>1. \A i \in 1 .. 18 : Usage[36 + i] = Mid[i]
        BY UsageIs
    <3> QED
        BY <3>1
  <2>2. /\ Usage[69] = Far[3] /\ Usage[70] = Far[4] /\ Usage[71] = Far[5] /\ Usage[72] = Far[6]
        /\ Usage[73] = Far[7] /\ Usage[74] = Far[8] /\ Usage[75] = Far[9] /\ Usage[76] = Far[10]
        /\ Usage[77] = Far[11] /\ Usage[78] = Far[12] /\ Usage[79] = Far[13]
    <3>1. \A i \in 1 .. 13 : Usage[66 + i] = Far[i]
        BY UsageIs
    <3> QED
        BY <3>1
  <2> QED
      BY <2>1, <2>2 DEF Mid, Far, Glyph
<1> HIDE DEF table
<1>6. \A c \in DOMAIN fkeys : fkeys[c] \in 4 .. 82 /\ Usage[fkeys[c] - 3] = Glyph(c)
    BY <1>2, <1>3 DEF Coded, Glyph
<1>7. Merges(Named, table, fkeys)
    BY <1>1, UpdatedIs
<1>8. ASSUME NEW c \in DOMAIN Named
      PROVE  Named[c] \in 4 .. 82 /\ Usage[Named[c] - 3] = Glyph(c)
  <2>1. \/ c \in DOMAIN fkeys /\ Named[c] = fkeys[c]
        \/ c \in DOMAIN table /\ Named[c] = table[c]
      BY <1>7 DEF Merges
  <2> QED
      BY <1>4, <1>5, <1>6, <2>1
<1>9. "space" \in DOMAIN Named
    BY <1>4, <1>7 DEF Merges
<1> QED
    BY <1>8, <1>9

\* What a tap of a character, a name or a chord is heard as.
LEMMA CharMeans == ASSUME NEW c
    PROVE  \/ CharSteps(c) = <<Bad>>
           \/ \E r \in HidReports \ {Off} : CharSteps(c) = Tap(r.mod, r.key) /\ Reading(r) = <<"key", c>>
<1>1. CASE c \in DOMAIN Plain
  <2> DEFINE r == [mod |-> 0, key |-> Plain[c]]
  <2>1. Plain[c] \in 4 .. 56 /\ Usage[Plain[c] - 3] = c
      BY <1>1, PlainCoded DEF Coded
  <2>2. r \in HidReports \ {Off}
      BY <2>1 DEF HidReports, Off
  <2>3. CharSteps(c) = Tap(r.mod, r.key)
      BY <1>1 DEF CharSteps
  <2>4. Reading(r) = <<"key", c>>
      BY <2>1 DEF Reading
  <2> QED
      BY <2>2, <2>3, <2>4
<1>2. CASE c \notin DOMAIN Plain /\ c \in DOMAIN Shifted
  <2> DEFINE r == [mod |-> 2, key |-> Shifted[c]]
  <2>1. Shifted[c] \in 4 .. 56 /\ UsageShifted[Shifted[c] - 3] = c
      BY <1>2, ShiftedCoded
  <2>2. r \in HidReports \ {Off}
      BY <2>1 DEF HidReports, Off
  <2>3. CharSteps(c) = Tap(r.mod, r.key)
      BY <1>2 DEF CharSteps
  <2>4. Reading(r) = <<"key", c>>
      BY <2>1 DEF Reading
  <2> QED
      BY <2>2, <2>3, <2>4
<1>3. CASE c \notin DOMAIN Plain /\ c \notin DOMAIN Shifted
    BY <1>3 DEF CharSteps
<1> QED
    BY <1>1, <1>2, <1>3

LEMMA ChordMeans == ASSUME NEW c
    PROVE  \/ ChordSteps(c) = <<Bad>>
           \/ \E r \in HidReports \ {Off} : ChordSteps(c) = Tap(r.mod, r.key) /\ Reading(r) = <<"ctrl-alt", Glyph(c)>>
<1>1. ASSUME NEW k \in 4 .. 82, ChordSteps(c) = Tap(5, k), Usage[k - 3] = Glyph(c)
      PROVE  \E r \in HidReports \ {Off} : ChordSteps(c) = Tap(r.mod, r.key) /\ Reading(r) = <<"ctrl-alt", Glyph(c)>>
  <2> DEFINE r == [mod |-> 5, key |-> k]
  <2>1. r \in HidReports \ {Off}
      BY DEF HidReports, Off
  <2>2. ChordSteps(c) = Tap(r.mod, r.key)
      BY <1>1
  <2>3. Reading(r) = <<"ctrl-alt", Glyph(c)>>
      BY <1>1 DEF Reading
  <2> QED
      BY <2>1, <2>2, <2>3
<1>2. CASE c \in DOMAIN Named
    BY <1>1, <1>2, NamedCoded DEF ChordSteps
<1>3. CASE c \notin DOMAIN Named /\ c \in DOMAIN Plain
  <2>1. Plain[c] \in 4 .. 82 /\ Usage[Plain[c] - 3] = c /\ Glyph(c) = c
      BY <1>3, NamedCoded, PlainCoded DEF Coded, Glyph
  <2>2. ChordSteps(c) = Tap(5, Plain[c])
      BY <1>3 DEF ChordSteps
  <2> QED
      BY <1>1, <2>1, <2>2
<1>4. CASE c \notin DOMAIN Named /\ c \notin DOMAIN Plain
    BY <1>4 DEF ChordSteps
<1> QED
    BY <1>2, <1>3, <1>4

LEMMA NameMeans == ASSUME NEW c \in DOMAIN Named
    PROVE  \E r \in HidReports \ {Off} : Tap(0, Named[c]) = Tap(r.mod, r.key) /\ Reading(r) = <<"key", Glyph(c)>>
<1> DEFINE r == [mod |-> 0, key |-> Named[c]]
<1>1. Named[c] \in 4 .. 82 /\ Usage[Named[c] - 3] = Glyph(c)
    BY NamedCoded
<1>2. r \in HidReports \ {Off}
    BY <1>1 DEF HidReports, Off
<1>3. Reading(r) = <<"key", Glyph(c)>>
    BY <1>1 DEF Reading
<1> QED
    BY <1>2, <1>3

-----------------------------------------------------------------------------
(* HidScripts.  What is said.                                              *)

LEMMA SoFarAre == ASSUME NEW T, NEW parts \in Seq(Seq(T))
    PROVE  /\ SoFar(parts)[0] = <<>>
           /\ \A n \in 0 .. Len(parts) : SoFar(parts)[n] \in Seq(T)
           /\ \A n \in 1 .. Len(parts) : SoFar(parts)[n] = SoFar(parts)[n - 1] \o parts[n]
<1> DEFINE n == Len(parts)
           All == Seq(T)
           none == <<>>
           Body(f, i) == IF i = 0 THEN <<>> ELSE f[i - 1] \o parts[i]
           step == [i \in 1 .. n |-> [s \in All |-> s \o parts[i]]]
           upTo == CHOOSE f : f = [i \in 0 .. n |-> Body(f, i)]
<1>1. n \in Nat /\ none \in All
    OBVIOUS
<1>2. step \in [1 .. n -> [All -> All]]
  <2>1. ASSUME NEW i \in 1 .. n, NEW s \in All
        PROVE  s \o parts[i] \in All
    <3>1. parts[i] \in Seq(T)
        OBVIOUS
    <3> QED
        BY <3>1
  <2> HIDE DEF All, n
  <2> QED
      BY <2>1
<1> HIDE DEF step, All, n, none
<1>3. PICK f \in [0 .. n -> All] : Takes(f, n, none, step)
    BY <1>1, <1>2, Recursion
<1>4. \A i \in 0 .. n : f[i] = Body(f, i)
  <2>1. f[0] = none /\ \A i \in 1 .. n : f[i] = step[i][f[i - 1]]
      BY <1>3 DEF Takes
  <2>2. ASSUME NEW i \in 1 .. n
        PROVE  f[i] = Body(f, i)
    <3>1. i - 1 \in 0 .. n /\ i # 0 /\ f[i - 1] \in All
        BY <1>1, <1>3
    <3> QED
        BY <2>1, <3>1 DEF step
  <2>3. f[0] = Body(f, 0)
      BY <2>1 DEF none
  <2>4. \A i \in 0 .. n : i = 0 \/ i \in 1 .. n
      BY <1>1
  <2> HIDE DEF Body
  <2> QED
      BY <2>2, <2>3, <2>4, Zenon
<1>5. f = [i \in 0 .. n |-> Body(f, i)]
    BY <1>3, <1>4
<1> HIDE DEF Body
<1>6. upTo = [i \in 0 .. n |-> Body(upTo, i)]
    BY <1>5
<1> USE DEF Body
<1>7. SoFar(parts) = upTo
    BY DEF SoFar, n
<1> HIDE DEF upTo
<1>8. upTo[0] = <<>> /\ \A i \in 1 .. n : upTo[i] = upTo[i - 1] \o parts[i]
  <2>1. 0 \in 0 .. n
      BY <1>1
  <2>2. upTo[0] = Body(upTo, 0)
      BY <1>6, <2>1
  <2>3. ASSUME NEW i \in 1 .. n
        PROVE  upTo[i] = Body(upTo, i) /\ i # 0
    <3>1. i \in 0 .. n /\ i # 0
        BY <1>1
    <3> QED
        BY <1>6, <3>1
  <2> QED
      BY <2>2, <2>3
<1>9. \A i \in 0 .. n : upTo[i] \in Seq(T)
  <2> DEFINE G == {i \in 0 .. n : upTo[i] \in Seq(T)}
  <2>1. 0 \in G
    <3>1. <<>> \in Seq(T) /\ 0 \in 0 .. n
        BY <1>1
    <3> QED
        BY <1>8, <3>1
  <2>2. ASSUME NEW i \in 1 .. n, i - 1 \in G
        PROVE  i \in G
    <3>1. upTo[i - 1] \in Seq(T) /\ parts[i] \in Seq(T) /\ i \in 0 .. n
        BY <2>2 DEF n
    <3>2. upTo[i] = upTo[i - 1] \o parts[i]
        BY <1>8
    <3>3. ASSUME NEW a \in Seq(T), NEW b \in Seq(T)
          PROVE  a \o b \in Seq(T)
        OBVIOUS
    <3>4. upTo[i] \in Seq(T)
        BY <3>1, <3>2, <3>3, Zenon
    <3> QED
        BY <3>1, <3>4
  <2> HIDE DEF G
  <2>3. 0 .. n \subseteq G
      BY <1>1, <2>1, <2>2, UpTo
  <2> QED
      BY <2>3 DEF G
<1> QED
    BY <1>7, <1>8, <1>9 DEF n

\* t begins with s.
Opens(s, t) == Len(s) <= Len(t) /\ \A i \in 1 .. Len(s) : s[i] = t[i]

LEMMA PrefixIs == ASSUME NEW T, NEW s \in Seq(T), NEW t \in Seq(T)
    PROVE  IsPrefix(s, t) <=> Opens(s, t)
<1>1. Len(s) \in Nat /\ Len(t) \in Nat /\ SubSeq(s, 1, Len(s)) = s
    BY SubSeqFull
<1>2. ASSUME Len(s) <= Len(t)
      PROVE  /\ SubSeq(t, 1, Len(s)) \in Seq(T) /\ Len(SubSeq(t, 1, Len(s))) = Len(s)
             /\ \A i \in 1 .. Len(s) : SubSeq(t, 1, Len(s))[i] = t[i]
    BY <1>1, <1>2
<1>3. ASSUME Len(s) <= Len(t)
      PROVE  s = SubSeq(t, 1, Len(s)) <=> \A i \in 1 .. Len(s) : s[i] = t[i]
    BY <1>1, <1>2, <1>3
<1> QED
    BY <1>1, <1>3 DEF IsPrefix, Opens

LEMMA PrefixOfConcat == ASSUME NEW T, NEW s \in Seq(T), NEW t \in Seq(T)
    PROVE  s \o t \in Seq(T) /\ IsPrefix(s, s \o t) /\ IsPrefix(s, s)
<1>1. s \o t \in Seq(T) /\ Opens(s, s \o t) /\ Opens(s, s)
    BY DEF Opens
<1> QED
    BY <1>1, PrefixIs

LEMMA PrefixTransitive == ASSUME NEW T, NEW s \in Seq(T), NEW t \in Seq(T), NEW u \in Seq(T),
                                 IsPrefix(s, t), IsPrefix(t, u)
    PROVE  IsPrefix(s, u)
<1>1. Opens(s, t) /\ Opens(t, u)
    BY PrefixIs
<1>2. Opens(s, u)
    BY <1>1 DEF Opens
<1> QED
    BY <1>2, PrefixIs

LEMMA SoFarGrows == ASSUME NEW T, NEW parts \in Seq(Seq(T)), NEW k \in 0 .. Len(parts)
    PROVE  IsPrefix(SoFar(parts)[k], SoFar(parts)[Len(parts)])
<1> DEFINE n == Len(parts) - k
           said == SoFar(parts)
           G == {j \in 0 .. n : IsPrefix(said[k], said[k + j])}
<1>1. n \in Nat /\ k \in Nat /\ k + n = Len(parts) /\ Len(parts) \in Nat
    OBVIOUS
<1>2. /\ \A i \in 0 .. Len(parts) : said[i] \in Seq(T)
      /\ \A i \in 1 .. Len(parts) : said[i] = said[i - 1] \o parts[i]
    BY SoFarAre
<1> HIDE DEF said, n
<1>3. 0 \in G
    BY <1>1, <1>2, PrefixOfConcat
<1>4. ASSUME NEW j \in 1 .. n, j - 1 \in G
      PROVE  j \in G
  <2>1. k + j \in 1 .. Len(parts) /\ k + j \in 0 .. Len(parts) /\ k + (j - 1) = (k + j) - 1
        /\ (k + j) - 1 \in 0 .. Len(parts) /\ k \in 0 .. Len(parts)
      BY <1>1
  <2>2. said[k + j] = said[(k + j) - 1] \o parts[k + j] /\ parts[k + j] \in Seq(T)
    <3>1. parts[k + j] \in Seq(T)
        BY <2>1
    <3> QED
        BY <1>2, <2>1, <3>1, Zenon
  <2>3. IsPrefix(said[k], said[(k + j) - 1])
      BY <1>4, <2>1
  <2>4. said[k] \in Seq(T) /\ said[(k + j) - 1] \in Seq(T) /\ said[k + j] \in Seq(T)
      BY <1>2, <2>1
  <2>5. IsPrefix(said[(k + j) - 1], said[k + j])
      BY <2>2, <2>4, PrefixOfConcat
  <2>6. IsPrefix(said[k], said[k + j])
      BY <2>3, <2>4, <2>5, PrefixTransitive
  <2> QED
      BY <2>6
<1> HIDE DEF G
<1>5. 0 .. n \subseteq G
    BY <1>1, <1>3, <1>4, UpTo
<1>6. n \in G
    BY <1>1, <1>5
<1>7. IsPrefix(said[k], said[Len(parts)])
    BY <1>1, <1>6 DEF G
<1> QED
    BY <1>7 DEF said

Words ==
    {Reading(r) : r \in HidReports} \cup {<<"key", c>> : c \in STRING}
        \cup {<<"key", Glyph(c)>> : c \in STRING} \cup {<<"ctrl-alt", Glyph(c)>> : c \in STRING}

LEMMA WordsAre ==
    /\ \A r \in HidReports : Reading(r) \in Words
    /\ \A c \in STRING : <<"key", c>> \in Words
    /\ \A c \in STRING : <<"key", Glyph(c)>> \in Words /\ <<"ctrl-alt", Glyph(c)>> \in Words
BY Zenon DEF Words

LEMMA WishedIs == ASSUME NEW token \in Tokens
    PROVE  /\ Wished(token) \in Seq(Words)
           /\ token.kind \in {"sleep", "type", "ctrl-alt-", "name"}
           /\ token.kind = "sleep" => token.arg \in Int /\ Wished(token) = <<>>
           /\ token.kind = "type" => token.arg \in Seq(STRING) /\ Wished(token) = Spelled(token.arg)
           /\ token.kind = "ctrl-alt-" => Wished(token) = <<<<"ctrl-alt", Glyph(token.arg)>>>>
           /\ token.kind = "name" => Wished(token) = <<<<"key", Glyph(token.arg)>>>>
<1>1. /\ token.kind \in {"sleep", "type", "ctrl-alt-", "name"}
      /\ token.kind = "sleep" => token.arg \in Int
      /\ token.kind = "type" => token.arg \in Seq(STRING)
      /\ token.kind \in {"ctrl-alt-", "name"} => token.arg \in STRING
    BY DEF Tokens
<1>2. CASE token.kind = "sleep"
  <2>1. Wished(token) = <<>>
      BY <1>2 DEF Wished
  <2> QED
      BY <1>1, <1>2, <2>1
<1>3. CASE token.kind = "type"
  <2>1. Wished(token) = Spelled(token.arg)
      BY <1>3 DEF Wished, Spelled
  <2>2. Spelled(token.arg) \in Seq(Words)
    <3> DEFINE chars == token.arg
    <3>1. chars \in Seq(STRING)
        BY <1>1, <1>3
    <3> HIDE DEF chars
    <3>2. Len(chars) \in Nat /\ DOMAIN chars = 1 .. Len(chars) /\ \A i \in 1 .. Len(chars) : <<"key", chars[i]>> \in Words
      <4>1. Len(chars) \in Nat /\ DOMAIN chars = 1 .. Len(chars) /\ \A i \in 1 .. Len(chars) : chars[i] \in STRING
          BY <3>1
      <4> QED
          BY <4>1, WordsAre, Zenon
    <3>3. Spelled(chars) \in Seq(Words)
        BY <3>2 DEF Spelled
    <3> QED
        BY <3>3 DEF chars
  <2> QED
      BY <1>1, <1>3, <2>1, <2>2
<1>4. CASE token.kind = "ctrl-alt-"
  <2>1. Wished(token) = <<<<"ctrl-alt", Glyph(token.arg)>>>>
      BY <1>4 DEF Wished
  <2>2. <<"ctrl-alt", Glyph(token.arg)>> \in Words
      BY <1>1, <1>4, WordsAre
  <2> QED
      BY <1>1, <1>4, <2>1, <2>2
<1>5. CASE token.kind = "name"
  <2>1. Wished(token) = <<<<"key", Glyph(token.arg)>>>>
      BY <1>5 DEF Wished
  <2>2. <<"key", Glyph(token.arg)>> \in Words
      BY <1>1, <1>5, WordsAre
  <2> QED
      BY <1>1, <1>5, <2>1, <2>2
<1> QED
    BY <1>1, <1>2, <1>3, <1>4, <1>5

LEMMA SpelledIs == ASSUME NEW chars \in Seq(STRING)
    PROVE  /\ Spelled(chars) \in Seq(Words) /\ Len(Spelled(chars)) = Len(chars)
           /\ \A i \in 1 .. Len(chars) : Spelled(chars)[i] = <<"key", chars[i]>>
           /\ chars = <<>> => Spelled(chars) = <<>>
<1>1. Len(chars) \in Nat /\ DOMAIN chars = 1 .. Len(chars) /\ \A i \in 1 .. Len(chars) : <<"key", chars[i]>> \in Words
  <2>1. Len(chars) \in Nat /\ DOMAIN chars = 1 .. Len(chars) /\ \A i \in 1 .. Len(chars) : chars[i] \in STRING
      OBVIOUS
  <2> QED
      BY <2>1, WordsAre, Zenon
<1>2. Spelled(chars) \in Seq(Words) /\ Len(Spelled(chars)) = Len(chars)
    BY <1>1 DEF Spelled
<1>3. \A i \in 1 .. Len(chars) : Spelled(chars)[i] = <<"key", chars[i]>>
    BY <1>1 DEF Spelled
<1>4. chars = <<>> => Spelled(chars) = <<>>
    BY <1>2
<1> QED
    BY <1>2, <1>3, <1>4

LEMMA SpelledHead == ASSUME NEW chars \in Seq(STRING), chars # <<>>
    PROVE  /\ Head(chars) \in STRING /\ Tail(chars) \in Seq(STRING)
           /\ <<"key", Head(chars)>> \in Words
           /\ Spelled(chars) = <<<<"key", Head(chars)>>>> \o Spelled(Tail(chars))
<1> DEFINE w == <<"key", Head(chars)>>
           rest == Spelled(Tail(chars))
           both == <<w>> \o rest
<1>1. /\ Head(chars) \in STRING /\ Tail(chars) \in Seq(STRING) /\ Len(Tail(chars)) = Len(chars) - 1
      /\ Len(chars) \in Nat \ {0} /\ \A i \in 1 .. Len(chars) - 1 : Tail(chars)[i] = chars[i + 1]
      /\ Head(chars) = chars[1]
    OBVIOUS
<1>2. w \in Words
    BY <1>1, WordsAre
<1>3. rest \in Seq(Words) /\ Len(rest) = Len(chars) - 1 /\ \A i \in 1 .. Len(chars) - 1 : rest[i] = <<"key", chars[i + 1]>>
    BY <1>1, SpelledIs
<1>4. Spelled(chars) \in Seq(Words) /\ Len(Spelled(chars)) = Len(chars)
      /\ \A i \in 1 .. Len(chars) : Spelled(chars)[i] = <<"key", chars[i]>>
    BY SpelledIs
<1>5. w = <<"key", chars[1]>>
    BY <1>1
<1> HIDE DEF w, rest
<1>6. both \in Seq(Words) /\ Len(both) = Len(chars) /\ both[1] = w /\ \A i \in 2 .. Len(chars) : both[i] = rest[i - 1]
  <2>1. both \in Seq(Words) /\ Len(both) = 1 + Len(rest) /\ both[1] = w
        /\ \A i \in 1 .. Len(rest) : both[1 + i] = rest[i]
      BY <1>2, <1>3
  <2> HIDE DEF both
  <2>2. \A i \in 2 .. Len(chars) : i - 1 \in 1 .. Len(rest) /\ 1 + (i - 1) = i
      BY <1>1, <1>3
  <2>3. \A i \in 2 .. Len(chars) : both[i] = rest[i - 1]
      BY <2>1, <2>2
  <2> QED
      BY <1>1, <1>3, <2>1, <2>3
<1> HIDE DEF both
<1>7. ASSUME NEW i \in 1 .. Len(chars)
      PROVE  both[i] = <<"key", chars[i]>>
  <2>1. CASE i = 1
      BY <1>5, <1>6, <2>1
  <2>2. CASE i # 1
    <3>1. i \in 2 .. Len(chars) /\ i - 1 \in 1 .. Len(chars) - 1 /\ (i - 1) + 1 = i
        BY <1>1, <2>2
    <3> QED
        BY <1>3, <1>6, <3>1
  <2> QED
      BY <2>1, <2>2
<1>8. both = Spelled(chars)
  <2> DEFINE all == Spelled(chars)
  <2>1. all \in Seq(Words) /\ Len(all) = Len(chars) /\ \A i \in 1 .. Len(chars) : all[i] = both[i]
      BY <1>4, <1>7
  <2> HIDE DEF all
  <2>2. both = all
      BY <1>6, <2>1
  <2> QED
      BY <2>2 DEF all
<1> QED
    BY <1>1, <1>2, <1>8 DEF both, w, rest

LEMMA Concats == ASSUME NEW T, NEW s \in Seq(T), NEW t \in Seq(T), NEW u \in Seq(T)
    PROVE  (s \o t) \o u = s \o (t \o u) /\ s \o <<>> = s /\ <<>> \o s = s
OBVIOUS

LEMMA SaidIs == ASSUME NEW reports \in Seq(HidReports)
    PROVE  /\ SaidOf(reports) \in Seq(Words) /\ Len(SaidOf(reports)) = Len(reports)
           /\ \A i \in 1 .. Len(reports) : SaidOf(reports)[i] = Reading(reports[i])
           /\ reports = <<>> => SaidOf(reports) = <<>>
<1>1. Len(reports) \in Nat /\ DOMAIN reports = 1 .. Len(reports) /\ \A i \in 1 .. Len(reports) : Reading(reports[i]) \in Words
    BY WordsAre
<1>2. SaidOf(reports) \in Seq(Words) /\ Len(SaidOf(reports)) = Len(reports)
    BY <1>1 DEF SaidOf
<1>3. \A i \in 1 .. Len(reports) : SaidOf(reports)[i] = Reading(reports[i])
    BY <1>1 DEF SaidOf
<1>4. reports = <<>> => SaidOf(reports) = <<>>
    BY <1>2
<1> QED
    BY <1>2, <1>3, <1>4

LEMMA SaidGrows == ASSUME NEW reports \in Seq(HidReports), NEW r \in HidReports
    PROVE  SaidOf(Append(reports, r)) = SaidOf(reports) \o <<Reading(r)>>
<1> DEFINE more == Append(reports, r)
           said == SaidOf(reports)
           w == Reading(r)
           both == said \o <<w>>
           n == Len(reports)
<1>1. more \in Seq(HidReports) /\ Len(more) = n + 1 /\ n \in Nat /\ more[n + 1] = r /\ \A i \in 1 .. n : more[i] = reports[i]
    OBVIOUS
<1>2. w \in Words
    BY WordsAre
<1>3. said \in Seq(Words) /\ Len(said) = n /\ \A i \in 1 .. n : said[i] = Reading(reports[i])
    BY SaidIs
<1> HIDE DEF said, more
<1>4. SaidOf(more) \in Seq(Words) /\ Len(SaidOf(more)) = n + 1 /\ \A i \in 1 .. n + 1 : SaidOf(more)[i] = Reading(more[i])
    BY <1>1, SaidIs
<1>5. Reading(more[n + 1]) = w /\ \A i \in 1 .. n : Reading(more[i]) = Reading(reports[i])
    BY <1>1
<1> HIDE DEF w, n
<1>6. both \in Seq(Words) /\ Len(both) = n + 1 /\ both[n + 1] = w /\ \A i \in 1 .. n : both[i] = said[i]
    BY <1>1, <1>2, <1>3
<1> HIDE DEF both
<1>7. \A i \in 1 .. n + 1 : i \in 1 .. n \/ i = n + 1
    BY <1>1
<1>8. \A i \in 1 .. n + 1 : both[i] = SaidOf(more)[i]
    BY <1>3, <1>4, <1>5, <1>6, <1>7
<1>9. both = SaidOf(more)
    BY <1>4, <1>6, <1>8
<1> QED
    BY <1>9 DEF both, more, said, w

\* The rest of a sequence from place p + 1 on, and its beginning up to k.
LEMMA Tails == ASSUME NEW T, NEW s \in Seq(T), NEW p \in 0 .. Len(s) - 1
    PROVE  /\ SubSeq(s, p + 1, Len(s)) # <<>>
           /\ Head(SubSeq(s, p + 1, Len(s))) = s[p + 1]
           /\ Tail(SubSeq(s, p + 1, Len(s))) = SubSeq(s, (p + 1) + 1, Len(s))
<1> DEFINE n == Len(s)
           a == SubSeq(s, p + 1, n)
           b == SubSeq(s, (p + 1) + 1, n)
<1>1. n \in Nat /\ p \in Nat /\ p < n
    OBVIOUS
<1>2. a \in Seq(T) /\ Len(a) = n - p /\ \A i \in 1 .. n - p : a[i] = s[p + i]
    BY <1>1
<1>3. b \in Seq(T) /\ Len(b) = n - p - 1 /\ \A i \in 1 .. n - p - 1 : b[i] = s[(p + 1) + i]
    BY <1>1
<1> HIDE DEF a, b, n
<1>4. a # <<>> /\ Head(a) = a[1] /\ Tail(a) \in Seq(T) /\ Len(Tail(a)) = n - p - 1 /\ \A i \in 1 .. n - p - 1 : Tail(a)[i] = a[i + 1]
    BY <1>1, <1>2
<1>5. a[1] = s[p + 1]
    BY <1>1, <1>2
<1>6. \A i \in 1 .. n - p - 1 : a[i + 1] = s[(p + 1) + i]
  <2>1. \A i \in 1 .. n - p - 1 : i + 1 \in 1 .. n - p /\ p + (i + 1) = (p + 1) + i
      BY <1>1
  <2> QED
      BY <1>2, <2>1
<1>7. Tail(a) = b
    BY <1>3, <1>4, <1>6
<1> QED
    BY <1>4, <1>5, <1>7 DEF a, b, n

LEMMA Beginnings == ASSUME NEW T, NEW s \in Seq(T), NEW k \in 0 .. Len(s)
    PROVE  /\ IsPrefix(SubSeq(s, 1, k), s) /\ SubSeq(s, 1, k) \in Seq(T)
           /\ k = Len(s) => SubSeq(s, 1, k) = s
           /\ k = 0 => SubSeq(s, 1, k) = <<>>
           /\ k # Len(s) => SubSeq(s, 1, k) \o <<s[k + 1]>> = SubSeq(s, 1, k + 1)
<1> DEFINE a == SubSeq(s, 1, k)
<1>1. Len(s) \in Nat /\ k \in Nat /\ k <= Len(s)
    OBVIOUS
<1>2. a \in Seq(T) /\ Len(a) = k /\ \A i \in 1 .. k : a[i] = s[i]
    BY <1>1
<1> HIDE DEF a
<1>3. IsPrefix(a, s)
  <2>1. Opens(a, s)
      BY <1>1, <1>2 DEF Opens
  <2> QED
      BY <1>2, <2>1, PrefixIs
<1>4. k = Len(s) => a = s
    BY <1>2
<1>5. k = 0 => a = <<>>
    BY <1>2
<1>6. ASSUME k # Len(s)
      PROVE  a \o <<s[k + 1]>> = SubSeq(s, 1, k + 1)
  <2> DEFINE b == SubSeq(s, 1, k + 1)
             x == s[k + 1]
             c == a \o <<x>>
  <2>1. b \in Seq(T) /\ Len(b) = k + 1 /\ \A i \in 1 .. k + 1 : b[i] = s[i]
      BY <1>1, <1>6
  <2>2. x \in T
      BY <1>1, <1>6
  <2> HIDE DEF b
  <2>3. x = s[k + 1]
      OBVIOUS
  <2> HIDE DEF x
  <2>4. c \in Seq(T) /\ Len(c) = k + 1 /\ c[k + 1] = x /\ \A i \in 1 .. k : c[i] = a[i]
      BY <1>1, <1>2, <2>2
  <2> HIDE DEF c
  <2>5. \A i \in 1 .. k + 1 : i \in 1 .. k \/ i = k + 1
      BY <1>1
  <2>6. \A i \in 1 .. k + 1 : c[i] = b[i]
      BY <1>2, <2>1, <2>3, <2>4, <2>5
  <2>7. c = b
      BY <2>1, <2>4, <2>6
  <2> QED
      BY <2>7 DEF b, c, x
<1> QED
    BY <1>2, <1>3, <1>4, <1>5, <1>6 DEF a

-----------------------------------------------------------------------------
(* HidScripts.  The steps.                                                 *)

LEMMA CommandIs == ASSUME command \in Commands
    PROVE  /\ command.program \in {"type", "hold", "switch"}
           /\ command.program = "type" => command.tokens \in Seq(Tokens)
           /\ command.program = "hold" => command.key \in Int /\ command.span \in Int
           /\ command.program = "switch" => command.channel \in Int
<1>1. CASE command \in [program : {"type"}, tokens : Typings]
    BY <1>1, ScriptsAssumption
<1>2. CASE command \in {[program |-> "hold", key |-> h.key, span |-> h.span] : h \in Holds}
  <2>1. PICK h \in Holds : command = [program |-> "hold", key |-> h.key, span |-> h.span]
      BY <1>2
  <2>2. h.key \in Int /\ h.span \in Int
      BY ScriptsAssumption
  <2> QED
      BY <2>1, <2>2
<1>3. CASE command \in [program : {"switch"}, channel : ChannelKeys]
    BY <1>3, ScriptsAssumption
<1> QED
    BY <1>1, <1>2, <1>3 DEF Commands

LEMMA PressIs == ASSUME NEW m \in 0 .. 255, NEW k \in 0 .. 255
    PROVE  /\ Press(m, k) \in AllStrokes
           /\ Press(m, k).kind = "report" /\ Press(m, k).mod = m /\ Press(m, k).key = k
BY DEF Press, AllStrokes

LEMMA RestIs == ASSUME NEW span \in Nat
    PROVE  Rest(span) \in AllStrokes /\ Rest(span).kind = "pause" /\ Rest(span).span = span
<1>1. 0 \in 0 .. 255
    OBVIOUS
<1> QED
    BY <1>1 DEF Rest, AllStrokes

LEMMA BadIs == Bad \in AllStrokes /\ Bad.kind = "bad"
<1>1. 0 \in 0 .. 255 /\ 0 \in Nat
    OBVIOUS
<1> QED
    BY <1>1 DEF Bad, AllStrokes

LEMMA FixedStrokes ==
    /\ Press(0, 0) \in AllStrokes /\ Press(0, 0).kind = "report" /\ Off = [mod |-> Press(0, 0).mod, key |-> Press(0, 0).key]
    /\ Rest(3) \in AllStrokes /\ Rest(3).kind = "pause"
    /\ Rest(4) \in AllStrokes /\ Rest(4).kind = "pause" /\ Rest(4).span = 4
    /\ Rest(6) \in AllStrokes /\ Rest(6).kind = "pause"
    /\ Rest(10) \in AllStrokes /\ Rest(10).kind = "pause"
    /\ Rest(16) \in AllStrokes /\ Rest(16).kind = "pause" /\ Rest(16).span = 16
<1>1. 0 \in 0 .. 255 /\ 3 \in Nat /\ 4 \in Nat /\ 6 \in Nat /\ 10 \in Nat /\ 16 \in Nat
    OBVIOUS
<1>2. Press(0, 0) \in AllStrokes /\ Press(0, 0).kind = "report" /\ Press(0, 0).mod = 0 /\ Press(0, 0).key = 0
    BY <1>1, PressIs, ZenonT(60)
<1>3. Rest(3) \in AllStrokes /\ Rest(3).kind = "pause"
    BY <1>1, RestIs, Zenon
<1>4. Rest(4) \in AllStrokes /\ Rest(4).kind = "pause" /\ Rest(4).span = 4
    BY <1>1, RestIs, Zenon
<1>5. Rest(6) \in AllStrokes /\ Rest(6).kind = "pause"
    BY <1>1, RestIs, Zenon
<1>6. Rest(10) \in AllStrokes /\ Rest(10).kind = "pause"
    BY <1>1, RestIs, Zenon
<1>7. Rest(16) \in AllStrokes /\ Rest(16).kind = "pause" /\ Rest(16).span = 16
    BY <1>1, RestIs, Zenon
<1>8. Off = [mod |-> Press(0, 0).mod, key |-> Press(0, 0).key]
    BY <1>2 DEF Off
<1> QED
    BY <1>2, <1>3, <1>4, <1>5, <1>6, <1>7, <1>8

LEMMA StepsAre ==
    /\ \A r \in HidReports : Tap(r.mod, r.key) \in Seq(AllStrokes)
    /\ FirstNeutral \in Seq(AllStrokes) /\ <<Bad>> \in Seq(AllStrokes)
    /\ \A span \in Nat : <<Rest(span)>> \in Seq(AllStrokes)
<1>1. ASSUME NEW r \in HidReports
      PROVE  Tap(r.mod, r.key) \in Seq(AllStrokes)
  <2>1. r.mod \in 0 .. 255 /\ r.key \in 0 .. 255
      BY DEF HidReports
  <2>2. Press(r.mod, r.key) \in AllStrokes
      BY <2>1, PressIs, ZenonT(60)
  <2>3. Rest(3) \in AllStrokes /\ Press(0, 0) \in AllStrokes /\ Rest(6) \in AllStrokes
      BY FixedStrokes, Zenon
  <2> QED
      BY <2>2, <2>3 DEF Tap
<1>2. FirstNeutral \in Seq(AllStrokes) /\ <<Bad>> \in Seq(AllStrokes)
  <2>1. Press(0, 0) \in AllStrokes /\ Bad \in AllStrokes
      BY FixedStrokes, BadIs, Zenon
  <2> QED
      BY <2>1 DEF FirstNeutral
<1>3. ASSUME NEW span \in Nat
      PROVE  <<Rest(span)>> \in Seq(AllStrokes)
  <2>1. Rest(span) \in AllStrokes
      BY RestIs, Zenon
  <2> QED
      BY <2>1
<1> QED
    BY <1>1, <1>2, <1>3

\* What is heard of a report.
More(said, r, last) == IF r \notin {Off, last} THEN said \o <<Reading(r)>> ELSE said

LEMMA TypingSends ==
    ASSUME NEW st, NEW chars, NEW last, NEW said \in Seq(Words), NEW wish,
           TypingAt(st, chars, last, said, wish), st # <<>>, Head(st).kind = "report",
           NEW r, r = [mod |-> Head(st).mod, key |-> Head(st).key]
    PROVE  TypingAt(Tail(st), chars, r, More(said, r, last), wish)
<1>1. ASSUME st = <<Bad>>
      PROVE  FALSE
  <2>1. Head(st) = Bad
      BY <1>1
  <2> QED
      BY <2>1, BadIs
<1>2. ASSUME Resting(st, last)
      PROVE  FALSE
  <2>1. PICK span \in Nat : st = <<Rest(span)>>
      BY <1>2 DEF Resting
  <2>2. Head(st) = Rest(span)
      BY <2>1
  <2>3. Rest(span).kind = "pause"
      BY RestIs, Zenon
  <2> QED
      BY <2>2, <2>3
<1>3. CASE st \in TapRest /\ said \o Spelled(chars) = wish
  <2>1. ASSUME r = Off, Resting(Tail(st), Off)
        PROVE  TypingAt(Tail(st), chars, r, More(said, r, last), wish)
    <3>1. More(said, r, last) = said
        BY <2>1 DEF More
    <3> QED
        BY <1>3, <2>1, <3>1 DEF TypingAt
  <2>2. ASSUME st = <<Rest(3), Press(0, 0), Rest(6)>>
        PROVE  FALSE
    <3>1. Head(st) = Rest(3)
        BY <2>2
    <3> QED
        BY <3>1, FixedStrokes
  <2>4. CASE st = <<Press(0, 0), Rest(6)>>
    <3>1. Head(st) = Press(0, 0) /\ Tail(st) = <<Rest(6)>>
        BY <2>4
    <3>2. r = Off
        BY <3>1, FixedStrokes
    <3>3. Resting(Tail(st), Off)
        BY <3>1 DEF Resting
    <3> QED
        BY <2>1, <3>2, <3>3
  <2>5. CASE st = FirstNeutral
    <3>1. Head(st) = Press(0, 0) /\ Tail(st) = <<>>
        BY <2>5 DEF FirstNeutral
    <3>2. r = Off
        BY <3>1, FixedStrokes
    <3>3. Resting(Tail(st), Off)
        BY <3>1 DEF Resting
    <3> QED
        BY <2>1, <3>2, <3>3
  <2> QED
      BY <1>3, <2>2, <2>4, <2>5 DEF TapRest
<1>4. ASSUME last = Off, NEW q \in HidReports \ {Off}, st = Tap(q.mod, q.key),
             (said \o <<Reading(q)>>) \o Spelled(chars) = wish
      PROVE  TypingAt(Tail(st), chars, r, More(said, r, last), wish)
  <2>1. q.mod \in 0 .. 255 /\ q.key \in 0 .. 255 /\ q = [mod |-> q.mod, key |-> q.key]
      BY DEF HidReports
  <2>2. Head(st) = Press(q.mod, q.key) /\ Tail(st) = <<Rest(3), Press(0, 0), Rest(6)>>
      BY <1>4 DEF Tap
  <2>3. r = q
    <3>1. Press(q.mod, q.key).mod = q.mod /\ Press(q.mod, q.key).key = q.key
        BY <2>1, PressIs, ZenonT(60)
    <3> QED
        BY <2>1, <2>2, <3>1
  <2>4. More(said, r, last) = said \o <<Reading(q)>>
      BY <1>4, <2>3 DEF More
  <2>5. Tail(st) \in TapRest
      BY <2>2 DEF TapRest
  <2> DEFINE more == said \o <<Reading(q)>>
             rest == Tail(st)
  <2>6. rest \in TapRest /\ more \o Spelled(chars) = wish
      BY <1>4, <2>5
  <2> HIDE DEF more, rest
  <2>7. TypingAt(rest, chars, r, more, wish)
      BY <2>6 DEF TypingAt
  <2> QED
      BY <2>4, <2>7 DEF more, rest
<1> QED
    BY <1>1, <1>2, <1>3, <1>4, Zenon DEF TypingAt

LEMMA TypingPauses ==
    ASSUME NEW st, NEW chars, NEW last, NEW said \in Seq(Words), NEW wish,
           TypingAt(st, chars, last, said, wish), st # <<>>, Head(st).kind = "pause"
    PROVE  TypingAt(Tail(st), chars, last, said, wish)
<1>1. ASSUME st = <<Bad>>
      PROVE  FALSE
  <2>1. Head(st) = Bad
      BY <1>1
  <2> QED
      BY <2>1, BadIs
<1>2. CASE Resting(st, last) /\ said \o Spelled(chars) = wish
  <2>1. PICK span \in Nat : st = <<Rest(span)>>
      BY <1>2 DEF Resting
  <2>2. Tail(st) = <<>>
      BY <2>1
  <2>3. Resting(Tail(st), last)
      BY <1>2, <2>2 DEF Resting
  <2> QED
      BY <1>2, <2>3 DEF TypingAt
<1>3. CASE st \in TapRest /\ said \o Spelled(chars) = wish
  <2>3. CASE st = <<Rest(3), Press(0, 0), Rest(6)>>
    <3>1. Tail(st) = <<Press(0, 0), Rest(6)>>
        BY <2>3
    <3>2. Tail(st) \in TapRest
        BY <3>1 DEF TapRest
    <3> QED
        BY <1>3, <3>2 DEF TypingAt
  <2>4. ASSUME st = <<Press(0, 0), Rest(6)>> \/ st = FirstNeutral
        PROVE  FALSE
    <3>1. Head(st) = Press(0, 0)
        BY <2>4 DEF FirstNeutral
    <3> QED
        BY <3>1, FixedStrokes
  <2>5. \/ st = <<Rest(3), Press(0, 0), Rest(6)>>
        \/ st = <<Press(0, 0), Rest(6)>> \/ st = FirstNeutral
      BY <1>3, Zenon DEF TapRest
  <2> QED
      BY <2>3, <2>4, <2>5, Zenon
<1>4. ASSUME NEW q \in HidReports \ {Off}, st = Tap(q.mod, q.key)
      PROVE  FALSE
  <2>1. Head(st) = Press(q.mod, q.key) /\ q.mod \in 0 .. 255 /\ q.key \in 0 .. 255
      BY <1>4 DEF Tap, HidReports
  <2>2. Press(q.mod, q.key).kind = "report"
      BY <2>1, PressIs, ZenonT(60)
  <2> QED
      BY <2>1, <2>2
<1> QED
    BY <1>1, <1>2, <1>3, <1>4, Zenon DEF TypingAt

\* With nothing under way, what is next is said in the end or refused.
LEMMA TypingGoesOn ==
    ASSUME NEW st, NEW said \in Seq(Words), NEW w \in Words, NEW chars \in Seq(STRING), NEW wish,
           (said \o <<w>>) \o Spelled(chars) = wish,
           \/ st = <<Bad>>
           \/ \E r \in HidReports \ {Off} : st = Tap(r.mod, r.key) /\ Reading(r) = w
    PROVE  TypingAt(st, chars, Off, said, wish)
<1>1. CASE st = <<Bad>>
  <2> DEFINE one == <<w>>
             more == said \o one
             rest == Spelled(chars)
  <2>1. one \in Seq(Words) /\ rest \in Seq(Words)
      BY SpelledIs
  <2> HIDE DEF one, rest
  <2>2. more \in Seq(Words) /\ IsPrefix(said, more)
      BY <2>1, PrefixOfConcat, Zenon
  <2>3. wish = more \o rest
      BY DEF rest, one
  <2> HIDE DEF more
  <2>4. wish \in Seq(Words) /\ IsPrefix(more, wish)
      BY <2>1, <2>2, <2>3, PrefixOfConcat, Zenon
  <2>5. IsPrefix(said, wish)
      BY <2>2, <2>4, PrefixTransitive, Zenon
  <2> QED
      BY <1>1, <2>5 DEF TypingAt
<1>2. CASE \E r \in HidReports \ {Off} : st = Tap(r.mod, r.key) /\ Reading(r) = w
  <2>1. PICK r \in HidReports \ {Off} : st = Tap(r.mod, r.key) /\ Reading(r) = w
      BY <1>2
  <2>2. (said \o <<Reading(r)>>) \o Spelled(chars) = wish
      BY <2>1
  <2> QED
      BY <2>1, <2>2, Zenon DEF TypingAt
<1> QED
    BY <1>1, <1>2

LEMMA TypingIdle ==
    ASSUME NEW chars, NEW last, NEW said \in Seq(Words), NEW wish, TypingAt(<<>>, chars, last, said, wish)
    PROVE  last = Off /\ said \o Spelled(chars) = wish
<1>1. <<>> # <<Bad>> /\ <<>> \notin TapRest
    BY DEF TapRest, FirstNeutral
<1>2. ASSUME NEW r \in HidReports \ {Off}
      PROVE  <<>> # Tap(r.mod, r.key)
    BY DEF Tap
<1>3. (Resting(<<>>, last) \/ <<>> \in TapRest) /\ said \o Spelled(chars) = wish
    BY <1>1, <1>2, Zenon DEF TypingAt
<1> QED
    BY <1>1, <1>3 DEF Resting

LEMMA TypingBegins ==
    ASSUME NEW st, NEW chars \in Seq(STRING), NEW last, NEW said \in Seq(Words), NEW wish \in Seq(Words),
           TypingAt(st, chars, last, said, wish)
    PROVE  IsPrefix(said, wish)
<1> DEFINE rest == Spelled(chars)
<1>1. rest \in Seq(Words)
    BY SpelledIs
<1>2. ASSUME NEW r \in HidReports, (said \o <<Reading(r)>>) \o rest = wish
      PROVE  IsPrefix(said, wish)
  <2> DEFINE one == <<Reading(r)>>
             more == said \o one
  <2>1. one \in Seq(Words)
    <3>1. Reading(r) \in Words
        BY WordsAre
    <3> QED
        BY <3>1
  <2>2. wish = more \o rest
      BY <1>2
  <2> HIDE DEF one, rest
  <2>3. more \in Seq(Words) /\ IsPrefix(said, more)
      BY <2>1, PrefixOfConcat, Zenon
  <2> HIDE DEF more
  <2>4. IsPrefix(more, wish)
      BY <1>1, <2>2, <2>3, PrefixOfConcat, Zenon
  <2> QED
      BY <2>3, <2>4, PrefixTransitive, Zenon
<1>3. ASSUME said \o rest = wish
      PROVE  IsPrefix(said, wish)
  <2> HIDE DEF rest
  <2> QED
      BY <1>1, <1>3, PrefixOfConcat, Zenon
<1> QED
    BY <1>2, <1>3, Zenon DEF TypingAt

\* What is asked for up to each token, and in all.
LEMMA AskedIs == ASSUME NEW tokens \in Seq(Tokens)
    PROVE  /\ Asked(tokens, 0) = <<>>
           /\ \A k \in 0 .. Len(tokens) :
                 Asked(tokens, k) \in Seq(Words) /\ IsPrefix(Asked(tokens, k), Asked(tokens, Len(tokens)))
           /\ \A k \in 1 .. Len(tokens) : Asked(tokens, k) = Asked(tokens, k - 1) \o Wished(tokens[k])
<1> DEFINE parts == Wishes(tokens)
<1>1. DOMAIN tokens = 1 .. Len(tokens) /\ Len(tokens) \in Nat /\ \A i \in 1 .. Len(tokens) : tokens[i] \in Tokens
    OBVIOUS
<1>2. \A i \in 1 .. Len(tokens) : Wished(tokens[i]) \in Seq(Words)
    BY <1>1, WishedIs, Zenon
<1>3. parts \in Seq(Seq(Words)) /\ Len(parts) = Len(tokens)
    BY <1>1, <1>2 DEF Wishes
<1>4. \A i \in 1 .. Len(tokens) : parts[i] = Wished(tokens[i])
    BY <1>1 DEF Wishes
<1> HIDE DEF parts
<1>5. /\ SoFar(parts)[0] = <<>>
      /\ \A n \in 0 .. Len(parts) : SoFar(parts)[n] \in Seq(Words)
      /\ \A n \in 1 .. Len(parts) : SoFar(parts)[n] = SoFar(parts)[n - 1] \o parts[n]
    BY <1>3, SoFarAre, Zenon
<1>6. \A k \in 0 .. Len(parts) : IsPrefix(SoFar(parts)[k], SoFar(parts)[Len(parts)])
    BY <1>3, SoFarGrows, Zenon
<1>7. \A k : Asked(tokens, k) = SoFar(parts)[k]
    BY DEF Asked, parts
<1>8. ASSUME NEW k \in 1 .. Len(tokens)
      PROVE  Asked(tokens, k) = Asked(tokens, k - 1) \o Wished(tokens[k])
    BY <1>3, <1>4, <1>5, <1>7, Zenon
<1>9. ASSUME NEW k \in 0 .. Len(tokens)
      PROVE  Asked(tokens, k) \in Seq(Words) /\ IsPrefix(Asked(tokens, k), Asked(tokens, Len(tokens)))
    BY <1>3, <1>5, <1>6, <1>7, Zenon
<1> QED
    BY <1>5, <1>7, <1>8, <1>9, Zenon

LEMMA CharStarts == ASSUME NEW chars \in Seq(STRING), chars # <<>>, NEW said \in Seq(Words)
    PROVE  /\ TypingAt(CharSteps(Head(chars)), Tail(chars), Off, said, said \o Spelled(chars))
           /\ CharSteps(Head(chars)) \in Seq(AllStrokes) /\ Tail(chars) \in Seq(STRING)
<1> DEFINE c == Head(chars)
           w == <<"key", c>>
           one == <<w>>
           rest == Spelled(Tail(chars))
           all == Spelled(chars)
<1>1. Tail(chars) \in Seq(STRING) /\ w \in Words /\ all = one \o rest
    BY SpelledHead
<1>2. rest \in Seq(Words) /\ one \in Seq(Words)
  <2>1. rest \in Seq(Words)
      BY <1>1, SpelledIs, Zenon
  <2> HIDE DEF w
  <2>2. one \in Seq(Words)
      BY <1>1
  <2> QED
      BY <2>1, <2>2
<1>3. \/ CharSteps(c) = <<Bad>>
      \/ \E r \in HidReports \ {Off} : CharSteps(c) = Tap(r.mod, r.key) /\ Reading(r) = w
    BY CharMeans
<1>4. (said \o one) \o rest = said \o all
  <2> HIDE DEF one, rest, all
  <2> QED
      BY <1>1, <1>2, Concats
<1>5. CharSteps(c) \in Seq(AllStrokes)
    BY <1>3, StepsAre
<1> HIDE DEF c, all
<1>6. TypingAt(CharSteps(c), Tail(chars), Off, said, said \o all)
    BY <1>1, <1>3, <1>4, TypingGoesOn, Zenon
<1> QED
    BY <1>1, <1>5, <1>6 DEF c, all

LEMMA TokenStarts == ASSUME NEW token \in Tokens, NEW said \in Seq(Words)
    PROVE  /\ TypingAt(TokenSteps(token), IF token.kind = "type" THEN token.arg ELSE <<>>, Off, said,
                       said \o Wished(token))
           /\ TokenSteps(token) \in Seq(AllStrokes)
           /\ (IF token.kind = "type" THEN token.arg ELSE <<>>) \in Seq(STRING)
<1> DEFINE chars == IF token.kind = "type" THEN token.arg ELSE <<>>
           wish == said \o Wished(token)
<1>1. <<>> \in Seq(STRING) /\ Spelled(<<>>) = <<>> /\ <<>> \in Seq(AllStrokes)
  <2> DEFINE none == <<>>
  <2>1. none \in Seq(STRING) /\ none \in Seq(AllStrokes)
      OBVIOUS
  <2>2. none = <<>>
      OBVIOUS
  <2> HIDE DEF none
  <2>3. Spelled(none) = <<>>
      BY <2>1, <2>2, SpelledIs
  <2> QED
      BY <2>1, <2>3 DEF none
<1>2. ASSUME NEW w \in Words, Wished(token) = <<w>>, token.kind # "type",
             \/ TokenSteps(token) = <<Bad>>
             \/ \E r \in HidReports \ {Off} : TokenSteps(token) = Tap(r.mod, r.key) /\ Reading(r) = w
      PROVE  TypingAt(TokenSteps(token), chars, Off, said, wish) /\ TokenSteps(token) \in Seq(AllStrokes)
  <2>1. chars = <<>>
      BY <1>2
  <2> DEFINE one == <<w>>
             none == <<>>
  <2>2. one \in Seq(Words) /\ said \o one \in Seq(Words) /\ Spelled(none) = <<>> /\ none \in Seq(STRING)
      BY <1>1
  <2>3. wish = said \o one
      BY <1>2
  <2>4. (said \o one) \o Spelled(none) = wish
    <3> DEFINE more == said \o one
    <3>1. more \in Seq(Words)
        BY <2>2
    <3> HIDE DEF more
    <3>2. more \o <<>> = more
        BY <3>1
    <3> QED
        BY <2>2, <2>3, <3>2 DEF more
  <2> HIDE DEF none, wish
  <2>5. TypingAt(TokenSteps(token), none, Off, said, wish)
      BY <1>2, <2>2, <2>4, TypingGoesOn, Zenon
  <2>6. TokenSteps(token) \in Seq(AllStrokes)
      BY <1>2, StepsAre
  <2> QED
      BY <2>1, <2>5, <2>6 DEF none
<1>3. CASE token.kind = "sleep"
  <2>1. token.arg \in Int /\ Wished(token) = <<>> /\ chars = <<>>
      BY <1>3, WishedIs
  <2>2. wish = said
      BY <2>1
  <2>3. CASE token.arg >= 0
    <3>1. TokenSteps(token) = <<Rest(token.arg)>> /\ token.arg \in Nat
        BY <1>3, <2>1, <2>3 DEF TokenSteps
    <3>2. Resting(TokenSteps(token), Off) /\ TokenSteps(token) \in Seq(AllStrokes)
        BY <3>1, StepsAre DEF Resting
    <3>3. said \o Spelled(chars) = wish
        BY <1>1, <2>1, <2>2
    <3> HIDE DEF wish
    <3>4. TypingAt(TokenSteps(token), chars, Off, said, wish)
        BY <3>2, <3>3, Zenon DEF TypingAt
    <3> QED
        BY <1>1, <2>1, <3>2, <3>4 DEF wish
  <2>4. CASE ~(token.arg >= 0)
    <3>1. TokenSteps(token) = <<Bad>>
        BY <1>3, <2>4 DEF TokenSteps
    <3>2. IsPrefix(said, wish)
        BY <1>1, <2>2, PrefixOfConcat
    <3> HIDE DEF wish
    <3>3. TypingAt(TokenSteps(token), chars, Off, said, wish)
        BY <3>1, <3>2, Zenon DEF TypingAt
    <3> QED
        BY <1>1, <2>1, <3>1, <3>3, StepsAre DEF wish
  <2> QED
      BY <2>3, <2>4
<1>4. CASE token.kind = "type"
  <2>1. token.arg \in Seq(STRING) /\ Wished(token) = Spelled(token.arg) /\ chars = token.arg
      BY <1>4, WishedIs
  <2>2. TokenSteps(token) = <<>>
      BY <1>4 DEF TokenSteps
  <2>3. Resting(TokenSteps(token), Off) /\ said \o Spelled(chars) = wish
      BY <2>1, <2>2 DEF Resting
  <2> HIDE DEF wish, chars
  <2>4. TypingAt(TokenSteps(token), chars, Off, said, wish)
      BY <2>3, Zenon DEF TypingAt
  <2> QED
      BY <1>1, <2>1, <2>2, <2>4 DEF wish, chars
<1>5. CASE token.kind = "ctrl-alt-"
  <2>1. Wished(token) = <<<<"ctrl-alt", Glyph(token.arg)>>>> /\ TokenSteps(token) = ChordSteps(token.arg)
      BY <1>5, WishedIs DEF TokenSteps
  <2>2. token.arg \in STRING
      BY <1>5 DEF Tokens
  <2>3. <<"ctrl-alt", Glyph(token.arg)>> \in Words
      BY <2>2, WordsAre
  <2>4. \/ TokenSteps(token) = <<Bad>>
        \/ \E r \in HidReports \ {Off} : TokenSteps(token) = Tap(r.mod, r.key) /\ Reading(r) = <<"ctrl-alt", Glyph(token.arg)>>
    <3>1. \/ ChordSteps(token.arg) = <<Bad>>
          \/ \E r \in HidReports \ {Off} : ChordSteps(token.arg) = Tap(r.mod, r.key) /\ Reading(r) = <<"ctrl-alt", Glyph(token.arg)>>
        BY ChordMeans
    <3> QED
        BY <2>1, <3>1
  <2> QED
      BY <1>1, <1>2, <1>5, <2>1, <2>3, <2>4
<1>6. CASE token.kind = "name"
  <2>1. Wished(token) = <<<<"key", Glyph(token.arg)>>>>
      BY <1>6, WishedIs
  <2>2. token.arg \in STRING
      BY <1>6 DEF Tokens
  <2>3. <<"key", Glyph(token.arg)>> \in Words
      BY <2>2, WordsAre
  <2>4. \/ TokenSteps(token) = <<Bad>>
        \/ \E r \in HidReports \ {Off} : TokenSteps(token) = Tap(r.mod, r.key) /\ Reading(r) = <<"key", Glyph(token.arg)>>
    <3>1. CASE token.arg \in DOMAIN Named
      <4>1. TokenSteps(token) = Tap(0, Named[token.arg])
          BY <1>6, <3>1 DEF TokenSteps
      <4> QED
          BY <3>1, <4>1, NameMeans
    <3>2. CASE token.arg \notin DOMAIN Named
        BY <1>6, <3>2 DEF TokenSteps
    <3> QED
        BY <3>1, <3>2
  <2> QED
      BY <1>1, <1>2, <1>6, <2>1, <2>3, <2>4
<1>7. token.kind \in {"sleep", "type", "ctrl-alt-", "name"}
    BY WishedIs
<1> QED
    BY <1>3, <1>4, <1>5, <1>6, <1>7

Joins(whole, s, t, m, n) ==
    /\ whole \in Seq(AllStrokes) /\ Len(whole) = m + n
    /\ \A i \in 1 .. m : whole[i] = s[i]
    /\ \A i \in 1 .. n : whole[m + i] = t[i]

LEMMA ConcatIs == ASSUME NEW s \in Seq(AllStrokes), NEW t \in Seq(AllStrokes)
    PROVE  Joins(s \o t, s, t, Len(s), Len(t))
BY DEF Joins

\* The twelve strokes of a switch, one by one.
SwitchList(st, digit) ==
    /\ st \in Seq(AllStrokes) /\ Len(st) = 12
    /\ st[1] = Press(0, 0)
    /\ st[2] = Press(1, 0) /\ st[3] = Rest(3) /\ st[4] = Press(0, 0) /\ st[5] = Rest(10)
    /\ st[6] = Press(1, 0) /\ st[7] = Rest(3) /\ st[8] = Press(0, 0) /\ st[9] = Rest(10)
    /\ st[10] = Press(0, digit) /\ st[11] = Rest(3) /\ st[12] = Press(0, 0)

LEMMA SwitchIs == ASSUME NEW ch \in 1 .. 8
    PROVE  SwitchList(SwitchSteps(ch), DigitOf(ch))
<1> DEFINE off == Press(0, 0)
           ctrl == Press(1, 0)
           digit == Press(0, DigitOf(ch))
           short == Rest(3)
           long == Rest(10)
<1>1. off \in AllStrokes /\ short \in AllStrokes /\ long \in AllStrokes
    BY FixedStrokes, Zenon
<1>2. ctrl \in AllStrokes /\ digit \in AllStrokes
  <2>1. 0 \in 0 .. 255 /\ 1 \in 0 .. 255 /\ DigitOf(ch) \in 0 .. 255
      BY DEF DigitOf
  <2> QED
      BY <2>1, PressIs, ZenonT(60)
<1> DEFINE a == <<off>>
           t1 == <<ctrl, short, off>>
           t2 == <<digit, short, off>>
           p == <<long>>
<1>3. SwitchSteps(ch) = a \o t1 \o p \o t1 \o p \o t2
    BY DEF SwitchSteps, SwitchTap
<1>4. a \in Seq(AllStrokes) /\ Len(a) = 1 /\ a[1] = off /\ p \in Seq(AllStrokes) /\ Len(p) = 1 /\ p[1] = long
  <2> HIDE DEF off, long
  <2> QED
      BY <1>1
<1>5. t1 \in Seq(AllStrokes) /\ Len(t1) = 3 /\ t1[1] = ctrl /\ t1[2] = short /\ t1[3] = off
  <2> HIDE DEF off, ctrl, short
  <2> QED
      BY <1>1, <1>2
<1>6. t2 \in Seq(AllStrokes) /\ Len(t2) = 3 /\ t2[1] = digit /\ t2[2] = short /\ t2[3] = off
  <2> HIDE DEF off, digit, short
  <2> QED
      BY <1>1, <1>2
<1> DEFINE b == a \o t1
           c == b \o p
           d == c \o t1
           e == d \o p
           f == e \o t2
<1> HIDE DEF a, t1, t2, p
<1>7. b \in Seq(AllStrokes) /\ Len(b) = 4 /\ b[1] = a[1] /\ b[2] = t1[1] /\ b[3] = t1[2] /\ b[4] = t1[3]
  <2>1. b \in Seq(AllStrokes) /\ Len(b) = 1 + 3
        /\ (\A i \in 1 .. 1 : b[i] = a[i]) /\ (\A i \in 1 .. 3 : b[1 + i] = t1[i])
    <3>1. Joins(b, a, t1, 1, 3)
        BY <1>4, <1>5, ConcatIs, Zenon
    <3> HIDE DEF b
    <3> QED
        BY <3>1 DEF Joins
  <2> HIDE DEF b
  <2>2. b[1 + 1] = t1[1] /\ b[1 + 2] = t1[2] /\ b[1 + 3] = t1[3]
      BY <2>1
  <2> QED
      BY <2>1, <2>2
<1> HIDE DEF b
<1>8. c \in Seq(AllStrokes) /\ Len(c) = 5 /\ (\A i \in 1 .. 4 : c[i] = b[i]) /\ c[5] = p[1]
  <2>1. c \in Seq(AllStrokes) /\ Len(c) = 4 + 1
        /\ (\A i \in 1 .. 4 : c[i] = b[i]) /\ (\A i \in 1 .. 1 : c[4 + i] = p[i])
    <3>1. Joins(c, b, p, 4, 1)
        BY <1>4, <1>7, ConcatIs, Zenon
    <3> HIDE DEF c
    <3> QED
        BY <3>1 DEF Joins
  <2> HIDE DEF c
  <2>2. c[4 + 1] = p[1]
      BY <2>1
  <2> QED
      BY <2>1, <2>2
<1> HIDE DEF c
<1>9. d \in Seq(AllStrokes) /\ Len(d) = 8 /\ (\A i \in 1 .. 5 : d[i] = c[i]) /\ d[6] = t1[1] /\ d[7] = t1[2] /\ d[8] = t1[3]
  <2>1. d \in Seq(AllStrokes) /\ Len(d) = 5 + 3
        /\ (\A i \in 1 .. 5 : d[i] = c[i]) /\ (\A i \in 1 .. 3 : d[5 + i] = t1[i])
    <3>1. Joins(d, c, t1, 5, 3)
        BY <1>5, <1>8, ConcatIs, Zenon
    <3> HIDE DEF d
    <3> QED
        BY <3>1 DEF Joins
  <2> HIDE DEF d
  <2>2. d[5 + 1] = t1[1] /\ d[5 + 2] = t1[2] /\ d[5 + 3] = t1[3]
      BY <2>1
  <2> QED
      BY <2>1, <2>2
<1> HIDE DEF d
<1>10. e \in Seq(AllStrokes) /\ Len(e) = 9 /\ (\A i \in 1 .. 8 : e[i] = d[i]) /\ e[9] = p[1]
  <2>1. e \in Seq(AllStrokes) /\ Len(e) = 8 + 1
        /\ (\A i \in 1 .. 8 : e[i] = d[i]) /\ (\A i \in 1 .. 1 : e[8 + i] = p[i])
    <3>1. Joins(e, d, p, 8, 1)
        BY <1>4, <1>9, ConcatIs, Zenon
    <3> HIDE DEF e
    <3> QED
        BY <3>1 DEF Joins
  <2> HIDE DEF e
  <2>2. e[8 + 1] = p[1]
      BY <2>1
  <2> QED
      BY <2>1, <2>2
<1> HIDE DEF e
<1>11. f \in Seq(AllStrokes) /\ Len(f) = 12 /\ (\A i \in 1 .. 9 : f[i] = e[i]) /\ f[10] = t2[1] /\ f[11] = t2[2] /\ f[12] = t2[3]
  <2>1. f \in Seq(AllStrokes) /\ Len(f) = 9 + 3
        /\ (\A i \in 1 .. 9 : f[i] = e[i]) /\ (\A i \in 1 .. 3 : f[9 + i] = t2[i])
    <3>1. Joins(f, e, t2, 9, 3)
        BY <1>6, <1>10, ConcatIs, Zenon
    <3> HIDE DEF f
    <3> QED
        BY <3>1 DEF Joins
  <2> HIDE DEF f
  <2>2. f[9 + 1] = t2[1] /\ f[9 + 2] = t2[2] /\ f[9 + 3] = t2[3]
      BY <2>1
  <2> QED
      BY <2>1, <2>2
<1> HIDE DEF f
<1>12. SwitchSteps(ch) = f
    BY <1>3 DEF a, b, c, d, e, f
<1> HIDE DEF off, ctrl, digit, short, long
<1>13. SwitchList(f, DigitOf(ch)) <=>
          /\ f[1] = off /\ f[2] = ctrl /\ f[3] = short /\ f[4] = off /\ f[5] = long
          /\ f[6] = ctrl /\ f[7] = short /\ f[8] = off /\ f[9] = long
          /\ f[10] = digit /\ f[11] = short /\ f[12] = off
    BY <1>11 DEF SwitchList, off, ctrl, digit, short, long
<1>14. /\ f[1] = off /\ f[2] = ctrl /\ f[3] = short /\ f[4] = off /\ f[5] = long
       /\ f[6] = ctrl /\ f[7] = short /\ f[8] = off /\ f[9] = long
       /\ f[10] = digit /\ f[11] = short /\ f[12] = off
    BY <1>4, <1>5, <1>6, <1>7, <1>8, <1>9, <1>10, <1>11
<1> QED
    BY <1>12, <1>13, <1>14

LEMMA SwitchKinds == ASSUME NEW ch \in 1 .. 8
    PROVE  /\ \A i \in {1, 4, 8, 12} : SwitchSteps(ch)[i].kind = "report" /\ Off = [mod |-> SwitchSteps(ch)[i].mod, key |-> SwitchSteps(ch)[i].key]
           /\ \A i \in {3, 5, 7, 9, 11} : SwitchSteps(ch)[i].kind = "pause"
           /\ \A i \in {2, 6, 10} : SwitchSteps(ch)[i].kind = "report"
           /\ \A i \in {2, 6} : [mod |-> SwitchSteps(ch)[i].mod, key |-> SwitchSteps(ch)[i].key] = [mod |-> 1, key |-> 0]
           /\ [mod |-> SwitchSteps(ch)[10].mod, key |-> SwitchSteps(ch)[10].key] = [mod |-> 0, key |-> DigitOf(ch)]
<1> DEFINE st == SwitchSteps(ch)
           D == DigitOf(ch)
<1>1. SwitchList(st, D)
    BY SwitchIs, Zenon
<1>2. 0 \in 0 .. 255 /\ 1 \in 0 .. 255 /\ D \in 0 .. 255
    BY DEF DigitOf
<1> HIDE DEF st, D
<1>3. /\ Press(1, 0).kind = "report" /\ Press(1, 0).mod = 1 /\ Press(1, 0).key = 0
      /\ Press(0, D).kind = "report" /\ Press(0, D).mod = 0 /\ Press(0, D).key = D
  <2>1. Press(1, 0).kind = "report" /\ Press(1, 0).mod = 1 /\ Press(1, 0).key = 0
      BY <1>2, PressIs, ZenonT(60)
  <2>2. Press(0, D).kind = "report" /\ Press(0, D).mod = 0 /\ Press(0, D).key = D
      BY <1>2, PressIs, ZenonT(60)
  <2> QED
      BY <2>1, <2>2
<1>4. \A i \in {1, 4, 8, 12} : st[i] = Press(0, 0)
    BY <1>1 DEF SwitchList
<1>5. \A i \in {3, 5, 7, 9, 11} : st[i] = Rest(3) \/ st[i] = Rest(10)
    BY <1>1 DEF SwitchList
<1>6. (\A i \in {2, 6} : st[i] = Press(1, 0)) /\ st[10] = Press(0, D)
    BY <1>1 DEF SwitchList
<1>7. \A i \in {1, 4, 8, 12} : st[i].kind = "report" /\ Off = [mod |-> st[i].mod, key |-> st[i].key]
    BY <1>4, FixedStrokes
<1>8. \A i \in {3, 5, 7, 9, 11} : st[i].kind = "pause"
    BY <1>5, FixedStrokes
<1>9. \A i \in {2, 6, 10} : st[i].kind = "report"
    BY <1>3, <1>6
<1>10. \A i \in {2, 6} : [mod |-> st[i].mod, key |-> st[i].key] = [mod |-> 1, key |-> 0]
    BY <1>3, <1>6
<1>11. [mod |-> st[10].mod, key |-> st[10].key] = [mod |-> 0, key |-> D]
    BY <1>3, <1>6
<1> QED
    BY <1>7, <1>8, <1>9, <1>10, <1>11 DEF st, D

LEMMA SwitchWordsAre == ASSUME NEW ch \in 1 .. 8
    PROVE  /\ SwitchWords(ch) \in Seq(Words) /\ Len(SwitchWords(ch)) = 3
           /\ [mod |-> 1, key |-> 0] \in HidReports \ {Off} /\ [mod |-> 0, key |-> DigitOf(ch)] \in HidReports \ {Off}
           /\ Reading([mod |-> 1, key |-> 0]) = SwitchWords(ch)[1]
           /\ Reading([mod |-> 1, key |-> 0]) = SwitchWords(ch)[2]
           /\ Reading([mod |-> 0, key |-> DigitOf(ch)]) = SwitchWords(ch)[3]
<1> DEFINE w == <<"ctrl", "alone">>
           d == <<"key", Digits[ch]>>
           all == <<w, w, d>>
           ctrl == [mod |-> 1, key |-> 0]
           digit == [mod |-> 0, key |-> DigitOf(ch)]
<1>1. ctrl \in HidReports \ {Off} /\ digit \in HidReports \ {Off}
    BY DEF HidReports, Off, DigitOf
<1>2. Reading(ctrl) = w
    BY DEF Reading
<1>3. Usage[26 + ch] = Digits[ch]
    BY UsageIs
<1>4. Reading(digit) = d
  <2>1. digit.mod = 0 /\ digit.key \in 4 .. 82 /\ digit.key - 3 = 26 + ch
      BY DEF DigitOf
  <2> HIDE DEF digit
  <2>2. Reading(digit) = <<"key", Usage[digit.key - 3]>>
      BY <2>1 DEF Reading
  <2> QED
      BY <1>3, <2>1, <2>2
<1>5. w \in Words /\ d \in Words
    BY <1>1, <1>2, <1>4, WordsAre
<1> HIDE DEF ctrl, digit, w, d
<1>6. all \in Seq(Words) /\ Len(all) = 3 /\ all[1] = w /\ all[2] = w /\ all[3] = d
    BY <1>5
<1>7. SwitchWords(ch) = all
    BY DEF SwitchWords, w, d
<1> HIDE DEF all
<1>8. /\ SwitchWords(ch) \in Seq(Words) /\ Len(SwitchWords(ch)) = 3 /\ ctrl \in HidReports \ {Off} /\ digit \in HidReports \ {Off}
      /\ Reading(ctrl) = SwitchWords(ch)[1] /\ Reading(ctrl) = SwitchWords(ch)[2] /\ Reading(digit) = SwitchWords(ch)[3]
    BY <1>1, <1>2, <1>4, <1>6, <1>7
<1> QED
    BY <1>8 DEF ctrl, digit

\* A stroke of a switch goes one place on.
LEMMA SwitchSends ==
    ASSUME NEW ch \in 1 .. 8, NEW p \in 0 .. 12, NEW st, NEW last, NEW said,
           SwitchAt(p, ch, st, last, said), st # <<>>, Head(st).kind = "report",
           NEW r, r = [mod |-> Head(st).mod, key |-> Head(st).key]
    PROVE  p + 1 \in 0 .. 12 /\ SwitchAt(p + 1, ch, Tail(st), r, More(said, r, last))
<1> DEFINE all == SwitchSteps(ch)
           words == SwitchWords(ch)
<1>1. all \in Seq(AllStrokes) /\ Len(all) = 12
    BY SwitchIs DEF SwitchList
<1>2. words \in Seq(Words) /\ Len(words) = 3
    BY SwitchWordsAre
<1>3. st = SubSeq(all, p + 1, 12) /\ said = SubSeq(words, 1, PressesIn(p)) /\ (p \in {1, 4, 5, 8, 9, 12} => last = Off)
    BY DEF SwitchAt
<1>4. p \in 0 .. 11
  <2> HIDE DEF all
  <2>1. SubSeq(all, 12 + 1, 12) = <<>>
      BY <1>1
  <2> QED
      BY <1>3, <2>1
<1>5. Head(st) = all[p + 1] /\ Tail(st) = SubSeq(all, (p + 1) + 1, 12)
  <2> HIDE DEF all
  <2>1. p \in 0 .. Len(all) - 1
      BY <1>1, <1>4
  <2> QED
      BY <1>1, <1>3, <2>1, Tails
<1>6. p + 1 \in {1, 2, 4, 6, 8, 10, 12}
  <2>1. \A i \in {3, 5, 7, 9, 11} : all[i].kind = "pause"
      BY SwitchKinds
  <2> HIDE DEF all
  <2>2. p + 1 \notin {3, 5, 7, 9, 11}
      BY <1>5, <2>1
  <2> QED
      BY <1>4, <2>2
<1>7. CASE p + 1 \in {1, 4, 8, 12}
  <2>1. r = Off
      BY <1>5, <1>7, SwitchKinds
  <2>2. More(said, r, last) = said
      BY <2>1 DEF More
  <2>3. PressesIn(p + 1) = PressesIn(p)
      BY <1>4, <1>7 DEF PressesIn
  <2> QED
      BY <1>3, <1>4, <1>5, <2>1, <2>2, <2>3 DEF SwitchAt
<1>8. CASE p + 1 \in {2, 6, 10}
  <2> DEFINE n == PressesIn(p)
  <2>1. n \in 0 .. 2 /\ PressesIn(p + 1) = n + 1 /\ (p + 1 \in {2, 6} => n \in {0, 1}) /\ (p + 1 = 10 => n = 2)
        /\ p \in {1, 5, 9} /\ p + 1 \notin {1, 4, 5, 8, 9, 12}
      BY <1>4, <1>8 DEF PressesIn
  <2> HIDE DEF n
  <2>3. p + 1 \in {2, 6} => r = [mod |-> 1, key |-> 0]
      BY <1>5, SwitchKinds
  <2>4. p + 1 = 10 => r = [mod |-> 0, key |-> DigitOf(ch)]
      BY <1>5, SwitchKinds
  <2>5. r # Off /\ last = Off
      BY <1>3, <1>8, <2>1, <2>3, <2>4, SwitchWordsAre
  <2>6. Reading(r) = words[n + 1]
    <3>1. CASE p + 1 \in {2, 6}
      <4>1. n = 0 \/ n = 1
          BY <2>1, <3>1
      <4> QED
          BY <2>3, <3>1, <4>1, SwitchWordsAre
    <3>2. CASE p + 1 = 10
        BY <2>1, <2>4, <3>2, SwitchWordsAre
    <3> QED
        BY <1>8, <3>1, <3>2
  <2>7. More(said, r, last) = said \o <<words[n + 1]>>
      BY <2>5, <2>6 DEF More
  <2>8. said \o <<words[n + 1]>> = SubSeq(words, 1, n + 1)
    <3> HIDE DEF words
    <3>1. n \in 0 .. Len(words) /\ n # Len(words) /\ said = SubSeq(words, 1, n)
        BY <1>2, <1>3, <2>1 DEF n
    <3> QED
        BY <1>2, <3>1, Beginnings
  <2>9. p + 1 \in 0 .. 12 /\ Tail(st) = SubSeq(all, (p + 1) + 1, 12) /\ More(said, r, last) = SubSeq(words, 1, PressesIn(p + 1))
        /\ p + 1 \notin {1, 4, 5, 8, 9, 12}
    <3> HIDE DEF all, words
    <3> QED
        BY <1>4, <1>5, <2>1, <2>7, <2>8
  <2> QED
      BY <2>9, Zenon DEF SwitchAt
<1> QED
    BY <1>6, <1>7, <1>8

LEMMA SwitchPauses ==
    ASSUME NEW ch \in 1 .. 8, NEW p \in 0 .. 12, NEW st, NEW last, NEW said,
           SwitchAt(p, ch, st, last, said), st # <<>>, Head(st).kind = "pause"
    PROVE  p + 1 \in 0 .. 12 /\ SwitchAt(p + 1, ch, Tail(st), last, said)
<1> DEFINE all == SwitchSteps(ch)
<1>1. all \in Seq(AllStrokes) /\ Len(all) = 12
    BY SwitchIs DEF SwitchList
<1>3. st = SubSeq(all, p + 1, 12) /\ said = SubSeq(SwitchWords(ch), 1, PressesIn(p)) /\ (p \in {1, 4, 5, 8, 9, 12} => last = Off)
    BY DEF SwitchAt
<1>4. p \in 0 .. 11
  <2> HIDE DEF all
  <2>1. SubSeq(all, 12 + 1, 12) = <<>>
      BY <1>1
  <2> QED
      BY <1>3, <2>1
<1>5. Head(st) = all[p + 1] /\ Tail(st) = SubSeq(all, (p + 1) + 1, 12)
  <2> HIDE DEF all
  <2>1. p \in 0 .. Len(all) - 1
      BY <1>1, <1>4
  <2> QED
      BY <1>1, <1>3, <2>1, Tails
<1>6. p + 1 \in {3, 5, 7, 9, 11}
  <2>1. \A i \in {1, 2, 4, 6, 8, 10, 12} : all[i].kind = "report"
      BY SwitchKinds
  <2> HIDE DEF all
  <2>2. p + 1 \notin {1, 2, 4, 6, 8, 10, 12}
      BY <1>5, <2>1
  <2> QED
      BY <1>4, <2>2
<1>7. PressesIn(p + 1) = PressesIn(p) /\ (p + 1 \in {1, 4, 5, 8, 9, 12} => p \in {4, 8}) /\ p + 1 \in 0 .. 12
    BY <1>4, <1>6 DEF PressesIn
<1> HIDE DEF all
<1>8. p + 1 \in {1, 4, 5, 8, 9, 12} => last = Off
    BY <1>3, <1>7
<1> QED
    BY <1>3, <1>5, <1>7, <1>8 DEF SwitchAt, all

LEMMA SwitchBegins ==
    ASSUME NEW ch \in 1 .. 8, NEW p \in 0 .. 12, NEW st, NEW last, NEW said, SwitchAt(p, ch, st, last, said)
    PROVE  /\ IsPrefix(said, SwitchWords(ch))
           /\ st = <<>> => said = SwitchWords(ch)
           /\ st # <<>> => Head(st).kind \in {"report", "pause"}
<1> DEFINE all == SwitchSteps(ch)
           words == SwitchWords(ch)
<1>1. all \in Seq(AllStrokes) /\ Len(all) = 12
    BY SwitchIs DEF SwitchList
<1>2. words \in Seq(Words) /\ Len(words) = 3
    BY SwitchWordsAre
<1>3. st = SubSeq(all, p + 1, 12) /\ said = SubSeq(words, 1, PressesIn(p))
    BY DEF SwitchAt
<1>4. PressesIn(p) \in 0 .. 3 /\ (p = 12 => PressesIn(p) = 3)
    BY DEF PressesIn
<1>5. \A i \in 1 .. 12 : all[i].kind \in {"report", "pause"}
  <2>1. \A i \in {1, 2, 4, 6, 8, 10, 12} : all[i].kind = "report"
      BY SwitchKinds
  <2>2. \A i \in {3, 5, 7, 9, 11} : all[i].kind = "pause"
      BY SwitchKinds
  <2> HIDE DEF all
  <2>3. \A i \in 1 .. 12 : i \in {1, 2, 4, 6, 8, 10, 12} \/ i \in {3, 5, 7, 9, 11}
      OBVIOUS
  <2> QED
      BY <2>1, <2>2, <2>3
<1> HIDE DEF all, words
<1>6. ASSUME p # 12
      PROVE  st # <<>> /\ Head(st) = all[p + 1] /\ p + 1 \in 1 .. 12
  <2>1. p \in 0 .. Len(all) - 1 /\ p + 1 \in 1 .. 12
      BY <1>1, <1>6
  <2> QED
      BY <1>1, <1>3, <2>1, Tails
<1>7. ASSUME p = 12
      PROVE  st = <<>>
    BY <1>1, <1>3, <1>7
<1>8. IsPrefix(said, words) /\ (PressesIn(p) = 3 => said = words)
    BY <1>2, <1>3, <1>4, Beginnings
<1> QED
    BY <1>4, <1>5, <1>6, <1>7, <1>8 DEF words

-----------------------------------------------------------------------------
(* HidScripts.  The actions.                                               *)

LEMMA AcceptedIs == ASSUME command \in Commands, Accepted
    PROVE  /\ command.program = "hold" => command.key \in 0 .. 255
           /\ command.program = "switch" => command.channel \in 1 .. 8
BY CommandIs DEF Accepted

LEMMA MeantIs == ASSUME command \in Commands
    PROVE  /\ command.program = "type" => Meant = Asked(command.tokens, Len(command.tokens))
           /\ command.program = "switch" => Meant = SwitchWords(command.channel)
           /\ command.program = "hold" /\ (\A i \in DOMAIN heard : heard[i] = Held) => Meant = SaidOf(heard)
<1>1. ASSUME command.program = "type"
      PROVE  Meant = Asked(command.tokens, Len(command.tokens))
    BY <1>1 DEF Meant, Asked, Wishes
<1>2. ASSUME command.program = "switch"
      PROVE  Meant = SwitchWords(command.channel)
    BY <1>2 DEF Meant, SwitchWords
<1>3. ASSUME command.program = "hold", \A i \in DOMAIN heard : heard[i] = Held
      PROVE  Meant = SaidOf(heard)
  <2>1. Meant = [i \in DOMAIN heard |-> Reading(Held)]
      BY <1>3 DEF Meant, Held
  <2>2. SaidOf(heard) = [i \in DOMAIN heard |-> Reading(Held)]
      BY <1>3 DEF SaidOf
  <2> QED
      BY <2>1, <2>2
<1> QED
    BY <1>1, <1>2, <1>3

LEMMA HearsIs == ASSUME ScriptTypes, NEW r \in HidReports, Hears(r)
    PROVE  /\ down' = r /\ down' \in HidReports /\ heard' \in Seq(HidReports)
           /\ upSince' \in Nat /\ upSince' <= clock
           /\ SaidOf(heard') = More(SaidOf(heard), r, down)
           /\ r = Off => heard' = heard /\ upSince' = clock
           /\ r # Off => upSince' = upSince
           /\ \A i \in DOMAIN heard' : (i \in DOMAIN heard /\ heard'[i] = heard[i]) \/ heard'[i] = r
<1>1. down' = r /\ (r = Off => heard' = heard /\ upSince' = clock) /\ (r # Off => upSince' = upSince)
    BY DEF Hears
<1>2. heard \in Seq(HidReports) /\ upSince \in Nat /\ clock \in Nat /\ upSince <= clock
    BY DEF ScriptTypes
<1>3. upSince' \in Nat /\ upSince' <= clock
    BY <1>1, <1>2
<1>4. CASE r \in {Off, down}
  <2>1. heard' = heard /\ More(SaidOf(heard), r, down) = SaidOf(heard)
      BY <1>4 DEF Hears, More
  <2> QED
      BY <1>1, <1>2, <1>3, <2>1
<1>5. CASE r \notin {Off, down}
  <2>1. heard' = Append(heard, r) /\ More(SaidOf(heard), r, down) = SaidOf(heard) \o <<Reading(r)>>
      BY <1>5 DEF Hears, More
  <2>2. SaidOf(heard') = More(SaidOf(heard), r, down)
      BY <1>2, <2>1, SaidGrows
  <2>3. heard' \in Seq(HidReports) /\ \A i \in DOMAIN heard' : (i \in DOMAIN heard /\ heard'[i] = heard[i]) \/ heard'[i] = r
      BY <1>2, <2>1
  <2> QED
      BY <1>1, <1>3, <2>2, <2>3
<1> QED
    BY <1>4, <1>5

LEMMA StrokeIs == ASSUME ScriptTypes, strokes # <<>>
    PROVE  /\ Head(strokes) \in AllStrokes /\ Tail(strokes) \in Seq(AllStrokes)
           /\ [mod |-> Head(strokes).mod, key |-> Head(strokes).key] \in HidReports
           /\ Head(strokes).span \in Nat
<1>1. Head(strokes) \in AllStrokes /\ Tail(strokes) \in Seq(AllStrokes)
    BY DEF ScriptTypes
<1> QED
    BY <1>1 DEF AllStrokes, HidReports

\* The four strokes of a round.
LEMMA RoundIs == ASSUME NEW k \in 0 .. 255
    PROVE  /\ HoldRound(k) \in Seq(AllStrokes) /\ Len(HoldRound(k)) = 4
           /\ HoldRound(k)[1].kind = "report"
           /\ [mod |-> HoldRound(k)[1].mod, key |-> HoldRound(k)[1].key] = [mod |-> 0, key |-> k]
           /\ HoldRound(k)[2].kind = "pause" /\ HoldRound(k)[2].span = 16
           /\ HoldRound(k)[3].kind = "report"
           /\ [mod |-> HoldRound(k)[3].mod, key |-> HoldRound(k)[3].key] = Off
           /\ HoldRound(k)[4].kind = "pause" /\ HoldRound(k)[4].span = 4
<1> DEFINE on == Press(0, k)
           off == Press(0, 0)
           long == Rest(16)
           short == Rest(4)
           all == <<on, long, off, short>>
<1>1. on \in AllStrokes /\ on.kind = "report" /\ on.mod = 0 /\ on.key = k
  <2>1. 0 \in 0 .. 255
      OBVIOUS
  <2> QED
      BY <2>1, PressIs, ZenonT(60)
<1>2. /\ off \in AllStrokes /\ off.kind = "report" /\ Off = [mod |-> off.mod, key |-> off.key]
      /\ long \in AllStrokes /\ long.kind = "pause" /\ long.span = 16
      /\ short \in AllStrokes /\ short.kind = "pause" /\ short.span = 4
    BY FixedStrokes, Zenon
<1>3. HoldRound(k) = all
    BY DEF HoldRound
<1> HIDE DEF on, off, long, short
<1>4. all \in Seq(AllStrokes) /\ Len(all) = 4 /\ all[1] = on /\ all[2] = long /\ all[3] = off /\ all[4] = short
    BY <1>1, <1>2
<1> HIDE DEF all
<1> QED
    BY <1>1, <1>2, <1>3, <1>4

LEMMA SaidNow == ASSUME ScriptsInv, ending = "running"
    PROVE  /\ Accepted /\ SaidOf(heard) \in Seq(Words) /\ IsPrefix(SaidOf(heard), Meant)
           /\ strokes = <<>> /\ tokensLeft = <<>> /\ charsLeft = <<>> => SaidOf(heard) = Meant
<1> DEFINE said == SaidOf(heard)
<1>1. Accepted /\ command \in Commands
    BY DEF ScriptsInv, StagesInv, ScriptTypes
<1>2. said \in Seq(Words)
    BY SaidIs DEF ScriptsInv, ScriptTypes
<1>3. CASE command.program = "type"
  <2> DEFINE tokens == command.tokens
             k == Len(tokens) - Len(tokensLeft)
             wish == Asked(tokens, k)
  <2>1. tokens \in Seq(Tokens) /\ Meant = Asked(tokens, Len(tokens))
      BY <1>1, <1>3, CommandIs, MeantIs
  <2>2. LastOf(tokensLeft, tokens) /\ TypingAt(strokes, charsLeft, down, said, wish)
      BY <1>3 DEF ScriptsInv, TypingInv
  <2>3. tokensLeft \in Seq(Tokens) /\ charsLeft \in Seq(STRING)
      BY DEF ScriptsInv, ScriptTypes
  <2>4. k \in 0 .. Len(tokens) /\ (tokensLeft = <<>> => k = Len(tokens))
    <3> HIDE DEF tokens
    <3> QED
        BY <2>1, <2>2, <2>3 DEF LastOf
  <2> HIDE DEF tokens, k, said
  <2>5. wish \in Seq(Words) /\ IsPrefix(wish, Meant) /\ Meant \in Seq(Words)
    <3>1. \A n \in 0 .. Len(tokens) : Asked(tokens, n) \in Seq(Words) /\ IsPrefix(Asked(tokens, n), Asked(tokens, Len(tokens)))
        BY <2>1, AskedIs, Zenon
    <3>2. Len(tokens) \in 0 .. Len(tokens)
        BY <2>1
    <3> QED
        BY <2>1, <2>4, <3>1, <3>2
  <2> HIDE DEF wish
  <2>6. IsPrefix(said, wish)
      BY <1>2, <2>2, <2>3, <2>5, TypingBegins, Zenon
  <2>7. IsPrefix(said, Meant)
      BY <1>2, <2>5, <2>6, PrefixTransitive, Zenon
  <2>8. ASSUME strokes = <<>>, tokensLeft = <<>>, charsLeft = <<>>
        PROVE  said = Meant
    <3>1. TypingAt(<<>>, charsLeft, down, said, wish)
        BY <2>2, <2>8
    <3>2. said \o Spelled(charsLeft) = wish
        BY <1>2, <3>1, TypingIdle, Zenon
    <3>3. Spelled(charsLeft) = <<>>
        BY <2>3, <2>8, SpelledIs
    <3>4. said = wish
        BY <1>2, <3>2, <3>3
    <3>5. wish = Meant
        BY <2>1, <2>4, <2>8 DEF wish
    <3> QED
        BY <3>4, <3>5
  <2> QED
      BY <1>1, <1>2, <2>7, <2>8 DEF said
<1>4. CASE command.program = "switch"
  <2>1. command.channel \in 1 .. 8 /\ Meant = SwitchWords(command.channel)
      BY <1>1, <1>4, AcceptedIs, MeantIs
  <2>2. PICK p \in 0 .. 12 : SwitchAt(p, command.channel, strokes, down, said)
      BY <1>4 DEF ScriptsInv, SwitchInv
  <2> HIDE DEF said
  <2>3. IsPrefix(said, Meant) /\ (strokes = <<>> => said = Meant)
      BY <2>1, <2>2, SwitchBegins
  <2> QED
      BY <1>1, <1>2, <2>3 DEF said
<1>5. CASE command.program = "hold"
  <2>1. Meant = said
      BY <1>1, <1>5, MeantIs DEF ScriptsInv, HoldInv
  <2>2. IsPrefix(said, said)
    <3> HIDE DEF said
    <3> QED
        BY <1>2, PrefixOfConcat
  <2> QED
      BY <1>1, <1>2, <2>1, <2>2
<1> QED
    BY <1>1, <1>3, <1>4, <1>5, CommandIs

LEMMA LeavesSafely ==
    ASSUME ScriptsInv, ending = "running", NEW result \in {"ok", "bad", "stopped"}, LeaveWith(result),
           result = "ok" => strokes = <<>> /\ tokensLeft = <<>> /\ charsLeft = <<>>
    PROVE  ScriptsInv'
<1>1. /\ Hears(Off) /\ ending' = result /\ strokes' = <<>> /\ tokensLeft' = <<>> /\ charsLeft' = <<>>
      /\ command' = command /\ holdEnd' = holdEnd /\ clock' = clock
    BY DEF LeaveWith
<1>2. Off \in HidReports
    BY DEF Off, HidReports
<1>3. ScriptTypes
    BY DEF ScriptsInv
<1>4. heard' = heard /\ down' \in HidReports /\ upSince' \in Nat /\ upSince' <= clock
    BY <1>1, <1>2, <1>3, HearsIs
<1>5. ending' # "running" /\ ending' \notin {"new", "refused"} /\ ending' \in Endings
    BY <1>1 DEF Endings
<1>6. ScriptTypes'
    BY <1>1, <1>3, <1>4, <1>5 DEF ScriptTypes
<1>7. TypingInv' /\ SwitchInv' /\ HoldInv'
    BY <1>5 DEF TypingInv, SwitchInv, HoldInv
<1>8. HearsWhatIsAsked'
  <2>1. Meant' = Meant
      BY <1>1, <1>4 DEF Meant
  <2>2. IsPrefix(SaidOf(heard), Meant) /\ (ending' = "ok" => SaidOf(heard) = Meant)
      BY <1>1, SaidNow
  <2>3. IsPrefix(SaidOf(heard'), Meant') /\ (ending' = "ok" => SaidOf(heard') = Meant')
      BY <1>4, <2>1, <2>2
  <2> QED
      BY <1>5, <2>3 DEF HearsWhatIsAsked, SaidOf
<1>9. Accepted'
  <2>1. Accepted
      BY SaidNow
  <2> QED
      BY <1>1, <2>1 DEF Accepted
<1> QED
    BY <1>5, <1>6, <1>7, <1>8, <1>9 DEF ScriptsInv, StagesInv

LEMMA StartsSafely == ASSUME ScriptsInv, StartProgram
    PROVE  ScriptsInv'
<1>1. /\ ending = "new" /\ Accepted /\ ending' = "running" /\ command' = command
      /\ charsLeft' = charsLeft /\ clock' = clock /\ down' = down /\ heard' = heard /\ upSince' = upSince
      /\ tokensLeft' = IF command.program = "type" THEN command.tokens ELSE <<>>
      /\ holdEnd' = IF command.program = "hold" THEN clock + command.span ELSE 0
    BY DEF StartProgram
<1>2. /\ command.program = "type" => strokes' = FirstNeutral
      /\ command.program = "hold" => strokes' = <<>>
      /\ command.program = "switch" => strokes' = SwitchSteps(command.channel)
    BY DEF StartProgram
<1>3. ScriptTypes /\ command \in Commands
    BY DEF ScriptsInv, ScriptTypes
<1>4. heard = <<>> /\ charsLeft = <<>> /\ SaidOf(heard) = <<>>
  <2>1. heard = <<>> /\ charsLeft = <<>> /\ heard \in Seq(HidReports)
      BY <1>1, <1>3 DEF ScriptsInv, StagesInv, ScriptTypes
  <2> QED
      BY <2>1, SaidIs
<1>5. Accepted'
    BY <1>1 DEF Accepted
<1>6. ASSUME strokes' \in Seq(AllStrokes)
      PROVE  ScriptTypes'
  <2>1. tokensLeft' \in Seq(Tokens)
    <3>1. command.program = "type" => command.tokens \in Seq(Tokens)
        BY <1>3, CommandIs
    <3> QED
        BY <1>1, <3>1
  <2>2. holdEnd' \in Int
    <3>1. command.program = "hold" => command.span \in Int
        BY <1>3, CommandIs
    <3>2. clock \in Nat
        BY <1>3 DEF ScriptTypes
    <3> QED
        BY <1>1, <3>1, <3>2
  <2>3. ending' \in Endings
      BY <1>1 DEF Endings
  <2> QED
      BY <1>1, <1>3, <1>6, <2>1, <2>2, <2>3 DEF ScriptTypes
<1>7. StagesInv'
    BY <1>1, <1>5 DEF StagesInv
<1>8. CASE command.program = "type"
  <2> DEFINE tokens == command.tokens
  <2>1. tokens \in Seq(Tokens) /\ Asked(tokens, 0) = <<>> /\ tokensLeft' = tokens
      BY <1>1, <1>3, <1>8, CommandIs, AskedIs
  <2>2. strokes' = FirstNeutral /\ strokes' \in Seq(AllStrokes)
      BY <1>2, <1>8, StepsAre
  <2>3. LastOf(tokens, tokens) /\ Len(tokens) - Len(tokens) = 0
    <3> HIDE DEF tokens
    <3> QED
        BY <2>1 DEF LastOf
  <2> DEFINE none == <<>>
  <2>4. none \o Spelled(none) = none
    <3>1. none \in Seq(STRING) /\ none = <<>>
        OBVIOUS
    <3>2. Spelled(none) \in Seq(Words) /\ Len(Spelled(none)) = 0
      <4> HIDE DEF none
      <4> QED
          BY <3>1, SpelledIs
    <3> QED
        BY <3>2
  <2>5. FirstNeutral \in TapRest
      BY DEF TapRest
  <2> HIDE DEF none, tokens
  <2>6. TypingAt(FirstNeutral, none, down, none, none)
      BY <2>4, <2>5, Zenon DEF TypingAt
  <2>7. TypingAt(strokes', charsLeft', down', SaidOf(heard'), Asked(tokens, Len(tokens) - Len(tokens)))
      BY <1>1, <1>4, <2>1, <2>2, <2>3, <2>6 DEF none
  <2>8. TypingInv'
      BY <1>1, <2>1, <2>3, <2>7 DEF TypingInv, tokens
  <2>9. SwitchInv' /\ HoldInv'
      BY <1>1, <1>8 DEF SwitchInv, HoldInv
  <2> QED
      BY <1>6, <1>7, <2>2, <2>8, <2>9 DEF ScriptsInv
<1>9. CASE command.program = "switch"
  <2> DEFINE ch == command.channel
             all == SwitchSteps(ch)
             words == SwitchWords(ch)
  <2>1. ch \in 1 .. 8
      BY <1>1, <1>3, <1>9, AcceptedIs
  <2>2. all \in Seq(AllStrokes) /\ Len(all) = 12 /\ words \in Seq(Words) /\ Len(words) = 3
      BY <2>1, SwitchIs, SwitchWordsAre DEF SwitchList
  <2>3. strokes' = all /\ tokensLeft' = <<>>
      BY <1>1, <1>2, <1>9
  <2>4. all = SubSeq(all, 0 + 1, 12) /\ SubSeq(words, 1, 0) = <<>>
    <3> HIDE DEF all, words
    <3> QED
        BY <2>2
  <2>5. PressesIn(0) = 0
      BY DEF PressesIn
  <2>6. SwitchAt(0, ch, strokes', down', SaidOf(heard'))
    <3>1. 0 \notin {1, 4, 5, 8, 9, 12}
        OBVIOUS
    <3> QED
        BY <1>1, <1>4, <2>3, <2>4, <2>5, <3>1 DEF SwitchAt
  <2>7. SwitchInv'
    <3>1. 0 \in 0 .. 12
        OBVIOUS
    <3>2. \E p \in 0 .. 12 : SwitchAt(p, command'.channel, strokes', down', SaidOf(heard'))
        BY <1>1, <2>6, <3>1, Zenon
    <3>3. tokensLeft' = <<>> /\ charsLeft' = <<>>
        BY <1>1, <1>4, <2>3
    <3> QED
        BY <3>2, <3>3 DEF SwitchInv
  <2>8. TypingInv' /\ HoldInv'
      BY <1>1, <1>9 DEF TypingInv, HoldInv
  <2>9. strokes' \in Seq(AllStrokes)
      BY <2>2, <2>3
  <2> QED
      BY <1>6, <1>7, <2>7, <2>8, <2>9 DEF ScriptsInv
<1>10. CASE command.program = "hold"
  <2>1. command.key \in 0 .. 255 /\ strokes' = <<>> /\ tokensLeft' = <<>>
      BY <1>1, <1>2, <1>3, <1>10, AcceptedIs
  <2>2. <<>> = SubSeq(HoldRound(command.key), 4 + 1, 4)
    <3> DEFINE all == HoldRound(command.key)
    <3>1. all \in Seq(AllStrokes) /\ Len(all) = 4
        BY <2>1, RoundIs
    <3> HIDE DEF all
    <3>2. SubSeq(all, 4 + 1, 4) = <<>>
        BY <3>1
    <3> QED
        BY <3>2 DEF all
  <2>3. HoldAt(4)'
      BY <1>1, <1>4 DEF HoldAt, UpBriefly
  <2>4. HoldInv'
    <3>1. \A i \in DOMAIN heard' : heard'[i] = Held'
        BY <1>1, <1>4
    <3>2. 4 \in 0 .. 4 /\ strokes' = SubSeq(HoldRound(command'.key), 4 + 1, 4)
        BY <1>1, <2>1, <2>2
    <3>3. \E p \in 0 .. 4 : strokes' = SubSeq(HoldRound(command'.key), p + 1, 4) /\ HoldAt(p)'
        BY <2>3, <3>2
    <3>4. tokensLeft' = <<>> /\ charsLeft' = <<>>
        BY <1>1, <1>4, <2>1
    <3> QED
        BY <3>1, <3>3, <3>4 DEF HoldInv
  <2>5. TypingInv' /\ SwitchInv'
      BY <1>1, <1>10 DEF TypingInv, SwitchInv
  <2>6. strokes' \in Seq(AllStrokes)
      BY <2>1
  <2> QED
      BY <1>6, <1>7, <2>4, <2>5, <2>6 DEF ScriptsInv
<1> QED
    BY <1>3, <1>8, <1>9, <1>10, CommandIs

LEMMA TokensGoOn == ASSUME ScriptsInv, NextToken
    PROVE  ScriptsInv'
<1>1. /\ ending = "running" /\ strokes = <<>> /\ charsLeft = <<>> /\ tokensLeft # <<>>
      /\ strokes' = TokenSteps(Head(tokensLeft)) /\ tokensLeft' = Tail(tokensLeft)
      /\ charsLeft' = IF Head(tokensLeft).kind = "type" THEN Head(tokensLeft).arg ELSE <<>>
      /\ command' = command /\ ending' = ending /\ holdEnd' = holdEnd /\ clock' = clock
      /\ down' = down /\ heard' = heard /\ upSince' = upSince
    BY DEF NextToken
<1>2. ScriptTypes /\ command \in Commands /\ Accepted /\ SaidOf(heard) \in Seq(Words)
    BY <1>1, SaidNow DEF ScriptsInv, ScriptTypes
<1>3. command.program = "type"
    BY <1>1, <1>2, CommandIs DEF ScriptsInv, SwitchInv, HoldInv
<1> DEFINE tokens == command.tokens
           left == tokensLeft
           token == Head(left)
           said == SaidOf(heard)
           k == Len(tokens) - Len(left)
<1>4. tokens \in Seq(Tokens) /\ left \in Seq(Tokens) /\ left # <<>> /\ LastOf(left, tokens)
    BY <1>1, <1>2, <1>3, CommandIs DEF ScriptsInv, TypingInv, ScriptTypes
<1>5. TypingAt(<<>>, charsLeft, down, said, Asked(tokens, k))
    BY <1>1, <1>3 DEF ScriptsInv, TypingInv
<1>6. down = Off /\ said \o Spelled(charsLeft) = Asked(tokens, k)
  <2> HIDE DEF tokens, left, said, k
  <2> QED
      BY <1>2, <1>5, TypingIdle, Zenon DEF said
<1>7. said = Asked(tokens, k)
  <2>1. Spelled(charsLeft) = <<>>
      BY <1>1, <1>2, SpelledIs DEF ScriptTypes
  <2> HIDE DEF said, k, tokens
  <2>2. said \o <<>> = said
      BY <1>2 DEF said
  <2> QED
      BY <1>6, <2>1, <2>2
<1>8. /\ token \in Tokens /\ Tail(left) \in Seq(Tokens) /\ LastOf(Tail(left), tokens)
      /\ Len(tokens) - Len(Tail(left)) = k + 1 /\ k + 1 \in 1 .. Len(tokens) /\ token = tokens[k + 1]
  <2> HIDE DEF tokens, left
  <2>1. Len(left) \in Nat \ {0} /\ Len(tokens) \in Nat /\ Len(left) <= Len(tokens)
      BY <1>4 DEF LastOf
  <2>2. Tail(left) \in Seq(Tokens) /\ Len(Tail(left)) = Len(left) - 1 /\ token \in Tokens /\ token = left[1]
        /\ \A i \in 1 .. Len(left) - 1 : Tail(left)[i] = left[i + 1]
      BY <1>4
  <2>3. \A i \in 1 .. Len(left) : left[i] = tokens[Len(tokens) - Len(left) + i]
      BY <1>4 DEF LastOf
  <2>4. token = tokens[k + 1]
      BY <2>1, <2>2, <2>3
  <2>5. ASSUME NEW i \in 1 .. Len(left) - 1
        PROVE  Tail(left)[i] = tokens[Len(tokens) - (Len(left) - 1) + i]
    <3>1. i + 1 \in 1 .. Len(left) /\ Len(tokens) - Len(left) + (i + 1) = Len(tokens) - (Len(left) - 1) + i
        BY <2>1
    <3> QED
        BY <2>2, <2>3, <3>1
  <2>6. LastOf(Tail(left), tokens)
      BY <2>1, <2>2, <2>5 DEF LastOf
  <2> QED
      BY <2>1, <2>2, <2>4, <2>6
<1>9. Asked(tokens, k + 1) = said \o Wished(token)
  <2>1. \A n \in 1 .. Len(tokens) : Asked(tokens, n) = Asked(tokens, n - 1) \o Wished(tokens[n])
      BY <1>4, AskedIs
  <2>2. (k + 1) - 1 = k
      BY <1>4
  <2> HIDE DEF tokens, k, said, token
  <2> QED
      BY <1>7, <1>8, <2>1, <2>2
<1>10. /\ TypingAt(TokenSteps(token), IF token.kind = "type" THEN token.arg ELSE <<>>, Off, said, said \o Wished(token))
       /\ TokenSteps(token) \in Seq(AllStrokes)
       /\ (IF token.kind = "type" THEN token.arg ELSE <<>>) \in Seq(STRING)
  <2> HIDE DEF token, said
  <2> QED
      BY <1>2, <1>8, TokenStarts, Zenon DEF said
<1>11. TypingAt(strokes', charsLeft', down', SaidOf(heard'), Asked(command'.tokens, Len(command'.tokens) - Len(tokensLeft')))
    BY <1>1, <1>6, <1>8, <1>9, <1>10
<1>12. TypingInv'
  <2>1. LastOf(tokensLeft', command'.tokens)
      BY <1>1, <1>8
  <2> QED
      BY <1>11, <2>1 DEF TypingInv
<1>13. ScriptTypes'
  <2>1. strokes' \in Seq(AllStrokes) /\ charsLeft' \in Seq(STRING) /\ tokensLeft' \in Seq(Tokens)
      BY <1>1, <1>8, <1>10
  <2> QED
      BY <1>1, <1>2, <2>1 DEF ScriptTypes
<1>14. SwitchInv' /\ HoldInv'
    BY <1>1, <1>3 DEF SwitchInv, HoldInv
<1>15. StagesInv'
  <2>1. Accepted'
      BY <1>1, <1>2 DEF Accepted
  <2> QED
      BY <1>1, <2>1 DEF StagesInv
<1> QED
    BY <1>12, <1>13, <1>14, <1>15 DEF ScriptsInv

LEMMA CharsGoOn == ASSUME ScriptsInv, NextChar
    PROVE  ScriptsInv'
<1>1. /\ ending = "running" /\ strokes = <<>> /\ charsLeft # <<>>
      /\ strokes' = CharSteps(Head(charsLeft)) /\ charsLeft' = Tail(charsLeft) /\ tokensLeft' = tokensLeft
      /\ command' = command /\ ending' = ending /\ holdEnd' = holdEnd /\ clock' = clock
      /\ down' = down /\ heard' = heard /\ upSince' = upSince
    BY DEF NextChar
<1>2. ScriptTypes /\ command \in Commands /\ Accepted /\ SaidOf(heard) \in Seq(Words)
    BY <1>1, SaidNow DEF ScriptsInv, ScriptTypes
<1>3. command.program = "type"
    BY <1>1, <1>2, CommandIs DEF ScriptsInv, SwitchInv, HoldInv
<1> DEFINE said == SaidOf(heard)
           wish == Asked(command.tokens, Len(command.tokens) - Len(tokensLeft))
<1>4. LastOf(tokensLeft, command.tokens) /\ TypingAt(<<>>, charsLeft, down, said, wish) /\ charsLeft \in Seq(STRING)
    BY <1>1, <1>2, <1>3 DEF ScriptsInv, TypingInv, ScriptTypes
<1> HIDE DEF said, wish
<1>5. down = Off /\ said \o Spelled(charsLeft) = wish
    BY <1>2, <1>4, TypingIdle, Zenon DEF said
<1>6. /\ TypingAt(CharSteps(Head(charsLeft)), Tail(charsLeft), Off, said, said \o Spelled(charsLeft))
      /\ CharSteps(Head(charsLeft)) \in Seq(AllStrokes) /\ Tail(charsLeft) \in Seq(STRING)
    BY <1>1, <1>2, <1>4, CharStarts, Zenon DEF said
<1>7. TypingInv'
  <2>1. TypingAt(strokes', charsLeft', down', said, wish)
      BY <1>1, <1>5, <1>6
  <2>2. said = SaidOf(heard') /\ wish = Asked(command'.tokens, Len(command'.tokens) - Len(tokensLeft'))
      BY <1>1 DEF said, wish
  <2>3. LastOf(tokensLeft', command'.tokens)
      BY <1>1, <1>4
  <2> QED
      BY <2>1, <2>2, <2>3 DEF TypingInv
<1>8. ScriptTypes'
    BY <1>1, <1>2, <1>6 DEF ScriptTypes
<1>9. SwitchInv' /\ HoldInv'
    BY <1>1, <1>3 DEF SwitchInv, HoldInv
<1>10. StagesInv'
  <2>1. Accepted'
      BY <1>1, <1>2 DEF Accepted
  <2> QED
      BY <1>1, <2>1 DEF StagesInv
<1> QED
    BY <1>7, <1>8, <1>9, <1>10 DEF ScriptsInv

LEMMA RoundsGoOn == ASSUME ScriptsInv, NextRound
    PROVE  ScriptsInv'
<1>1. /\ ending = "running" /\ strokes = <<>> /\ command.program = "hold" /\ clock < holdEnd
      /\ strokes' = HoldRound(command.key) /\ charsLeft' = charsLeft /\ tokensLeft' = tokensLeft
      /\ command' = command /\ ending' = ending /\ holdEnd' = holdEnd /\ clock' = clock
      /\ down' = down /\ heard' = heard /\ upSince' = upSince
    BY DEF NextRound, RoundDue
<1>2. ScriptTypes /\ command \in Commands /\ Accepted
    BY <1>1, SaidNow DEF ScriptsInv, ScriptTypes
<1> DEFINE all == HoldRound(command.key)
<1>3. command.key \in 0 .. 255 /\ all \in Seq(AllStrokes) /\ Len(all) = 4
    BY <1>1, <1>2, AcceptedIs, RoundIs
<1>4. all = SubSeq(all, 0 + 1, 4)
  <2> HIDE DEF all
  <2>1. all = SubSeq(all, 1, Len(all))
      BY <1>3, SubSeqFull
  <2> QED
      BY <1>3, <2>1
<1>5. HoldInv
    BY DEF ScriptsInv
<1>6. PICK p \in 0 .. 4 : strokes = SubSeq(all, p + 1, 4) /\ HoldAt(p)
    BY <1>1, <1>5 DEF HoldInv
<1>7. p = 4
  <2> HIDE DEF all
  <2>1. ASSUME p # 4
        PROVE  FALSE
    <3>1. p \in 0 .. Len(all) - 1 /\ Len(all) = 4
        BY <1>3, <2>1
    <3>2. SubSeq(all, p + 1, Len(all)) # <<>>
        BY <1>3, <3>1, Tails
    <3> QED
        BY <1>1, <1>6, <3>1, <3>2
  <2> QED
      BY <2>1
<1>8. UpBriefly
    BY <1>6, <1>7 DEF HoldAt
<1>9. HoldAt(0)'
    BY <1>1, <1>8 DEF HoldAt, UpBriefly
<1>10. HoldInv'
  <2>1. \A i \in DOMAIN heard' : heard'[i] = Held'
      BY <1>1, <1>5 DEF HoldInv, Held
  <2>2. 0 \in 0 .. 4 /\ strokes' = SubSeq(HoldRound(command'.key), 0 + 1, 4)
      BY <1>1, <1>4
  <2>3. \E q \in 0 .. 4 : strokes' = SubSeq(HoldRound(command'.key), q + 1, 4) /\ HoldAt(q)'
      BY <1>9, <2>2
  <2>4. tokensLeft' = <<>> /\ charsLeft' = <<>>
      BY <1>1, <1>5 DEF HoldInv
  <2> QED
      BY <2>1, <2>3, <2>4 DEF HoldInv
<1>11. ScriptTypes'
    BY <1>1, <1>2, <1>3 DEF ScriptTypes
<1>12. TypingInv' /\ SwitchInv'
    BY <1>1 DEF TypingInv, SwitchInv
<1>13. StagesInv'
  <2>1. Accepted'
      BY <1>1, <1>2 DEF Accepted
  <2> QED
      BY <1>1, <2>1 DEF StagesInv
<1> QED
    BY <1>10, <1>11, <1>12, <1>13 DEF ScriptsInv

LEMMA SendsSafely == ASSUME ScriptsInv, StrokeSent
    PROVE  ScriptsInv'
<1> DEFINE r == [mod |-> Head(strokes).mod, key |-> Head(strokes).key]
           said == SaidOf(heard)
<1>1. /\ ending = "running" /\ strokes # <<>> /\ Head(strokes).kind = "report" /\ Hears(r)
      /\ strokes' = Tail(strokes) /\ charsLeft' = charsLeft /\ tokensLeft' = tokensLeft
      /\ command' = command /\ ending' = ending /\ holdEnd' = holdEnd /\ clock' = clock
    BY DEF StrokeSent
<1>2. ScriptTypes /\ command \in Commands /\ Accepted /\ said \in Seq(Words)
    BY <1>1, SaidNow DEF ScriptsInv, ScriptTypes
<1>3. r \in HidReports /\ Tail(strokes) \in Seq(AllStrokes)
    BY <1>1, <1>2, StrokeIs
<1>4. r = [mod |-> Head(strokes).mod, key |-> Head(strokes).key]
    OBVIOUS
<1> HIDE DEF r, said
<1>5. /\ down' = r /\ down' \in HidReports /\ heard' \in Seq(HidReports) /\ upSince' \in Nat /\ upSince' <= clock
      /\ SaidOf(heard') = More(said, r, down)
      /\ r = Off => heard' = heard /\ upSince' = clock
      /\ \A i \in DOMAIN heard' : (i \in DOMAIN heard /\ heard'[i] = heard[i]) \/ heard'[i] = r
    BY <1>1, <1>2, <1>3, HearsIs DEF said
<1>6. ScriptTypes'
    BY <1>1, <1>2, <1>3, <1>5 DEF ScriptTypes
<1>7. StagesInv'
  <2>1. Accepted'
      BY <1>1, <1>2 DEF Accepted
  <2> QED
      BY <1>1, <2>1 DEF StagesInv
<1>8. CASE command.program = "type"
  <2> DEFINE wish == Asked(command.tokens, Len(command.tokens) - Len(tokensLeft))
  <2>1. LastOf(tokensLeft, command.tokens) /\ TypingAt(strokes, charsLeft, down, said, wish)
      BY <1>1, <1>8 DEF ScriptsInv, TypingInv, said
  <2> HIDE DEF wish
  <2>2. TypingAt(Tail(strokes), charsLeft, r, More(said, r, down), wish)
      BY <1>1, <1>2, <1>4, <2>1, TypingSends, Zenon
  <2>3. TypingAt(strokes', charsLeft', down', SaidOf(heard'), wish)
      BY <1>1, <1>5, <2>2
  <2>4. wish = Asked(command'.tokens, Len(command'.tokens) - Len(tokensLeft')) /\ LastOf(tokensLeft', command'.tokens)
      BY <1>1, <2>1 DEF wish
  <2>5. TypingInv'
      BY <2>3, <2>4 DEF TypingInv
  <2>6. SwitchInv' /\ HoldInv'
      BY <1>1, <1>8 DEF SwitchInv, HoldInv
  <2> QED
      BY <1>6, <1>7, <2>5, <2>6 DEF ScriptsInv
<1>9. CASE command.program = "switch"
  <2>1. command.channel \in 1 .. 8
      BY <1>2, <1>9, AcceptedIs
  <2>2. SwitchInv
      BY DEF ScriptsInv
  <2>3. PICK p \in 0 .. 12 : SwitchAt(p, command.channel, strokes, down, said)
      BY <1>1, <1>9, <2>2 DEF SwitchInv, said
  <2>4. p + 1 \in 0 .. 12 /\ SwitchAt(p + 1, command.channel, Tail(strokes), r, More(said, r, down))
      BY <1>1, <1>4, <2>1, <2>3, SwitchSends, Zenon
  <2>5. SwitchInv'
    <3>1. SwitchAt(p + 1, command'.channel, strokes', down', SaidOf(heard'))
        BY <1>1, <1>5, <2>4
    <3>2. tokensLeft' = <<>> /\ charsLeft' = <<>>
        BY <1>1, <1>9, <2>2 DEF SwitchInv
    <3>3. \E q \in 0 .. 12 : SwitchAt(q, command'.channel, strokes', down', SaidOf(heard'))
        BY <2>4, <3>1, Zenon
    <3> QED
        BY <3>2, <3>3 DEF SwitchInv
  <2>6. TypingInv' /\ HoldInv'
      BY <1>1, <1>9 DEF TypingInv, HoldInv
  <2> QED
      BY <1>6, <1>7, <2>5, <2>6 DEF ScriptsInv
<1>10. CASE command.program = "hold"
  <2> DEFINE all == HoldRound(command.key)
  <2>1. /\ command.key \in 0 .. 255 /\ all \in Seq(AllStrokes) /\ Len(all) = 4
        /\ all[1].kind = "report" /\ [mod |-> all[1].mod, key |-> all[1].key] = Held
        /\ all[2].kind = "pause" /\ all[3].kind = "report" /\ [mod |-> all[3].mod, key |-> all[3].key] = Off
        /\ all[4].kind = "pause"
      BY <1>2, <1>10, AcceptedIs, RoundIs DEF Held
  <2>2. HoldInv
      BY DEF ScriptsInv
  <2>3. PICK p \in 0 .. 4 : strokes = SubSeq(all, p + 1, 4) /\ HoldAt(p)
      BY <1>1, <1>10, <2>2 DEF HoldInv
  <2>4. all = HoldRound(command'.key) /\ Held' = Held
      BY <1>1 DEF Held
  <2> HIDE DEF all
  <2>5. p # 4
    <3>1. SubSeq(all, 4 + 1, 4) = <<>>
        BY <2>1
    <3> QED
        BY <1>1, <2>3, <3>1
  <2>6. Head(strokes) = all[p + 1] /\ Tail(strokes) = SubSeq(all, (p + 1) + 1, 4)
    <3>1. p \in 0 .. Len(all) - 1
        BY <2>1, <2>5
    <3> QED
        BY <2>1, <2>3, <3>1, Tails
  <2>7. p = 0 \/ p = 2
      BY <1>1, <2>1, <2>5, <2>6
  <2>8. (p = 0 => r = Held) /\ (p = 2 => r = Off)
      BY <1>4, <2>1, <2>6
  <2>9. clock \in Nat /\ holdEnd \in Int /\ MaxSlack \in Nat
      BY <1>2, ScriptsAssumption DEF ScriptTypes
  <2>10. HoldAt(p + 1)'
    <3>1. CASE p = 0
      <4>1. clock' < holdEnd' /\ down' = Held'
          BY <1>1, <1>5, <2>3, <2>4, <2>8, <3>1 DEF HoldAt
      <4> QED
          BY <3>1, <4>1 DEF HoldAt
    <3>2. CASE p = 2
      <4>1. clock' < holdEnd' + 16 + MaxSlack /\ down' = Off /\ upSince' = clock'
          BY <1>1, <1>5, <2>3, <2>8, <3>2 DEF HoldAt
      <4> QED
          BY <3>2, <4>1 DEF HoldAt
    <3> QED
        BY <2>7, <3>1, <3>2
  <2>11. \A i \in DOMAIN heard' : heard'[i] = Held'
    <3>1. \A i \in DOMAIN heard : heard[i] = Held
        BY <1>1, <1>10, <2>2 DEF HoldInv
    <3>2. CASE p = 0
        BY <1>5, <2>4, <2>8, <3>1, <3>2
    <3>3. CASE p = 2
        BY <1>5, <2>4, <2>8, <3>1, <3>3
    <3> QED
        BY <2>7, <3>2, <3>3
  <2>12. HoldInv'
    <3>1. p + 1 \in 0 .. 4 /\ strokes' = SubSeq(HoldRound(command'.key), (p + 1) + 1, 4)
        BY <1>1, <2>4, <2>6, <2>7
    <3>2. \E q \in 0 .. 4 : strokes' = SubSeq(HoldRound(command'.key), q + 1, 4) /\ HoldAt(q)'
        BY <2>10, <3>1
    <3>3. tokensLeft' = <<>> /\ charsLeft' = <<>>
        BY <1>1, <1>10, <2>2 DEF HoldInv
    <3> QED
        BY <2>11, <3>2, <3>3 DEF HoldInv
  <2>13. TypingInv' /\ SwitchInv'
      BY <1>1, <1>10 DEF TypingInv, SwitchInv
  <2> QED
      BY <1>6, <1>7, <2>12, <2>13 DEF ScriptsInv
<1> QED
    BY <1>2, <1>8, <1>9, <1>10, CommandIs

LEMMA PausesSafely == ASSUME ScriptsInv, NEW late \in 0 .. MaxSlack, StrokePaused(late)
    PROVE  ScriptsInv'
<1> DEFINE said == SaidOf(heard)
           span == Head(strokes).span
<1>1. /\ ending = "running" /\ strokes # <<>> /\ Head(strokes).kind = "pause" /\ clock' = clock + span + late
      /\ strokes' = Tail(strokes) /\ charsLeft' = charsLeft /\ tokensLeft' = tokensLeft
      /\ command' = command /\ ending' = ending /\ holdEnd' = holdEnd
      /\ down' = down /\ heard' = heard /\ upSince' = upSince
    BY DEF StrokePaused
<1>2. ScriptTypes /\ command \in Commands /\ Accepted /\ said \in Seq(Words)
    BY <1>1, SaidNow DEF ScriptsInv, ScriptTypes
<1>3. span \in Nat /\ Tail(strokes) \in Seq(AllStrokes)
    BY <1>1, <1>2, StrokeIs
<1>4. clock \in Nat /\ holdEnd \in Int /\ MaxSlack \in Nat /\ late \in Nat /\ late <= MaxSlack /\ upSince \in Nat /\ upSince <= clock
    BY <1>2, ScriptsAssumption DEF ScriptTypes
<1>5. span = Head(strokes).span
    OBVIOUS
<1> HIDE DEF said, span
<1>6. ScriptTypes'
  <2>1. clock' \in Nat /\ upSince' <= clock'
      BY <1>1, <1>3, <1>4
  <2> QED
      BY <1>1, <1>2, <1>3, <2>1 DEF ScriptTypes
<1>7. StagesInv'
  <2>1. Accepted'
      BY <1>1, <1>2 DEF Accepted
  <2> QED
      BY <1>1, <2>1 DEF StagesInv
<1>8. CASE command.program = "type"
  <2> DEFINE wish == Asked(command.tokens, Len(command.tokens) - Len(tokensLeft))
  <2>1. LastOf(tokensLeft, command.tokens) /\ TypingAt(strokes, charsLeft, down, said, wish)
      BY <1>1, <1>8 DEF ScriptsInv, TypingInv, said
  <2> HIDE DEF wish
  <2>2. TypingAt(Tail(strokes), charsLeft, down, said, wish)
      BY <1>1, <1>2, <2>1, TypingPauses, Zenon
  <2>3. TypingAt(strokes', charsLeft', down', SaidOf(heard'), wish)
      BY <1>1, <2>2 DEF said
  <2>4. wish = Asked(command'.tokens, Len(command'.tokens) - Len(tokensLeft')) /\ LastOf(tokensLeft', command'.tokens)
      BY <1>1, <2>1 DEF wish
  <2>5. TypingInv'
      BY <2>3, <2>4 DEF TypingInv
  <2>6. SwitchInv' /\ HoldInv'
      BY <1>1, <1>8 DEF SwitchInv, HoldInv
  <2> QED
      BY <1>6, <1>7, <2>5, <2>6 DEF ScriptsInv
<1>9. CASE command.program = "switch"
  <2>1. command.channel \in 1 .. 8
      BY <1>2, <1>9, AcceptedIs
  <2>2. SwitchInv
      BY DEF ScriptsInv
  <2>3. PICK p \in 0 .. 12 : SwitchAt(p, command.channel, strokes, down, said)
      BY <1>1, <1>9, <2>2 DEF SwitchInv, said
  <2>4. p + 1 \in 0 .. 12 /\ SwitchAt(p + 1, command.channel, Tail(strokes), down, said)
      BY <1>1, <2>1, <2>3, SwitchPauses, Zenon
  <2>5. SwitchInv'
    <3>1. SwitchAt(p + 1, command'.channel, strokes', down', SaidOf(heard'))
        BY <1>1, <2>4 DEF said
    <3>2. tokensLeft' = <<>> /\ charsLeft' = <<>>
        BY <1>1, <1>9, <2>2 DEF SwitchInv
    <3>3. \E q \in 0 .. 12 : SwitchAt(q, command'.channel, strokes', down', SaidOf(heard'))
        BY <2>4, <3>1, Zenon
    <3> QED
        BY <3>2, <3>3 DEF SwitchInv
  <2>6. TypingInv' /\ HoldInv'
      BY <1>1, <1>9 DEF TypingInv, HoldInv
  <2> QED
      BY <1>6, <1>7, <2>5, <2>6 DEF ScriptsInv
<1>10. CASE command.program = "hold"
  <2> DEFINE all == HoldRound(command.key)
  <2>1. /\ command.key \in 0 .. 255 /\ all \in Seq(AllStrokes) /\ Len(all) = 4
        /\ all[1].kind = "report" /\ all[2].kind = "pause" /\ all[2].span = 16
        /\ all[3].kind = "report" /\ all[4].kind = "pause" /\ all[4].span = 4
      BY <1>2, <1>10, AcceptedIs, RoundIs
  <2>2. HoldInv
      BY DEF ScriptsInv
  <2>3. PICK p \in 0 .. 4 : strokes = SubSeq(all, p + 1, 4) /\ HoldAt(p)
      BY <1>1, <1>10, <2>2 DEF HoldInv
  <2>4. all = HoldRound(command'.key) /\ Held' = Held
      BY <1>1 DEF Held
  <2> HIDE DEF all
  <2>5. p # 4
    <3>1. SubSeq(all, 4 + 1, 4) = <<>>
        BY <2>1
    <3> QED
        BY <1>1, <2>3, <3>1
  <2>6. Head(strokes) = all[p + 1] /\ Tail(strokes) = SubSeq(all, (p + 1) + 1, 4)
    <3>1. p \in 0 .. Len(all) - 1
        BY <2>1, <2>5
    <3> QED
        BY <2>1, <2>3, <3>1, Tails
  <2>7. p = 1 \/ p = 3
      BY <1>1, <2>1, <2>5, <2>6
  <2>8. (p = 1 => span = 16) /\ (p = 3 => span = 4)
      BY <1>5, <2>1, <2>6
  <2>9. HoldAt(p + 1)'
    <3>1. CASE p = 1
      <4>1. clock < holdEnd /\ down = Held
          BY <2>3, <3>1 DEF HoldAt
      <4>2. clock' < holdEnd' + 16 + MaxSlack /\ down' = Held'
          BY <1>1, <1>3, <1>4, <2>4, <2>8, <3>1, <4>1
      <4> QED
          BY <3>1, <4>2 DEF HoldAt
    <3>2. CASE p = 3
      <4>1. clock < holdEnd + 16 + MaxSlack /\ down = Off /\ upSince = clock
          BY <2>3, <3>2 DEF HoldAt
      <4>2. clock' < holdEnd' + 20 + 2 * MaxSlack /\ down' = Off /\ clock' <= upSince' + 4 + MaxSlack
          BY <1>1, <1>3, <1>4, <2>8, <3>2, <4>1
      <4> QED
          BY <3>2, <4>2 DEF HoldAt, UpBriefly
    <3> QED
        BY <2>7, <3>1, <3>2
  <2>10. \A i \in DOMAIN heard' : heard'[i] = Held'
      BY <1>1, <1>10, <2>2, <2>4 DEF HoldInv
  <2>11. HoldInv'
    <3>1. p + 1 \in 0 .. 4 /\ strokes' = SubSeq(HoldRound(command'.key), (p + 1) + 1, 4)
        BY <1>1, <2>4, <2>6, <2>7
    <3>2. \E q \in 0 .. 4 : strokes' = SubSeq(HoldRound(command'.key), q + 1, 4) /\ HoldAt(q)'
        BY <2>9, <3>1
    <3>3. tokensLeft' = <<>> /\ charsLeft' = <<>>
        BY <1>1, <1>10, <2>2 DEF HoldInv
    <3> QED
        BY <2>10, <3>2, <3>3 DEF HoldInv
  <2>12. TypingInv' /\ SwitchInv'
      BY <1>1, <1>10 DEF TypingInv, SwitchInv
  <2> QED
      BY <1>6, <1>7, <2>11, <2>12 DEF ScriptsInv
<1> QED
    BY <1>2, <1>8, <1>9, <1>10, CommandIs

LEMMA ScriptsBegin == ASSUME HsInit
    PROVE  ScriptsInv
<1>1. /\ command \in Commands /\ ending = "new" /\ tokensLeft = <<>> /\ charsLeft = <<>> /\ strokes = <<>>
      /\ holdEnd = 0 /\ clock = 0 /\ down \in Leftovers /\ heard = <<>> /\ upSince = 0
    BY DEF HsInit
<1>2. ScriptTypes
  <2>1. down \in HidReports
      BY <1>1, ScriptsAssumption DEF HidReports
  <2>2. /\ tokensLeft \in Seq(Tokens) /\ charsLeft \in Seq(STRING) /\ strokes \in Seq(AllStrokes) /\ heard \in Seq(HidReports)
      BY <1>1
  <2>3. ending \in Endings /\ holdEnd \in Int /\ clock \in Nat /\ upSince \in Nat /\ upSince <= clock
      BY <1>1 DEF Endings
  <2> QED
      BY <1>1, <2>1, <2>2, <2>3 DEF ScriptTypes
<1>3. TypingInv /\ SwitchInv /\ HoldInv
    BY <1>1 DEF TypingInv, SwitchInv, HoldInv
<1>4. StagesInv
    BY <1>1 DEF StagesInv
<1> QED
    BY <1>2, <1>3, <1>4 DEF ScriptsInv

LEMMA ScriptsStay == ASSUME ScriptsInv, [HsNext]_svars
    PROVE  ScriptsInv'
<1>1. ASSUME RefuseArguments
      PROVE  ScriptsInv'
  <2>1. /\ ending = "new" /\ ending' = "refused"
        /\ UNCHANGED <<command, tokensLeft, charsLeft, strokes, holdEnd, clock, down, heard, upSince>>
      BY <1>1 DEF RefuseArguments
  <2>2. ScriptTypes'
      BY <2>1 DEF ScriptsInv, ScriptTypes, Endings
  <2>3. TypingInv' /\ SwitchInv' /\ HoldInv'
      BY <2>1 DEF TypingInv, SwitchInv, HoldInv
  <2>4. heard = <<>> /\ strokes = <<>> /\ tokensLeft = <<>> /\ charsLeft = <<>>
      BY <2>1 DEF ScriptsInv, StagesInv
  <2>5. StagesInv'
      BY <2>1, <2>4 DEF StagesInv
  <2> QED
      BY <2>2, <2>3, <2>5 DEF ScriptsInv
<1>2. ASSUME BadStroke
      PROVE  ScriptsInv'
  <2>1. ending = "running" /\ LeaveWith("bad")
      BY <1>2 DEF BadStroke
  <2> QED
      BY <2>1, LeavesSafely
<1>3. ASSUME SignalStops
      PROVE  ScriptsInv'
  <2>1. ending = "running" /\ LeaveWith("stopped")
      BY <1>3 DEF SignalStops
  <2> QED
      BY <2>1, LeavesSafely
<1>4. ASSUME ProgramEnds
      PROVE  ScriptsInv'
  <2>1. ending = "running" /\ LeaveWith("ok") /\ strokes = <<>> /\ tokensLeft = <<>> /\ charsLeft = <<>>
      BY <1>4 DEF ProgramEnds
  <2> QED
      BY <2>1, LeavesSafely
<1>5. ASSUME UNCHANGED svars
      PROVE  ScriptsInv'
  <2>1. UNCHANGED <<command, ending, tokensLeft, charsLeft, strokes, holdEnd, clock, down, heard, upSince>>
      BY <1>5 DEF svars, cvars
  <2>2. ScriptTypes' /\ TypingInv'
      BY <2>1 DEF ScriptsInv, ScriptTypes, TypingInv
  <2>3. SwitchInv' /\ HoldInv'
      BY <2>1 DEF ScriptsInv, SwitchInv, HoldInv, HoldAt, UpBriefly, Held
  <2>4. Accepted' = Accepted /\ HearsWhatIsAsked' = HearsWhatIsAsked
    <3>1. Accepted' = Accepted
        BY <2>1 DEF Accepted
    <3>2. Meant' = Meant
        BY <2>1 DEF Meant
    <3> QED
        BY <2>1, <3>1, <3>2 DEF HearsWhatIsAsked
  <2>5. StagesInv'
      BY <2>1, <2>4 DEF ScriptsInv, StagesInv
  <2> QED
      BY <2>2, <2>3, <2>5 DEF ScriptsInv
<1> QED
    BY <1>1, <1>2, <1>3, <1>4, <1>5, StartsSafely, TokensGoOn, CharsGoOn, RoundsGoOn, SendsSafely, PausesSafely, Zenon
    DEF HsNext

LEMMA ScriptsKeep == ASSUME ScriptsInv
    PROVE  ScriptsSafe
<1>1. ScriptTypes
    BY DEF ScriptsInv
<1>2. HsTypeOK
  <2>1. \A i \in DOMAIN strokes : strokes[i].kind \in {"report", "pause", "bad"}
    <3>1. \A i \in DOMAIN strokes : strokes[i] \in AllStrokes
        BY <1>1 DEF ScriptTypes
    <3> QED
        BY <3>1 DEF AllStrokes
  <2>2. down.mod \in 0 .. 255 /\ down.key \in 0 .. 255
      BY <1>1 DEF ScriptTypes, HidReports
  <2> QED
      BY <1>1, <2>1, <2>2 DEF ScriptTypes, HsTypeOK, Endings
<1>3. HearsWhatIsAsked
  <2>1. CASE ending \in {"new", "refused"}
    <3>1. heard = <<>> /\ ending # "ok" /\ SaidOf(heard) = <<>>
        BY <1>1, <2>1, SaidIs DEF ScriptsInv, StagesInv, ScriptTypes
    <3>2. ASSUME Accepted
          PROVE  IsPrefix(<<>>, Meant)
      <4>1. command \in Commands /\ \A i \in DOMAIN heard : heard[i] = Held
          BY <1>1, <3>1 DEF ScriptTypes
      <4>2. Meant \in Seq(Words)
        <5>1. CASE command.program = "type"
          <6>1. command.tokens \in Seq(Tokens) /\ Meant = Asked(command.tokens, Len(command.tokens))
              BY <4>1, <5>1, CommandIs, MeantIs
          <6>2. Len(command.tokens) \in 0 .. Len(command.tokens)
              BY <6>1
          <6> QED
              BY <6>1, <6>2, AskedIs
        <5>2. CASE command.program = "switch"
            BY <3>2, <4>1, <5>2, AcceptedIs, MeantIs, SwitchWordsAre
        <5>3. CASE command.program = "hold"
          <6>1. Meant = <<>>
              BY <3>1, <4>1, <5>3, MeantIs
          <6>2. <<>> \in Seq(Words)
              OBVIOUS
          <6> QED
              BY <6>1, <6>2
        <5> QED
            BY <4>1, <5>1, <5>2, <5>3, CommandIs
      <4> DEFINE none == <<>>
                 whole == Meant
      <4>3. none \in Seq(Words) /\ Len(none) = 0 /\ Len(whole) \in Nat
          BY <4>2
      <4> HIDE DEF none, whole
      <4>4. Opens(none, whole)
          BY <4>3 DEF Opens
      <4>5. IsPrefix(none, whole)
          BY <4>2, <4>3, <4>4, PrefixIs DEF whole
      <4> QED
          BY <4>5 DEF none, whole
    <3> QED
        BY <3>1, <3>2 DEF HearsWhatIsAsked, SaidOf
  <2>2. CASE ending = "running"
    <3>1. IsPrefix(SaidOf(heard), Meant)
        BY <2>2, SaidNow
    <3> QED
        BY <2>2, <3>1 DEF HearsWhatIsAsked, SaidOf
  <2>3. CASE ending \in {"ok", "bad", "stopped"}
      BY <2>3 DEF ScriptsInv, StagesInv
  <2> QED
      BY <1>1, <2>1, <2>2, <2>3 DEF ScriptTypes, Endings
<1>4. HoldIsKept
  <2> SUFFICES ASSUME command.program = "hold", command.key # 0, ending = "running", heard # <<>>
               PROVE  /\ down = Off => clock <= upSince + 4 + MaxSlack
                      /\ clock < holdEnd + 20 + 2 * MaxSlack
      BY DEF HoldIsKept
  <2>1. PICK p \in 0 .. 4 : HoldAt(p)
      BY DEF ScriptsInv, HoldInv
  <2>2. clock \in Nat /\ holdEnd \in Int /\ MaxSlack \in Nat /\ upSince \in Nat /\ upSince <= clock
      BY <1>1, ScriptsAssumption DEF ScriptTypes
  <2>3. Held # Off
      BY DEF Held, Off
  <2>4. CASE p = 0
      BY <2>1, <2>2, <2>4 DEF HoldAt, UpBriefly
  <2>5. CASE p = 1
      BY <2>1, <2>2, <2>3, <2>5 DEF HoldAt
  <2>6. CASE p = 2
      BY <2>1, <2>2, <2>3, <2>6 DEF HoldAt
  <2>7. CASE p = 3
      BY <2>1, <2>2, <2>7 DEF HoldAt
  <2>8. CASE p = 4
      BY <2>1, <2>2, <2>8 DEF HoldAt, UpBriefly
  <2> QED
      BY <2>4, <2>5, <2>6, <2>7, <2>8
<1> QED
    BY <1>2, <1>3, <1>4 DEF ScriptsSafe

\* Whatever the token lists, the keys and the spans, whatever was down before and however
\* late each pause ends: the other end hears, in order, the beginning of what the command
\* line asks for, after exit code 0 all of it, and a held key as long as was asked.
THEOREM ScriptsAreSafe == HsSpec => []ScriptsSafe
<1>1. HsInit => ScriptsInv
    BY ScriptsBegin
<1>2. ScriptsInv /\ [HsNext]_svars => ScriptsInv'
    BY ScriptsStay
<1>3. ScriptsInv => ScriptsSafe
    BY ScriptsKeep
<1> QED
    BY <1>1, <1>2, <1>3, PTL DEF HsSpec
-----------------------------------------------------------------------------
(* HomeDashboard.  Sequences one after the other, and dicts.               *)

LEMMA ChainedIs == ASSUME NEW T, NEW parts \in Seq(Seq(T))
    PROVE  /\ Chained(parts) \in Seq(T)
           /\ \A k \in 1 .. Len(parts) : \A j \in 1 .. Len(parts[k]) :
                 \E i \in 1 .. Len(Chained(parts)) : Chained(parts)[i] = parts[k][j]
<1> DEFINE all == Chained(parts)
           said == SoFar(parts)
           n == Len(parts)
<1>1. all = said[n] /\ n \in Nat
    BY DEF Chained, SoFar
<1>2. /\ \A k \in 0 .. n : said[k] \in Seq(T)
      /\ \A k \in 1 .. n : said[k] = said[k - 1] \o parts[k]
    BY SoFarAre, Zenon
<1>3. \A k \in 0 .. n : IsPrefix(said[k], said[n])
    BY SoFarGrows, Zenon
<1>4. all \in Seq(T)
  <2>1. n \in 0 .. n
      BY <1>1
  <2> HIDE DEF all, said, n
  <2> QED
      BY <1>1, <1>2, <2>1
<1>5. ASSUME NEW k \in 1 .. n, NEW j \in 1 .. Len(parts[k])
      PROVE  \E i \in 1 .. Len(all) : all[i] = parts[k][j]
  <2> DEFINE before == said[k - 1]
             upTo == said[k]
             its == parts[k]
  <2>1. k \in 0 .. n /\ k - 1 \in 0 .. n
      BY <1>1
  <2>2. its \in Seq(T)
      OBVIOUS
  <2> HIDE DEF all, said, n
  <2>3. before \in Seq(T) /\ upTo \in Seq(T) /\ upTo = before \o its
      BY <1>2, <2>1
  <2>4. Opens(upTo, all)
      BY <1>1, <1>3, <1>4, <2>1, <2>3, PrefixIs
  <2> HIDE DEF before, upTo
  <2>5. j \in 1 .. Len(its)
      BY DEF n
  <2> HIDE DEF its
  <2>6. Len(before) + j \in 1 .. Len(upTo) /\ upTo[Len(before) + j] = its[j]
      BY <2>2, <2>3, <2>5
  <2>7. Len(before) + j \in 1 .. Len(all) /\ all[Len(before) + j] = upTo[Len(before) + j]
    <3>1. Len(upTo) <= Len(all) /\ Len(upTo) \in Nat /\ Len(all) \in Nat
        BY <1>4, <2>3, <2>4 DEF Opens
    <3>2. all[Len(before) + j] = upTo[Len(before) + j]
        BY <2>4, <2>6 DEF Opens
    <3> QED
        BY <2>6, <3>1, <3>2
  <2> QED
      BY <2>6, <2>7 DEF its
<1> QED
    BY <1>4, <1>5 DEF all, n

\* A function on 1 .. n is a sequence.
LEMMA SeqFrom == ASSUME NEW T, NEW n \in Nat, NEW f \in [1 .. n -> T]
    PROVE  f \in Seq(T) /\ Len(f) = n
OBVIOUS

\* No key and no object is there twice.
Keyed(dict) ==
    \A i, j \in 1 .. Len(dict) : dict[i][1] = dict[j][1] \/ dict[i][2] = dict[j][2] => i = j
Dicts(N) == {d \in Seq(N \X Nat) : Keyed(d)}

LEMMA PutKeeps ==
    ASSUME NEW N, NEW d \in Dicts(N), NEW name \in N, NEW object \in Nat,
           \A i \in 1 .. Len(d) : d[i][2] # object
    PROVE  /\ Put(d, name, object) \in Dicts(N)
           /\ \A i \in 1 .. Len(Put(d, name, object)) :
                 \/ Put(d, name, object)[i] = <<name, object>>
                 \/ i \in 1 .. Len(d) /\ d[i][1] # name /\ Put(d, name, object)[i] = d[i]
           /\ \E i \in 1 .. Len(Put(d, name, object)) : Put(d, name, object)[i] = <<name, object>>
           /\ Len(d) <= Len(Put(d, name, object))
           /\ \A i \in 1 .. Len(d) : Put(d, name, object)[i][1] = d[i][1]
           /\ (\A i \in 1 .. Len(d) : d[i][1] # name) => Put(d, name, object) = Append(d, <<name, object>>)
<1> DEFINE new == Put(d, name, object)
           entry == <<name, object>>
           n == Len(d)
<1>1. d \in Seq(N \X Nat) /\ n \in Nat /\ DOMAIN d = 1 .. n /\ Keyed(d)
    BY DEF Dicts
<1>2. \A i \in 1 .. n : d[i] \in N \X Nat /\ d[i][1] \in N /\ d[i][2] \in Nat
    BY <1>1
<1>3. entry \in N \X Nat /\ entry[1] = name /\ entry[2] = object
    OBVIOUS
<1>4. CASE \E i \in 1 .. n : d[i][1] = name
  <2>1. new = [i \in 1 .. n |-> IF d[i][1] = name THEN entry ELSE d[i]]
      BY <1>1, <1>4 DEF Put
  <2> HIDE DEF new, entry
  <2>2. new \in Seq(N \X Nat) /\ Len(new) = n
    <3>1. new \in [1 .. n -> N \X Nat]
        BY <1>2, <1>3, <2>1
    <3>2. n \in Nat
        BY <1>1
    <3> HIDE DEF n
    <3> QED
        BY <3>1, <3>2, SeqFrom, ZenonT(30)
  <2>3. \A i \in 1 .. n : new[i] = IF d[i][1] = name THEN entry ELSE d[i]
      BY <2>1
  <2>4. \A i \in 1 .. n : new[i][1] = d[i][1]
      BY <1>3, <2>3
  <2>5. Keyed(new)
    <3> SUFFICES ASSUME NEW i \in 1 .. n, NEW j \in 1 .. n, new[i][1] = new[j][1] \/ new[i][2] = new[j][2]
                 PROVE  i = j
        BY <2>2 DEF Keyed
    <3>1. CASE new[i][1] = new[j][1]
        BY <1>1, <2>4, <3>1 DEF Keyed
    <3>2. CASE new[i][2] = new[j][2]
      <4>1. CASE d[i][1] = name /\ d[j][1] = name
          BY <1>1, <4>1 DEF Keyed
      <4>2. CASE d[i][1] # name /\ d[j][1] # name
          BY <1>1, <2>3, <3>2, <4>2 DEF Keyed
      <4>3. CASE d[i][1] = name /\ d[j][1] # name
          BY <1>3, <2>3, <3>2, <4>3
      <4>4. CASE d[i][1] # name /\ d[j][1] = name
          BY <1>3, <2>3, <3>2, <4>4
      <4> QED
          BY <4>1, <4>2, <4>3, <4>4
    <3> QED
        BY <3>1, <3>2
  <2>6. \A i \in 1 .. n : new[i] = entry \/ (d[i][1] # name /\ new[i] = d[i])
      BY <2>3
  <2>7. \E i \in 1 .. n : new[i] = entry
      BY <1>4, <2>3
  <2>8. new \in Dicts(N)
      BY <2>2, <2>5 DEF Dicts
  <2> QED
      BY <1>1, <1>4, <2>2, <2>4, <2>6, <2>7, <2>8 DEF new, entry
<1>5. CASE \A i \in 1 .. n : d[i][1] # name
  <2>1. new = Append(d, entry)
      BY <1>1, <1>5 DEF Put
  <2> HIDE DEF new, entry
  <2>2. new \in Seq(N \X Nat) /\ Len(new) = n + 1 /\ new[n + 1] = entry /\ \A i \in 1 .. n : new[i] = d[i]
      BY <1>1, <1>3, <2>1
  <2>3. Keyed(new)
    <3> SUFFICES ASSUME NEW i \in 1 .. n + 1, NEW j \in 1 .. n + 1, new[i][1] = new[j][1] \/ new[i][2] = new[j][2]
                 PROVE  i = j
        BY <2>2 DEF Keyed
    <3>1. CASE i \in 1 .. n /\ j \in 1 .. n
        BY <1>1, <2>2, <3>1 DEF Keyed
    <3>2. CASE i = n + 1 /\ j \in 1 .. n
        BY <1>3, <1>5, <2>2, <3>2
    <3>3. CASE j = n + 1 /\ i \in 1 .. n
        BY <1>3, <1>5, <2>2, <3>3
    <3>4. (i \in 1 .. n \/ i = n + 1) /\ (j \in 1 .. n \/ j = n + 1)
        BY <1>1
    <3> QED
        BY <3>1, <3>2, <3>3, <3>4
  <2>4. n + 1 \in 1 .. n + 1 /\ \A i \in 1 .. n + 1 : i = n + 1 \/ i \in 1 .. n
      BY <1>1
  <2>5. \A i \in 1 .. Len(new) : new[i] = entry \/ (i \in 1 .. n /\ d[i][1] # name /\ new[i] = d[i])
      BY <1>5, <2>2, <2>4
  <2>6. \E i \in 1 .. Len(new) : new[i] = entry
      BY <2>2, <2>4
  <2>7. new \in Dicts(N)
      BY <2>2, <2>3 DEF Dicts
  <2>8. n <= Len(new) /\ \A i \in 1 .. n : new[i][1] = d[i][1]
      BY <1>1, <2>2
  <2> QED
      BY <2>1, <2>5, <2>6, <2>7, <2>8 DEF new, entry
<1> QED
    BY <1>4, <1>5

LEMMA PutTyped == ASSUME NEW N, NEW d \in Seq(N \X Nat), NEW name \in N, NEW object \in Nat
    PROVE  Put(d, name, object) \in Seq(N \X Nat)
<1> DEFINE entry == <<name, object>>
           n == Len(d)
<1>1. n \in Nat /\ DOMAIN d = 1 .. n /\ entry \in N \X Nat /\ \A i \in 1 .. n : d[i] \in N \X Nat
    OBVIOUS
<1>2. CASE \E i \in 1 .. n : d[i][1] = name
  <2>1. Put(d, name, object) = [i \in 1 .. n |-> IF d[i][1] = name THEN entry ELSE d[i]]
      BY <1>1, <1>2 DEF Put
  <2> HIDE DEF entry, n
  <2> DEFINE made == [i \in 1 .. n |-> IF d[i][1] = name THEN entry ELSE d[i]]
  <2>2. made \in [1 .. n -> N \X Nat] /\ n \in Nat
      BY <1>1
  <2>3. Put(d, name, object) = made
      BY <2>1, Zenon
  <2> HIDE DEF made
  <2>4. made \in Seq(N \X Nat)
      BY <2>2, SeqFrom, ZenonT(60)
  <2> QED
      BY <2>3, <2>4, Zenon
<1>3. CASE ~\E i \in 1 .. n : d[i][1] = name
  <2>1. Put(d, name, object) = Append(d, entry)
      BY <1>1, <1>3 DEF Put
  <2> HIDE DEF entry
  <2> QED
      BY <1>1, <2>1
<1> QED
    BY <1>2, <1>3

\* A dict that is brought new keys is continued by them.
LEMMA UpdateContinues ==
    ASSUME NEW N, NEW d \in Seq(N \X Nat), NEW more \in Seq(N \X Nat), Keyed(more),
           \A i \in 1 .. Len(d), j \in 1 .. Len(more) : d[i][1] # more[j][1]
    PROVE  Update(d, more) = d \o more
<1> DEFINE n == Len(more)
           All == Seq(N \X Nat)
           Body(f, i) == IF i = 0 THEN d ELSE Put(f[i - 1], more[i][1], more[i][2])
           step == [i \in 1 .. n |-> [s \in All |-> Put(s, more[i][1], more[i][2])]]
           upTo == CHOOSE f : f = [i \in 0 .. n |-> Body(f, i)]
<1>1. n \in Nat /\ d \in All /\ Len(d) \in Nat
    OBVIOUS
<1>2. \A i \in 1 .. n : more[i] \in N \X Nat /\ more[i][1] \in N /\ more[i][2] \in Nat /\ more[i] = <<more[i][1], more[i][2]>>
  <2> TAKE i \in 1 .. n
  <2>1. more[i] \in N \X Nat
      OBVIOUS
  <2> QED
      BY <2>1
<1>3. step \in [1 .. n -> [All -> All]]
  <2>1. \A i \in 1 .. n, s \in All : Put(s, more[i][1], more[i][2]) \in All
      BY <1>2, PutTyped
  <2> HIDE DEF All, n
  <2> QED
      BY <2>1
<1> HIDE DEF step, All, n
<1>4. PICK f \in [0 .. n -> All] : Takes(f, n, d, step)
    BY <1>1, <1>3, Recursion
<1>5. \A i \in 0 .. n : f[i] = Body(f, i)
  <2>1. f[0] = d /\ \A i \in 1 .. n : f[i] = step[i][f[i - 1]]
      BY <1>4 DEF Takes
  <2>2. ASSUME NEW i \in 1 .. n
        PROVE  f[i] = Body(f, i)
    <3>1. i - 1 \in 0 .. n /\ i # 0 /\ f[i - 1] \in All
        BY <1>1, <1>4
    <3> QED
        BY <2>1, <3>1 DEF step
  <2>3. f[0] = Body(f, 0)
      BY <2>1
  <2>4. \A i \in 0 .. n : i = 0 \/ i \in 1 .. n
      BY <1>1
  <2> HIDE DEF Body
  <2> QED
      BY <2>2, <2>3, <2>4, Zenon
<1>6. f = [i \in 0 .. n |-> Body(f, i)]
    BY <1>4, <1>5
<1> HIDE DEF Body
<1>7. upTo = [i \in 0 .. n |-> Body(upTo, i)]
    BY <1>6
<1> USE DEF Body
<1>8. Update(d, more) = upTo[n]
    BY DEF Update, n
<1> HIDE DEF upTo
<1>9. upTo[0] = d /\ \A i \in 1 .. n : upTo[i] = Put(upTo[i - 1], more[i][1], more[i][2])
  <2>1. 0 \in 0 .. n
      BY <1>1
  <2>2. upTo[0] = Body(upTo, 0)
      BY <1>7, <2>1
  <2>3. ASSUME NEW i \in 1 .. n
        PROVE  upTo[i] = Body(upTo, i) /\ i # 0
    <3>1. i \in 0 .. n /\ i # 0
        BY <1>1
    <3> QED
        BY <1>7, <3>1
  <2> QED
      BY <2>2, <2>3
<1> HIDE DEF Body
<1> DEFINE Grown(s, i) == /\ s \in All /\ Len(s) = Len(d) + i
                          /\ \A k \in 1 .. Len(d) : s[k] = d[k]
                          /\ \A k \in 1 .. i : s[Len(d) + k] = more[k]
           G == {i \in 0 .. n : Grown(upTo[i], i)}
<1>10. 0 \in G
  <2>1. Grown(d, 0) /\ 0 \in 0 .. n
      BY <1>1
  <2> HIDE DEF Grown
  <2> QED
      BY <1>9, <2>1
<1>11. ASSUME NEW i \in 1 .. n, i - 1 \in G
       PROVE  i \in G
  <2> DEFINE s == upTo[i - 1]
             t == upTo[i]
  <2>1. Grown(s, i - 1)
      BY <1>11
  <2>2. t = Put(s, more[i][1], more[i][2])
      BY <1>9
  <2> HIDE DEF s, t
  <2>3. s \in Seq(N \X Nat) /\ Len(s) = Len(d) + (i - 1) /\ DOMAIN s = 1 .. Len(s)
      BY <2>1 DEF All
  <2>4. \A k \in 1 .. Len(s) : s[k][1] # more[i][1]
    <3> TAKE k \in 1 .. Len(s)
    <3>1. CASE k \in 1 .. Len(d)
      <4>1. s[k] = d[k] /\ i \in 1 .. Len(more)
          BY <2>1, <3>1 DEF n
      <4> QED
          BY <3>1, <4>1
    <3>2. CASE k \notin 1 .. Len(d)
      <4>1. k - Len(d) \in 1 .. i - 1 /\ Len(d) + (k - Len(d)) = k
          BY <1>1, <2>3, <3>2
      <4>2. s[k] = more[k - Len(d)]
          BY <2>1, <4>1
      <4>3. k - Len(d) \in 1 .. n /\ k - Len(d) # i
          BY <1>1, <4>1
      <4> QED
          BY <4>2, <4>3 DEF Keyed, n
    <3> QED
        BY <3>1, <3>2
  <2>5. t = Append(s, more[i])
    <3>1. more[i] = <<more[i][1], more[i][2]>>
        BY <1>2
    <3>2. ~\E k \in DOMAIN s : s[k][1] = more[i][1]
        BY <2>3, <2>4
    <3>3. t = Append(s, <<more[i][1], more[i][2]>>)
        BY <2>2, <3>2 DEF Put
    <3> QED
        BY <3>1, <3>3
  <2>6. more[i] \in N \X Nat
      BY <1>2
  <2>7. t \in Seq(N \X Nat) /\ Len(t) = Len(s) + 1 /\ t[Len(s) + 1] = more[i] /\ \A k \in 1 .. Len(s) : t[k] = s[k]
      BY <2>3, <2>5, <2>6
  <2>8. Len(s) + 1 = Len(d) + i
      BY <1>1, <2>3
  <2>9. \A k \in 1 .. Len(d) : t[k] = d[k]
    <3> TAKE k \in 1 .. Len(d)
    <3>1. k \in 1 .. Len(s)
        BY <1>1, <2>3
    <3> QED
        BY <2>1, <2>7, <3>1
  <2>10. \A k \in 1 .. i : t[Len(d) + k] = more[k]
    <3> TAKE k \in 1 .. i
    <3>1. CASE k = i
        BY <2>7, <2>8, <3>1
    <3>2. CASE k # i
      <4>1. k \in 1 .. i - 1 /\ Len(d) + k \in 1 .. Len(s)
          BY <1>1, <2>3, <3>2
      <4> QED
          BY <2>1, <2>7, <4>1
    <3> QED
        BY <3>1, <3>2
  <2>11. Grown(t, i)
      BY <2>7, <2>8, <2>9, <2>10 DEF All
  <2>12. i \in 0 .. n
      BY <1>1
  <2> HIDE DEF Grown
  <2> QED
      BY <2>11, <2>12 DEF t
<1>12. n \in G
  <2> HIDE DEF G
  <2>1. 0 .. n \subseteq G
      BY <1>1, <1>10, <1>11, UpTo
  <2> QED
      BY <1>1, <2>1
<1>13. Grown(upTo[n], n)
    BY <1>12
<1> HIDE DEF G
<1> DEFINE all == upTo[n]
<1> HIDE DEF all
<1>14. all \in Seq(N \X Nat) /\ Len(all) = Len(d) + n /\ (\A k \in 1 .. Len(d) : all[k] = d[k])
       /\ \A k \in 1 .. n : all[Len(d) + k] = more[k]
    BY <1>13 DEF all, All
<1>15. all = d \o more
  <2>1. d \o more \in Seq(N \X Nat) /\ Len(d \o more) = Len(d) + n
      BY DEF n
  <2>2. ASSUME NEW k \in 1 .. Len(d) + n
        PROVE  all[k] = (d \o more)[k]
    <3>1. CASE k \in 1 .. Len(d)
      <4>1. (d \o more)[k] = d[k]
          BY <3>1
      <4> QED
          BY <1>14, <3>1, <4>1
    <3>2. CASE k \notin 1 .. Len(d)
      <4>1. k - Len(d) \in 1 .. n /\ Len(d) + (k - Len(d)) = k
          BY <1>1, <3>2
      <4>2. (d \o more)[k] = more[k - Len(d)]
          BY <3>2 DEF n
      <4>3. all[Len(d) + (k - Len(d))] = more[k - Len(d)]
          BY <1>14, <4>1
      <4> QED
          BY <4>1, <4>2, <4>3
    <3> QED
        BY <3>1, <3>2
  <2>3. all \in Seq(N \X Nat) /\ Len(all) = Len(d \o more) /\ \A k \in 1 .. Len(all) : all[k] = (d \o more)[k]
      BY <1>14, <2>1, <2>2
  <2> DEFINE both == d \o more
  <2>4. both \in Seq(N \X Nat) /\ Len(all) = Len(both) /\ \A k \in 1 .. Len(all) : all[k] = both[k]
      BY <2>1, <2>3
  <2> HIDE DEF both
  <2>5. all = both
      BY <2>3, <2>4, SeqEqual, ZenonT(30)
  <2> QED
      BY <2>5 DEF both
<1> QED
    BY <1>8, <1>15 DEF all

-----------------------------------------------------------------------------
(* HomeDashboard.  Panels, and what the pages name.                        *)

\* The provers do not know that a literal is a string.
Texts == STRING \cup {"none", "deeper", NoText} \cup OfFirst
PanelKeys == Texts \cup UNION {{MemberKey(w, n) : n \in Nat} : w \in Widgets}
HomePanels ==
    [key : PanelKeys, of : Texts, names : SUBSET Texts, vars : SUBSET Strays, queries : Nat,
     links : SUBSET {"open system"}, id : Nat, arg : Texts]
\* A panel nothing has been done to yet.
AsDrawn(p) == p \in HomePanels /\ p.links = {} /\ p.names \in {{"none"}, {p.of}}

LEMMA FreshDrawn == ASSUME NEW key \in Texts
    PROVE  /\ AsDrawn(Fresh(key, "none")) /\ Fresh(key, "none").of = "none"
           /\ Fresh(key, "none").names = {"none"} /\ Fresh(key, "none").vars = {} /\ Fresh(key, "none").key = key
<1>1. key \in PanelKeys /\ "none" \in Texts /\ NoText \in Texts
    BY DEF PanelKeys, Texts
<1> DEFINE p == Fresh(key, "none")
<1>2. p = [key |-> key, of |-> "none", names |-> {"none"}, vars |-> {}, queries |-> 1,
           links |-> {}, id |-> 0, arg |-> NoText]
    BY DEF Fresh
<1> HIDE DEF p
<1>3. p.of = "none" /\ p.names = {"none"} /\ p.vars = {} /\ p.key = key /\ p.links = {}
    BY <1>2
<1>4. p \in HomePanels
    BY <1>1, <1>2 DEF HomePanels
<1> QED
    BY <1>3, <1>4 DEF p, AsDrawn

LEMMA PanelsDrawn == ASSUME NEW w \in Widgets
    PROVE  PanelsOf(w) \in Seq({p \in HomePanels : AsDrawn(p)})
<1> DEFINE All == {p \in HomePanels : AsDrawn(p)}
           m == w.queries
<1>1. /\ w.key \in Texts /\ w.of \in Texts /\ w.vars \in SUBSET Strays /\ m \in Nat
      /\ "none" \in Texts /\ NoText \in Texts
    BY DEF Widgets, Texts
<1>2. ASSUME NEW key \in PanelKeys, NEW n \in Nat
      PROVE  /\ PanelOf(w, key, n) \in All /\ PanelOf(w, key, n).names = {w.of} /\ PanelOf(w, key, n).of = w.of
             /\ [PanelOf(w, key, n) EXCEPT !.names = {"none"}] \in All
  <2> DEFINE p == PanelOf(w, key, n)
             q == [p EXCEPT !.names = {"none"}]
  <2>1. p = [key |-> key, of |-> w.of, names |-> {w.of}, vars |-> w.vars, queries |-> n,
             links |-> {}, id |-> 0, arg |-> NoText]
      BY DEF PanelOf
  <2>2. q = [key |-> key, of |-> w.of, names |-> {"none"}, vars |-> w.vars, queries |-> n,
             links |-> {}, id |-> 0, arg |-> NoText]
      BY <2>1
  <2> HIDE DEF p, q
  <2>3. p \in HomePanels /\ p.links = {} /\ p.names = {w.of} /\ p.of = w.of
    <3>1. p \in HomePanels
        BY <1>1, <2>1 DEF HomePanels
    <3> QED
        BY <2>1, <3>1
  <2>4. q \in HomePanels /\ q.links = {} /\ q.names = {"none"}
    <3>1. q \in HomePanels
        BY <1>1, <2>2 DEF HomePanels
    <3> QED
        BY <2>2, <3>1
  <2> QED
      BY <2>3, <2>4 DEF p, q, AsDrawn
<1>3. Drawn(w) \in Nat
    BY <1>1 DEF Drawn
<1>4. CASE w.kind = "tiles"
  <2> DEFINE tile(n) == [PanelOf(w, MemberKey(w, n), 1) EXCEPT !.names = {"none"}]
  <2>1. \A n \in 1 .. m : tile(n) \in All
    <3> TAKE n \in 1 .. m
    <3>1. MemberKey(w, n) \in PanelKeys /\ 1 \in Nat
        BY <1>1 DEF PanelKeys
    <3> HIDE DEF All
    <3> QED
        BY <1>2, <3>1
  <2>2. PanelsOf(w) = [n \in 1 .. m |-> tile(n)]
      BY <1>4 DEF PanelsOf
  <2> HIDE DEF All, tile
  <2>3. PanelsOf(w) \in [1 .. m -> All]
      BY <2>1, <2>2
  <2> QED
      BY <1>1, <2>3 DEF All
<1>5. CASE w.kind # "tiles"
  <2> DEFINE one == PanelOf(w, w.key, Drawn(w))
  <2>1. PanelsOf(w) = <<one>>
      BY <1>5 DEF PanelsOf
  <2>2. w.key \in PanelKeys
      BY <1>1 DEF PanelKeys
  <2>3. one \in All
      BY <1>2, <1>3, <2>2
  <2> HIDE DEF All, one
  <2>4. <<one>> \in Seq(All)
      BY <2>3
  <2> QED
      BY <2>1, <2>4 DEF All
<1> QED
    BY <1>4, <1>5

LEMMA DeclaredDrawn == ASSUME NEW s \in Sources
    PROVE  Declared(s.library) \in Seq(HomePanels) /\ \A o \in 1 .. Len(Declared(s.library)) : AsDrawn(Declared(s.library)[o])
<1> DEFINE lib == s.library
           All == {p \in HomePanels : AsDrawn(p)}
           each == [i \in DOMAIN lib |-> PanelsOf(lib[i])]
           all == Declared(lib)
<1>1. lib \in Seq(Widgets)
    BY HomeAssumption
<1>2. each \in Seq(Seq(All))
  <2>1. Len(lib) \in Nat /\ DOMAIN lib = 1 .. Len(lib) /\ \A i \in 1 .. Len(lib) : lib[i] \in Widgets
      BY <1>1
  <2>2. \A i \in 1 .. Len(lib) : PanelsOf(lib[i]) \in Seq(All)
      BY <2>1, PanelsDrawn
  <2> HIDE DEF All, lib
  <2>3. each \in [1 .. Len(lib) -> Seq(All)]
      BY <2>1, <2>2
  <2> QED
      BY <2>1, <2>3
<1>3. all = Chained(each)
    BY DEF Declared
<1> HIDE DEF All, each, all
<1>4. all \in Seq(All)
    BY <1>2, <1>3, ChainedIs, Zenon
<1>5. All \subseteq HomePanels /\ \A p \in All : AsDrawn(p)
    BY DEF All
<1>6. Len(all) \in Nat /\ \A o \in 1 .. Len(all) : all[o] \in All
    BY <1>4
<1>7. all \in Seq(HomePanels)
    BY <1>4, <1>5
<1> QED
    BY <1>5, <1>6, <1>7 DEF all

\* A set of places has a last one.
LEMMA LastPlace == ASSUME NEW n \in Nat, NEW Places \in SUBSET (1 .. n), Places # {}
    PROVE  \E i \in Places : \A j \in Places : j <= i
<1> DEFINE Behind == {n - i : i \in Places}
<1>1. Behind \in SUBSET Nat /\ Behind # {}
  <2>1. ASSUME NEW i \in Places
        PROVE  n - i \in Nat
    <3>1. i \in Nat /\ i <= n
        OBVIOUS
    <3> QED
        BY <3>1
  <2> QED
      BY <2>1
<1>2. PICK b \in Behind : \A m \in Behind : b <= m
    BY <1>1, Least
<1>3. PICK i \in Places : b = n - i
    BY <1>2
<1>4. \A j \in Places : j <= i
  <2> TAKE j \in Places
  <2>1. n - j \in Behind
      OBVIOUS
  <2>2. b <= n - j
      BY <1>2, <2>1
  <2>3. i \in 1 .. n /\ j \in 1 .. n
      OBVIOUS
  <2> QED
      BY <1>3, <2>2, <2>3
<1> QED
    BY <1>4

LEMMA ByKeyIs == ASSUME NEW T, NEW panels \in Seq(T), NEW k \in DOMAIN ByKey(panels)
    PROVE  ByKey(panels)[k] \in 1 .. Len(panels)
<1> DEFINE n == Len(panels)
           Places == {i \in 1 .. n : panels[i].key = k}
           IsLast(i) == i \in 1 .. n /\ panels[i].key = k /\ \A j \in i + 1 .. n : panels[j].key # k
<1>1. n \in Nat /\ DOMAIN panels = 1 .. n
    OBVIOUS
<1>2. ByKey(panels)[k] = CHOOSE i \in 1 .. n : panels[i].key = k /\ \A j \in i + 1 .. n : panels[j].key # k
    BY <1>1 DEF ByKey
<1>3. Places \in SUBSET (1 .. n) /\ Places # {}
    BY <1>1 DEF ByKey
<1> HIDE DEF n
<1>4. PICK i \in Places : \A j \in Places : j <= i
    BY <1>1, <1>3, LastPlace
<1>5. i \in 1 .. n /\ panels[i].key = k /\ \A j \in i + 1 .. n : panels[j].key # k
  <2>1. i \in 1 .. n /\ panels[i].key = k
      BY <1>4
  <2>2. ASSUME NEW j \in i + 1 .. n, panels[j].key = k
        PROVE  FALSE
    <3>1. j \in Places /\ ~(j <= i)
        BY <1>1, <2>1, <2>2
    <3> QED
        BY <1>4, <3>1
  <2> QED
      BY <2>1, <2>2
<1> QED
    BY <1>2, <1>5 DEF n

\* The cells of a system's page, and the names of its tab.
PageCells(s, c) == UNION {ToSet(s.rows[s.pages[c][i]].cells) : i \in 1 .. Len(s.pages[c])}
OnPage(s, c) == {NameOf(cell) : cell \in PageCells(s, c)}
OnTab(s, c) == OnPage(s, c) \cup {"attention", "quiet"}

LEMMA PagesAre == ASSUME NEW s \in Sources, NEW c \in ToSet(Systems)
    PROVE  /\ s.pages[c] \in Seq(DOMAIN s.rows) /\ \A i \in 1 .. Len(s.pages[c]) : s.pages[c][i] \in DOMAIN s.rows
           /\ \A r \in DOMAIN s.rows : /\ s.rows[r].cells \in Seq(Cells)
                                       /\ \A j \in 1 .. Len(s.rows[r].cells) : s.rows[r].cells[j] \in CellsOf(s)
           /\ PageCells(s, c) \subseteq CellsOf(s) /\ CellsOf(s) \subseteq Cells
           /\ OnTab(s, c) \subseteq Called(s)
<1>1. s.pages[c] \in Seq(DOMAIN s.rows) /\ \A i \in 1 .. Len(s.pages[c]) : s.pages[c][i] \in DOMAIN s.rows
  <2>1. s.pages[c] \in Seq(DOMAIN s.rows)
      BY HomeAssumption
  <2> QED
      BY <2>1
<1>2. ASSUME NEW r \in DOMAIN s.rows
      PROVE  /\ s.rows[r].cells \in Seq(Cells) /\ ToSet(s.rows[r].cells) \subseteq Cells
             /\ \A j \in 1 .. Len(s.rows[r].cells) : s.rows[r].cells[j] \in CellsOf(s)
             /\ ToSet(s.rows[r].cells) \subseteq CellsOf(s)
  <2>1. s.rows[r].cells \in Seq(Cells)
      BY HomeAssumption
  <2> DEFINE cells == s.rows[r].cells
  <2> HIDE DEF cells
  <2>2. cells \in Seq(Cells)
      BY <2>1 DEF cells
  <2>3. ToSet(cells) \subseteq Cells /\ \A j \in 1 .. Len(cells) : cells[j] \in ToSet(cells)
      BY <2>2 DEF ToSet
  <2>4. ToSet(cells) \subseteq CellsOf(s)
      BY DEF CellsOf, cells
  <2> QED
      BY <2>2, <2>3, <2>4 DEF cells
<1>3. PageCells(s, c) \subseteq CellsOf(s)
    BY <1>1, <1>2 DEF PageCells
<1>4. CellsOf(s) \subseteq Cells
    BY <1>2 DEF CellsOf
<1>5. OnTab(s, c) \subseteq Called(s)
    BY <1>3 DEF OnTab, OnPage, Called
<1> QED
    BY <1>1, <1>2, <1>3, <1>4, <1>5

LEMMA PageNamesAre == ASSUME sources \in Sources, shared = sources.rows, NEW c \in ToSet(Systems)
    PROVE  /\ PageNames(c) \in Seq(OnPage(sources, c))
           /\ \A name \in OnPage(sources, c) : \E i \in 1 .. Len(PageNames(c)) : PageNames(c)[i] = name
<1> DEFINE page == sources.pages[c]
           T == OnPage(sources, c)
           lines0 == [i \in DOMAIN page |-> RowNames(shared[page[i]])]
           cells(i) == sources.rows[page[i]].cells
<1>1. /\ page \in Seq(DOMAIN sources.rows) /\ Len(page) \in Nat /\ DOMAIN page = 1 .. Len(page)
      /\ \A i \in 1 .. Len(page) : cells(i) \in Seq(Cells)
  <2>1. page \in Seq(DOMAIN sources.rows)
      BY PagesAre
  <2> QED
      BY <2>1, PagesAre
<1>2. ASSUME NEW i \in 1 .. Len(page)
      PROVE  /\ lines0[i] = [j \in 1 .. Len(cells(i)) |-> NameOf(cells(i)[j])]
             /\ lines0[i] \in Seq(T) /\ Len(lines0[i]) = Len(cells(i))
  <2> DEFINE own == cells(i)
  <2>1. own \in Seq(Cells) /\ Len(own) \in Nat /\ DOMAIN own = 1 .. Len(own)
      BY <1>1, SMTT(30)
  <2>2. lines0[i] = [j \in 1 .. Len(own) |-> NameOf(own[j])]
      BY <1>1, <2>1 DEF RowNames
  <2>3. \A j \in 1 .. Len(own) : NameOf(own[j]) \in T
    <3> TAKE j \in 1 .. Len(own)
    <3>1. own[j] \in ToSet(own)
        BY <2>1 DEF ToSet
    <3>2. own[j] \in PageCells(sources, c)
        BY <3>1 DEF PageCells
    <3> QED
        BY <3>2 DEF OnPage
  <2> DEFINE line == lines0[i]
             m == Len(own)
  <2> HIDE DEF own, T, lines0
  <2>4. line \in [1 .. m -> T]
      BY <2>2, <2>3
  <2> HIDE DEF line
  <2>5. line \in Seq(T) /\ Len(line) = m
    <3>1. m \in Nat
        BY <2>1
    <3> HIDE DEF m
    <3> QED
        BY <2>4, <3>1
  <2> QED
      BY <2>2, <2>5 DEF line, own
<1>3. lines0 \in Seq(Seq(T)) /\ Len(lines0) = Len(page)
  <2>1. DOMAIN lines0 = 1 .. Len(page)
      BY <1>1
  <2>2. lines0 = [i \in 1 .. Len(page) |-> lines0[i]]
      BY <1>1
  <2> HIDE DEF lines0, T, page
  <2>3. lines0 \in [1 .. Len(page) -> Seq(T)]
      BY <1>2, <2>1, <2>2
  <2> QED
      BY <1>1, <2>3
<1>4. PageNames(c) = Chained(lines0)
    BY DEF PageNames
<1> HIDE DEF lines0, T, page
<1>5. /\ Chained(lines0) \in Seq(T)
      /\ \A k \in 1 .. Len(lines0) : \A j \in 1 .. Len(lines0[k]) :
            \E i \in 1 .. Len(Chained(lines0)) : Chained(lines0)[i] = lines0[k][j]
    BY <1>3, ChainedIs, Zenon
<1>6. ASSUME NEW name \in T
      PROVE  \E k \in 1 .. Len(page) : \E j \in 1 .. Len(lines0[k]) : lines0[k][j] = name
  <2>1. PICK cell \in PageCells(sources, c) : name = NameOf(cell)
      BY DEF OnPage, T
  <2>2. PICK k \in 1 .. Len(page) : cell \in ToSet(cells(k))
      BY <2>1 DEF PageCells, page
  <2>3. PICK j \in 1 .. Len(cells(k)) : cells(k)[j] = cell
    <3>1. cells(k) \in Seq(Cells)
        BY <1>1
    <3> QED
        BY <2>2, <3>1 DEF ToSet
  <2>4. lines0[k][j] = name /\ j \in 1 .. Len(lines0[k])
      BY <1>2, <2>1, <2>3
  <2> QED
      BY <2>4
<1>7. ASSUME NEW name \in T
      PROVE  \E i \in 1 .. Len(Chained(lines0)) : Chained(lines0)[i] = name
  <2> DEFINE all == Chained(lines0)
  <2>1. PICK k \in 1 .. Len(page) : \E j \in 1 .. Len(lines0[k]) : lines0[k][j] = name
      BY <1>6
  <2>2. PICK j \in 1 .. Len(lines0[k]) : lines0[k][j] = name
      BY <2>1
  <2>3. k \in 1 .. Len(lines0)
      BY <1>3
  <2> HIDE DEF all
  <2>4. \E i \in 1 .. Len(all) : all[i] = lines0[k][j]
      BY <1>5, <2>3, Zenon DEF all
  <2> QED
      BY <2>2, <2>4 DEF all
<1> QED
    BY <1>4, <1>5, <1>7 DEF T

\* A name leads back to its cell.
LEMMA Sourced == ASSUME sources \in Sources, NEW cell \in CellsOf(sources)
    PROVE  SourceOf(NameOf(cell)) = cell
BY NamesAssumption DEF SourceOf

-----------------------------------------------------------------------------
(* HomeDashboard.  The panels of one system's tab.                         *)

\* While the tabs are made, every declared panel is as it was declared.
Assembling ==
    /\ sources \in Sources /\ shared = sources.rows /\ heap \in Seq(HomePanels)
    /\ library = ByKey(Declared(sources.library))
    /\ Len(Declared(sources.library)) <= Len(heap)
    /\ \A o \in 1 .. Len(Declared(sources.library)) : heap[o] = Declared(sources.library)[o]

\* The panel a page asks for by this name.
Depicted(name) ==
    IF name = "deeper" THEN Fresh(name, "none")
    ELSE IF SourceOf(name).arg # NoText THEN Built(SourceOf(name))
    ELSE Declared(sources.library)[ByKey(Declared(sources.library))[name]]

LEMMA DepictedIsNamed == ASSUME sources \in Sources, NEW cell \in CellsOf(sources)
    PROVE  Depicted(NameOf(cell)) = NamedIn(cell)
<1> DEFINE name == NameOf(cell)
<1>1. SourceOf(name) = cell
    BY Sourced
<1>2. "deeper" \in {cell.src, name} => cell.arg = NoText
    BY NamesAssumption
<1>3. cell.arg = NoText => name = cell.src
    BY DEF NameOf
<1> HIDE DEF name
<1>4. name = "deeper" <=> cell.src = "deeper"
    BY <1>2, <1>3
<1>5. CASE cell.src = "deeper"
    BY <1>4, <1>5 DEF Depicted, NamedIn, name
<1>6. CASE cell.src # "deeper" /\ cell.arg # NoText
    BY <1>1, <1>4, <1>6 DEF Depicted, NamedIn, name
<1>7. CASE cell.src # "deeper" /\ cell.arg = NoText
  <2>1. name = cell.src
      BY <1>3, <1>7
  <2> QED
      BY <1>1, <1>4, <1>7, <2>1 DEF Depicted, NamedIn, name
<1> QED
    BY <1>5, <1>6, <1>7

LEMMA BuiltDrawn == ASSUME sources \in Sources, NEW cell \in CellsOf(sources), cell \in Cells, cell.arg # NoText
    PROVE  AsDrawn(Built(cell)) /\ Built(cell).of \in STRING
<1> DEFINE b == Builders[cell.src]
           p == Built(cell)
<1>1. b \in Blanks /\ b.names = {b.of}
  <2>1. cell.src \in DOMAIN Builders
      BY HomeAssumption
  <2> QED
      BY <2>1, HomeAssumption
<1>2. cell.arg \in Texts
    BY DEF Cells, Texts
<1>3. p = [b EXCEPT !.arg = cell.arg]
    BY DEF Built
<1> HIDE DEF b
<1>4. /\ b.key \in STRING /\ b.of \in STRING /\ b.names \in SUBSET STRING /\ b.vars \in SUBSET Strays
      /\ b.queries \in Nat /\ b.links = {} /\ b.id = 0
    BY <1>1 DEF Blanks
<1>5. b = [key |-> b.key, of |-> b.of, names |-> b.names, vars |-> b.vars, queries |-> b.queries,
           links |-> b.links, id |-> b.id, arg |-> b.arg]
    BY <1>1 DEF Blanks
<1>6. p = [key |-> b.key, of |-> b.of, names |-> b.names, vars |-> b.vars, queries |-> b.queries,
           links |-> b.links, id |-> b.id, arg |-> cell.arg]
    BY <1>3, <1>5
<1> HIDE DEF p
<1>7. STRING \subseteq Texts /\ STRING \subseteq PanelKeys /\ 0 \in Nat
    BY DEF Texts, PanelKeys
<1>8. p \in HomePanels
  <2>1. b.key \in PanelKeys /\ b.of \in Texts /\ b.names \in SUBSET Texts /\ b.links \in SUBSET {"open system"} /\ b.id \in Nat
      BY <1>4, <1>7
  <2> QED
      BY <1>2, <1>4, <1>6, <2>1 DEF HomePanels
<1>9. p.links = {} /\ p.names = {p.of} /\ p.of \in STRING
    BY <1>1, <1>4, <1>6
<1> QED
    BY <1>8, <1>9 DEF AsDrawn, p

LEMMA StampIs ==
    ASSUME Assembling, NEW cell \in CellsOf(sources), cell \in Cells, Known(NameOf(cell)),
           NEW h \in Seq(HomePanels), Len(heap) <= Len(h), \A o \in 1 .. Len(heap) : h[o] = heap[o]
    PROVE  /\ Stamp(NameOf(cell), h, library).heap = Append(h, Depicted(NameOf(cell)))
           /\ Stamp(NameOf(cell), h, library).object = Len(h) + 1
           /\ AsDrawn(Depicted(NameOf(cell)))
<1> DEFINE name == NameOf(cell)
           D == Declared(sources.library)
           cut == CASE name = "deeper" -> Fresh(name, "none")
                    [] SourceOf(name).arg # NoText -> Built(SourceOf(name))
                    [] OTHER -> h[library[name]]
<1>1. SourceOf(name) = cell
    BY Sourced DEF Assembling
<1>2. Stamp(name, h, library) = [heap |-> Append(h, cut), object |-> Len(h) + 1]
    BY DEF Stamp
<1>3. Known(name) /\ ("deeper" \in {cell.src, name} => cell.arg = NoText)
    BY NamesAssumption DEF Assembling
<1> HIDE DEF name
<1>4. cut = Depicted(name) /\ AsDrawn(Depicted(name))
  <2>1. CASE name = "deeper"
    <3>1. SourceOf(name).arg = NoText
        BY <1>1, <1>3, <2>1
    <3>2. cut = Fresh(name, "none") /\ Depicted(name) = Fresh(name, "none")
        BY <2>1, <3>1 DEF Depicted
    <3>3. name \in Texts
        BY <2>1 DEF Texts
    <3> HIDE DEF cut
    <3> QED
        BY <3>2, <3>3, FreshDrawn
  <2>2. CASE name # "deeper" /\ cell.arg # NoText
    <3>1. cut = Built(cell) /\ Depicted(name) = Built(cell)
        BY <1>1, <2>2 DEF Depicted
    <3>2. AsDrawn(Built(cell))
        BY <2>2, BuiltDrawn DEF Assembling
    <3> QED
        BY <3>1, <3>2
  <2>3. CASE name # "deeper" /\ cell.arg = NoText
    <3>1. cut = h[library[name]] /\ Depicted(name) = D[ByKey(D)[name]]
        BY <1>1, <2>3 DEF Depicted
    <3>2. name \in DOMAIN library
        BY <1>1, <1>3, <2>3 DEF Known
    <3>3. D \in Seq(HomePanels) /\ \A o \in 1 .. Len(D) : AsDrawn(D[o])
        BY DeclaredDrawn DEF Assembling
    <3> HIDE DEF D, cut
    <3>4. library = ByKey(D) /\ Len(D) <= Len(heap) /\ (\A o \in 1 .. Len(D) : heap[o] = D[o]) /\ Len(heap) \in Nat
        BY DEF Assembling, D
    <3>5. library[name] \in 1 .. Len(D)
        BY <3>2, <3>3, <3>4, ByKeyIs
    <3> DEFINE o == library[name]
    <3> HIDE DEF o
    <3>6. o \in 1 .. Len(D) /\ o \in 1 .. Len(heap)
      <4>1. Len(D) \in Nat
          BY <3>3
      <4> QED
          BY <3>4, <3>5, <4>1 DEF o
    <3>7. h[o] = D[o] /\ AsDrawn(D[o])
        BY <3>3, <3>4, <3>6
    <3> QED
        BY <3>1, <3>4, <3>7 DEF o
  <2> QED
      BY <2>1, <2>2, <2>3
<1> HIDE DEF cut
<1> QED
    BY <1>2, <1>4 DEF name

\* A tab in the making: its panels behind those there were, each as the page asks for it.
Making(c, k) ==
    /\ k.heap \in Seq(HomePanels) /\ Len(heap) + 2 <= Len(k.heap)
    /\ \A o \in 1 .. Len(heap) : k.heap[o] = heap[o]
    /\ \A o \in Len(heap) + 1 .. Len(k.heap) : AsDrawn(k.heap[o])
    /\ k.els \in Dicts(OnTab(sources, c))
    /\ \A i \in 1 .. Len(k.els) : k.els[i][2] \in Len(heap) + 1 .. Len(k.heap)
    /\ \A name \in {"attention", "quiet"} : \E i \in 1 .. Len(k.els) : k.els[i][1] = name
    /\ \A i \in 1 .. Len(k.els) :
          \/ k.els[i][1] \in OnPage(sources, c) /\ k.heap[k.els[i][2]] = Depicted(k.els[i][1])
          \/ k.heap[k.els[i][2]] = Fresh(k.els[i][1], "none")
Stampings(c) == {k \in [heap : Seq(HomePanels), els : Seq(OnTab(sources, c) \X Nat)] : Making(c, k)}
Has(k, name) == \E i \in 1 .. Len(k.els) : k.els[i][1] = name /\ k.heap[k.els[i][2]] = Depicted(name)

AsStamped(s, name) ==
    LET one == Stamp(name, s.heap, library)
    IN [heap |-> one.heap, els |-> Put(s.els, name, one.object)]

LEMMA FirstMade == ASSUME Assembling, NEW c \in ToSet(Systems)
    PROVE  [heap |-> heap \o NeedsAttention,
            els |-> <<<<"attention", Len(heap) + 1>>, <<"quiet", Len(heap) + 2>>>>] \in Stampings(c)
<1> DEFINE h == heap \o NeedsAttention
           n == Len(heap)
           els == <<<<"attention", n + 1>>, <<"quiet", n + 2>>>>
           k == [heap |-> h, els |-> els]
           N == OnTab(sources, c)
           a == Fresh("attention", "none")
           q == Fresh("quiet", "none")
<1>1. heap \in Seq(HomePanels) /\ n \in Nat
    BY DEF Assembling
<1>2. {"attention", "quiet"} \subseteq N /\ {"attention", "quiet"} \subseteq Texts
    BY DEF OnTab, Texts, OfFirst
<1>3. AsDrawn(a) /\ AsDrawn(q) /\ a \in HomePanels /\ q \in HomePanels
  <2>1. AsDrawn(a) /\ AsDrawn(q)
      BY <1>2, FreshDrawn
  <2> QED
      BY <2>1 DEF AsDrawn
<1>4. h = heap \o <<a, q>>
    BY DEF NeedsAttention
<1> HIDE DEF h, N, a, q
<1>5. /\ h \in Seq(HomePanels) /\ Len(h) = n + 2 /\ h[n + 1] = a /\ h[n + 2] = q
      /\ \A o \in 1 .. n : h[o] = heap[o]
    BY <1>1, <1>3, <1>4
<1>6. /\ els \in Seq(N \X Nat) /\ Len(els) = 2 /\ els[1] = <<"attention", n + 1>> /\ els[2] = <<"quiet", n + 2>>
      /\ els[1][1] = "attention" /\ els[2][1] = "quiet" /\ els[1][2] = n + 1 /\ els[2][2] = n + 2
  <2>1. <<"attention", n + 1>> \in N \X Nat /\ <<"quiet", n + 2>> \in N \X Nat
      BY <1>1, <1>2
  <2> HIDE DEF n
  <2> QED
      BY <1>1, <2>1
<1> HIDE DEF els, n
<1>7. 1 .. 2 = {1, 2} /\ n + 1 # n + 2
    BY <1>1
<1>8. els \in Dicts(N)
  <2>1. "attention" # "quiet"
      OBVIOUS
  <2>2. Keyed(els)
    <3> SUFFICES ASSUME NEW i \in {1, 2}, NEW j \in {1, 2}, els[i][1] = els[j][1] \/ els[i][2] = els[j][2]
                 PROVE  i = j
        BY <1>6, <1>7 DEF Keyed
    <3> QED
        BY <1>6, <1>7, <2>1
  <2> QED
      BY <1>6, <2>2 DEF Dicts
<1>9. \A o \in n + 1 .. Len(h) : AsDrawn(h[o])
  <2>1. \A o \in n + 1 .. n + 2 : o = n + 1 \/ o = n + 2
      BY <1>1
  <2> QED
      BY <1>3, <1>5, <2>1
<1>10. \A i \in 1 .. Len(els) : els[i][2] \in n + 1 .. Len(h)
    BY <1>1, <1>5, <1>6, <1>7
<1>11. \A name \in {"attention", "quiet"} : \E i \in 1 .. Len(els) : els[i][1] = name
    BY <1>6, <1>7
<1>12. \A i \in 1 .. Len(els) : h[els[i][2]] = Fresh(els[i][1], "none")
    BY <1>5, <1>6, <1>7 DEF a, q
<1>13. k.heap = h /\ k.els = els /\ k \in [heap : Seq(HomePanels), els : Seq(N \X Nat)]
    BY <1>5, <1>6
<1> HIDE DEF k
<1>14. n + 2 <= Len(h)
    BY <1>1, <1>5
<1>15. Making(c, k)
    BY <1>5, <1>8, <1>9, <1>10, <1>11, <1>12, <1>13, <1>14 DEF Making, n, N
<1> QED
    BY <1>13, <1>15 DEF Stampings, k, h, els, n, N

LEMMA OneStamped ==
    ASSUME Assembling, NEW c \in ToSet(Systems), NEW name \in OnPage(sources, c), Known(name),
           NEW k \in Stampings(c)
    PROVE  /\ AsStamped(k, name) \in Stampings(c) /\ Has(AsStamped(k, name), name)
           /\ \A other \in OnPage(sources, c) : Has(k, other) => Has(AsStamped(k, name), other)
<1> DEFINE H == Len(heap)
           n == Len(k.heap)
           d == k.els
           p == Depicted(name)
           t == AsStamped(k, name)
           N == OnTab(sources, c)
           entry == <<name, n + 1>>
           new == Put(d, name, n + 1)
           h == Append(k.heap, p)
<1>1. Making(c, k)
    BY DEF Stampings
<1>2. /\ k.heap \in Seq(HomePanels) /\ n \in Nat /\ H \in Nat /\ H + 2 <= n
      /\ d \in Dicts(N) /\ d \in Seq(N \X Nat) /\ \A i \in 1 .. Len(d) : d[i][2] \in H + 1 .. n
  <2>1. heap \in Seq(HomePanels)
      BY DEF Assembling
  <2> QED
      BY <1>1, <2>1 DEF Making, Dicts
<1>3. PICK cell \in CellsOf(sources) : cell \in Cells /\ NameOf(cell) = name
  <2>1. PICK cell \in PageCells(sources, c) : NameOf(cell) = name
      BY DEF OnPage
  <2>2. cell \in CellsOf(sources) /\ cell \in Cells
      BY PagesAre DEF Assembling
  <2> QED
      BY <2>1, <2>2
<1>4. t = [heap |-> h, els |-> new] /\ AsDrawn(p)
  <2>1. H <= n
      BY <1>2
  <2>2. \A o \in 1 .. H : k.heap[o] = heap[o]
      BY <1>1 DEF Making
  <2>3. Stamp(NameOf(cell), k.heap, library).heap = h /\ Stamp(NameOf(cell), k.heap, library).object = n + 1 /\ AsDrawn(p)
      BY <1>2, <1>3, <2>1, <2>2, StampIs
  <2>4. t = [heap |-> Stamp(name, k.heap, library).heap, els |-> Put(d, name, Stamp(name, k.heap, library).object)]
      BY DEF AsStamped
  <2> HIDE DEF t, new, h, n, p, d
  <2> QED
      BY <1>3, <2>3, <2>4 DEF new
<1>5. name \in N /\ n + 1 \in Nat /\ p \in HomePanels
    BY <1>2, <1>4 DEF OnTab, AsDrawn
<1>6. \A i \in 1 .. Len(d) : d[i][2] # n + 1
    BY <1>2
<1> HIDE DEF t, N, h, d, n, p, H
<1>7. /\ new \in Dicts(N)
      /\ \A i \in 1 .. Len(new) : new[i] = entry \/ (i \in 1 .. Len(d) /\ d[i][1] # name /\ new[i] = d[i])
      /\ \E i \in 1 .. Len(new) : new[i] = entry
      /\ Len(d) <= Len(new) /\ \A i \in 1 .. Len(d) : new[i][1] = d[i][1]
  <2>1. d \in Dicts(N) /\ name \in N /\ n + 1 \in Nat
      BY <1>2, <1>5
  <2> DEFINE object == n + 1
  <2> HIDE DEF object
  <2>2. \A i \in 1 .. Len(d) : d[i][2] # object
      BY <1>6 DEF object
  <2>3. object \in Nat
      BY <2>1 DEF object
  <2>4. /\ Put(d, name, object) \in Dicts(N)
        /\ \A i \in 1 .. Len(Put(d, name, object)) :
              \/ Put(d, name, object)[i] = <<name, object>>
              \/ i \in 1 .. Len(d) /\ d[i][1] # name /\ Put(d, name, object)[i] = d[i]
        /\ \E i \in 1 .. Len(Put(d, name, object)) : Put(d, name, object)[i] = <<name, object>>
        /\ Len(d) <= Len(Put(d, name, object))
        /\ \A i \in 1 .. Len(d) : Put(d, name, object)[i][1] = d[i][1]
    <3> HIDE DEF entry
    <3> QED
        BY <2>1, <2>2, <2>3, PutKeeps, SMTT(60)
  <2> QED
      BY <2>4 DEF object
<1> HIDE DEF new
<1>8. h \in Seq(HomePanels) /\ Len(h) = n + 1 /\ h[n + 1] = p /\ \A o \in 1 .. n : h[o] = k.heap[o]
    BY <1>2, <1>5 DEF h, n
<1>9. t.heap = h /\ t.els = new /\ entry[1] = name /\ entry[2] = n + 1 /\ new \in Seq(N \X Nat) /\ Len(new) \in Nat /\ Len(d) \in Nat
    BY <1>2, <1>4, <1>7 DEF Dicts
<1>10. \A i \in 1 .. Len(d) : /\ k.heap[d[i][2]] = h[d[i][2]]
                              /\ d[i][1] # name => i \in 1 .. Len(new) /\ new[i] = d[i]
  <2> TAKE i \in 1 .. Len(d)
  <2>1. d[i][2] \in 1 .. n
      BY <1>2
  <2>2. i \in 1 .. Len(new) /\ new[i][1] = d[i][1]
      BY <1>7, <1>9
  <2>3. d[i][1] # name => new[i] # entry
      BY <1>9, <2>2
  <2> QED
      BY <1>7, <1>8, <2>1, <2>2, <2>3
<1>11. t \in [heap : Seq(HomePanels), els : Seq(N \X Nat)]
    BY <1>4, <1>8, <1>9
<1>12. Making(c, t)
  <2>1. H + 2 <= Len(h) /\ \A o \in 1 .. H : o \in 1 .. n
      BY <1>2, <1>8
  <2>2. \A o \in 1 .. H : h[o] = heap[o]
      BY <1>1, <1>8, <2>1 DEF Making, H
  <2>3. \A o \in H + 1 .. Len(h) : AsDrawn(h[o])
    <3> TAKE o \in H + 1 .. Len(h)
    <3>1. o = n + 1 \/ (o \in H + 1 .. n /\ o \in 1 .. n)
        BY <1>2, <1>8
    <3>2. \A x \in H + 1 .. n : AsDrawn(k.heap[x])
        BY <1>1 DEF Making, H, n
    <3> QED
        BY <1>4, <1>8, <3>1, <3>2
  <2>4. \A i \in 1 .. Len(new) : new[i][2] \in H + 1 .. Len(h)
    <3> TAKE i \in 1 .. Len(new)
    <3>1. n + 1 \in H + 1 .. Len(h) /\ \A x \in H + 1 .. n : x \in H + 1 .. Len(h)
        BY <1>2, <1>8
    <3> QED
        BY <1>2, <1>7, <1>9, <3>1
  <2>5. \A x \in {"attention", "quiet"} : \E i \in 1 .. Len(new) : new[i][1] = x
    <3> TAKE x \in {"attention", "quiet"}
    <3>1. PICK i \in 1 .. Len(d) : d[i][1] = x
        BY <1>1 DEF Making, d
    <3>2. i \in 1 .. Len(new) /\ new[i][1] = x
        BY <1>7, <1>9, <3>1
    <3> QED
        BY <3>2
  <2>6. \A i \in 1 .. Len(new) :
            \/ new[i][1] \in OnPage(sources, c) /\ h[new[i][2]] = Depicted(new[i][1])
            \/ h[new[i][2]] = Fresh(new[i][1], "none")
    <3> TAKE i \in 1 .. Len(new)
    <3>1. CASE new[i] = entry
        BY <1>8, <1>9, <3>1 DEF p
    <3>2. CASE i \in 1 .. Len(d) /\ new[i] = d[i]
      <4>1. \/ d[i][1] \in OnPage(sources, c) /\ k.heap[d[i][2]] = Depicted(d[i][1])
            \/ k.heap[d[i][2]] = Fresh(d[i][1], "none")
          BY <1>1, <3>2 DEF Making, d
      <4>2. k.heap[d[i][2]] = h[d[i][2]]
          BY <1>10, <3>2
      <4> QED
          BY <3>2, <4>1, <4>2
    <3> QED
        BY <1>7, <3>1, <3>2
  <2> QED
      BY <1>7, <1>8, <1>9, <2>1, <2>2, <2>3, <2>4, <2>5, <2>6 DEF Making, H, N
<1>13. Has(t, name)
  <2>1. PICK i \in 1 .. Len(new) : new[i] = entry
      BY <1>7
  <2>2. new[i][1] = name /\ h[new[i][2]] = p
      BY <1>8, <1>9, <2>1
  <2> QED
      BY <1>9, <2>2 DEF Has, p
<1>14. ASSUME NEW other \in OnPage(sources, c), Has(k, other), other # name
       PROVE  Has(t, other)
  <2>1. PICK i \in 1 .. Len(d) : d[i][1] = other /\ k.heap[d[i][2]] = Depicted(other)
      BY <1>14 DEF Has, d
  <2>2. i \in 1 .. Len(new) /\ new[i] = d[i] /\ h[d[i][2]] = Depicted(other)
      BY <1>10, <1>14, <2>1
  <2> QED
      BY <1>9, <2>1, <2>2 DEF Has
<1>15. t \in Stampings(c)
    BY <1>11, <1>12 DEF Stampings, N
<1> QED
    BY <1>13, <1>14, <1>15 DEF t

LEMMA StampedIs ==
    ASSUME Assembling, NEW c \in ToSet(Systems), \A i \in 1 .. Len(PageNames(c)) : Known(PageNames(c)[i])
    PROVE  Stamped(c) \in Stampings(c) /\ \A name \in OnPage(sources, c) : Has(Stamped(c), name)
<1> DEFINE names == PageNames(c)
           n == Len(names)
           first == [heap |-> heap \o NeedsAttention,
                     els |-> <<<<"attention", Len(heap) + 1>>, <<"quiet", Len(heap) + 2>>>>]
           With(s, name) == LET one == Stamp(name, s.heap, library)
                            IN [heap |-> one.heap, els |-> Put(s.els, name, one.object)]
           Body(f, i) == IF i = 0 THEN first ELSE With(f[i - 1], names[i])
           All == Stampings(c)
           step == [i \in 1 .. n |-> [s \in All |-> AsStamped(s, names[i])]]
           upTo == CHOOSE f : f = [i \in 0 .. n |-> Body(f, i)]
<1>1. sources \in Sources /\ shared = sources.rows
    BY DEF Assembling
<1>2. /\ names \in Seq(OnPage(sources, c)) /\ \A name \in OnPage(sources, c) : \E i \in 1 .. Len(names) : names[i] = name
    BY <1>1, PageNamesAre, Zenon
<1> HIDE DEF names
<1>3. n \in Nat /\ \A i \in 1 .. n : names[i] \in OnPage(sources, c) /\ Known(names[i])
    BY <1>2 DEF names
<1>4. first \in All
    BY FirstMade
<1> HIDE DEF first
<1>5. \A i \in 1 .. n : \A s \in All : AsStamped(s, names[i]) \in All
  <2> TAKE i \in 1 .. n
  <2> TAKE s \in All
  <2> QED
      BY <1>3, OneStamped
<1>6. step \in [1 .. n -> [All -> All]]
  <2> HIDE DEF All
  <2> QED
      BY <1>5
<1>7. \A s, name : With(s, name) = AsStamped(s, name)
    BY DEF AsStamped
<1> HIDE DEF step, All, n, With
<1>8. PICK f \in [0 .. n -> All] : Takes(f, n, first, step)
    BY <1>3, <1>4, <1>6, Recursion
<1>9. \A i \in 0 .. n : f[i] = Body(f, i)
  <2>1. f[0] = first /\ \A i \in 1 .. n : f[i] = step[i][f[i - 1]]
      BY <1>8 DEF Takes
  <2>2. ASSUME NEW i \in 1 .. n
        PROVE  f[i] = Body(f, i)
    <3>1. i - 1 \in 0 .. n /\ i # 0
        BY <1>3
    <3>2. f[i - 1] \in All
        BY <1>8, <3>1
    <3>3. step[i][f[i - 1]] = AsStamped(f[i - 1], names[i])
        BY <3>2 DEF step
    <3> QED
        BY <1>7, <2>1, <3>1, <3>3
  <2>3. f[0] = Body(f, 0)
      BY <2>1
  <2>4. \A i \in 0 .. n : i = 0 \/ i \in 1 .. n
      BY <1>3
  <2> HIDE DEF Body
  <2> QED
      BY <2>2, <2>3, <2>4, Zenon
<1>10. f = [i \in 0 .. n |-> Body(f, i)]
    BY <1>8, <1>9
<1> HIDE DEF Body
<1>11. upTo = [i \in 0 .. n |-> Body(upTo, i)]
    BY <1>10
<1> USE DEF Body
<1>12. Stamped(c) = upTo[n]
    BY DEF Stamped, n, names, With, first
<1> HIDE DEF upTo
<1>13. upTo[0] = first /\ \A i \in 1 .. n : upTo[i] = AsStamped(upTo[i - 1], names[i])
  <2>1. 0 \in 0 .. n
      BY <1>3
  <2>2. upTo[0] = Body(upTo, 0)
      BY <1>11, <2>1
  <2>3. ASSUME NEW i \in 1 .. n
        PROVE  upTo[i] = Body(upTo, i) /\ i # 0
    <3>1. i \in 0 .. n /\ i # 0
        BY <1>3
    <3> QED
        BY <1>11, <3>1
  <2> QED
      BY <1>7, <2>2, <2>3
<1> HIDE DEF Body
<1> DEFINE Grown(s, i) == s \in All /\ \A k \in 1 .. i : Has(s, names[k])
           G == {i \in 0 .. n : Grown(upTo[i], i)}
<1>14. 0 \in G
  <2>1. Grown(first, 0) /\ 0 \in 0 .. n
      BY <1>3, <1>4
  <2> HIDE DEF Grown
  <2> QED
      BY <1>13, <2>1
<1>15. ASSUME NEW i \in 1 .. n, i - 1 \in G
       PROVE  i \in G
  <2> DEFINE s == upTo[i - 1]
             t == upTo[i]
  <2>1. Grown(s, i - 1)
      BY <1>15
  <2>2. t = AsStamped(s, names[i]) /\ names[i] \in OnPage(sources, c) /\ Known(names[i])
      BY <1>3, <1>13
  <2> HIDE DEF s, t
  <2>3. s \in Stampings(c)
      BY <2>1 DEF All
  <2>4. /\ t \in Stampings(c) /\ Has(t, names[i])
        /\ \A other \in OnPage(sources, c) : Has(s, other) => Has(t, other)
      BY <2>2, <2>3, OneStamped
  <2>5. \A k \in 1 .. i : Has(t, names[k])
    <3> TAKE k \in 1 .. i
    <3>1. CASE k = i
        BY <2>4, <3>1
    <3>2. CASE k # i
      <4>1. k \in 1 .. i - 1 /\ k \in 1 .. n
          BY <1>3, <3>2
      <4>2. Has(s, names[k])
          BY <2>1, <4>1
      <4> QED
          BY <1>3, <2>4, <4>1, <4>2
    <3> QED
        BY <3>1, <3>2
  <2>6. Grown(t, i) /\ i \in 0 .. n
      BY <1>3, <2>4, <2>5 DEF All
  <2> HIDE DEF Grown
  <2> QED
      BY <2>6 DEF t
<1>16. n \in G
  <2> HIDE DEF G
  <2>1. 0 .. n \subseteq G
      BY <1>3, <1>14, <1>15, UpTo
  <2> QED
      BY <1>3, <2>1
<1>17. Grown(Stamped(c), n)
    BY <1>12, <1>16
<1> HIDE DEF G
<1>18. ASSUME NEW name \in OnPage(sources, c)
       PROVE  Has(Stamped(c), name)
  <2>1. PICK i \in 1 .. n : names[i] = name
      BY <1>2 DEF n
  <2> QED
      BY <1>17, <2>1
<1> QED
    BY <1>17, <1>18 DEF All

-----------------------------------------------------------------------------
(* HomeDashboard.  The tabs, and what an element shows.                    *)

ElementNames ==
    OfFirst \cup UNION {UNION {{Prefix(c, n) : n \in Called(s)} : c \in ToSet(Systems)} : s \in Sources}

SystemTab(s, c) ==
    TabOf(c, <<RowOf(<<Prefix(c, "attention"), Prefix(c, "quiet")>>, "none", NoText)>>
                 \o [i \in DOMAIN s.pages[c] |-> RowFor(c, s.rows[s.pages[c][i]])])
TabsOf(s, n) == [t \in 1 .. n |-> IF t = 1 THEN FirstTab ELSE SystemTab(s, Systems[t - 1])]

LEMMA SystemsAre ==
    /\ Len(Systems) \in Nat /\ DOMAIN Systems = 1 .. Len(Systems)
    /\ \A t \in 1 .. Len(Systems) : Systems[t] \in ToSet(Systems) /\ Systems[t] \notin {"none", "Everything"}
    /\ \A t, u \in 1 .. Len(Systems) : Systems[t] = Systems[u] => t = u
    /\ \A t \in 1 .. Len(Systems) : Allowed[Systems[t]] \in SUBSET Strays
    /\ \A c \in ToSet(Systems) : \E t \in 1 .. Len(Systems) : c = Systems[t]
<1>1. Systems \in Seq(STRING)
    BY HomeAssumption
<1>2. DOMAIN Systems = 1 .. Len(Systems) /\ Len(Systems) \in Nat
    BY <1>1
<1>3. \A t \in 1 .. Len(Systems) : Systems[t] \in ToSet(Systems)
    BY <1>2 DEF ToSet
<1>4. \A t \in 1 .. Len(Systems) : Systems[t] \notin {"none", "Everything"}
    BY <1>3, HomeAssumption
<1>5. \A t, u \in 1 .. Len(Systems) : Systems[t] = Systems[u] => t = u
    BY <1>2, HomeAssumption
<1>6. \A t \in 1 .. Len(Systems) : Allowed[Systems[t]] \in SUBSET Strays
  <2>1. Allowed \in [ToSet(Systems) -> SUBSET Strays]
      BY HomeAssumption
  <2> QED
      BY <1>3, <2>1
<1>7. \A c \in ToSet(Systems) : \E t \in 1 .. Len(Systems) : c = Systems[t]
    BY <1>2 DEF ToSet
<1> QED
    BY <1>2, <1>3, <1>4, <1>5, <1>6, <1>7

LEMMA TabsOfAre == ASSUME NEW s \in Sources, NEW n \in Nat, n <= Len(Systems) + 1
    PROVE  /\ Len(TabsOf(s, n)) = n /\ DOMAIN TabsOf(s, n) = 1 .. n
           /\ 1 <= n => TabsOf(s, n)[1] = FirstTab
           /\ \A t \in 2 .. n : TabsOf(s, n)[t] = SystemTab(s, Systems[t - 1])
           /\ 1 <= n => Append(TabsOf(s, n), SystemTab(s, Systems[n])) = TabsOf(s, n + 1)
<1> DEFINE All == {FirstTab} \cup {SystemTab(s, Systems[t]) : t \in Nat}
           tab(t) == IF t = 1 THEN FirstTab ELSE SystemTab(s, Systems[t - 1])
           its == TabsOf(s, n)
           more == TabsOf(s, n + 1)
<1>1. \A t \in Nat : t >= 1 => tab(t) \in All
  <2> TAKE t \in Nat
  <2> HAVE t >= 1
  <2>1. t - 1 \in Nat
      OBVIOUS
  <2> QED
      BY <2>1
<1>2. its = [t \in 1 .. n |-> tab(t)] /\ more = [t \in 1 .. n + 1 |-> tab(t)]
    BY DEF TabsOf
<1>3. tab(1) = FirstTab /\ \A t \in Nat : t >= 2 => tab(t) = SystemTab(s, Systems[t - 1])
    OBVIOUS
<1> HIDE DEF All, tab, its, more
<1>4. its \in Seq(All) /\ Len(its) = n /\ DOMAIN its = 1 .. n /\ more \in Seq(All) /\ Len(more) = n + 1
  <2>1. its \in [1 .. n -> All] /\ more \in [1 .. n + 1 -> All]
      BY <1>1, <1>2
  <2> QED
      BY <2>1
<1>5. 1 <= n => its[1] = FirstTab
    BY <1>2, <1>3
<1>6. \A t \in 2 .. n : its[t] = SystemTab(s, Systems[t - 1])
  <2> TAKE t \in 2 .. n
  <2>1. t \in 1 .. n /\ t \in Nat /\ t >= 2
      OBVIOUS
  <2> QED
      BY <1>2, <1>3, <2>1
<1>7. ASSUME 1 <= n
      PROVE  Append(its, SystemTab(s, Systems[n])) = more
  <2> DEFINE x == SystemTab(s, Systems[n])
             a == Append(its, x)
  <2>1. more[n + 1] = x /\ x \in All
    <3>1. n + 1 \in 1 .. n + 1 /\ n + 1 \in Nat /\ n + 1 >= 2 /\ (n + 1) - 1 = n
        BY <1>7
    <3>2. more[n + 1] = tab(n + 1) /\ tab(n + 1) \in All
        BY <1>1, <1>2, <3>1
    <3> QED
        BY <1>3, <3>1, <3>2
  <2> HIDE DEF x
  <2>2. a \in Seq(All) /\ Len(a) = n + 1 /\ a[n + 1] = x /\ \A t \in 1 .. n : a[t] = its[t]
      BY <1>4, <2>1
  <2>3. \A t \in 1 .. n : its[t] = more[t]
      BY <1>2
  <2> HIDE DEF a
  <2>4. \A t \in 1 .. n + 1 : a[t] = more[t]
    <3>1. \A t \in 1 .. n + 1 : t = n + 1 \/ t \in 1 .. n
        OBVIOUS
    <3> QED
        BY <2>1, <2>2, <2>3, <3>1
  <2>5. a = more
      BY <1>4, <2>2, <2>4
  <2> QED
      BY <2>5 DEF a, x
<1> QED
    BY <1>4, <1>5, <1>6, <1>7 DEF its, more

\* A tab's rows: the list of what needs attention, and one for each row of the page.
LEMMA SystemTabIs == ASSUME NEW s \in Sources, NEW c \in ToSet(Systems)
    PROVE  LET rows0 == SystemTab(s, c).rows
               page == s.pages[c]
           IN /\ SystemTab(s, c).of = c
              /\ Len(rows0) = Len(page) + 1 /\ DOMAIN rows0 = 1 .. Len(page) + 1 /\ Len(page) \in Nat
              /\ rows0[1].names = <<Prefix(c, "attention"), Prefix(c, "quiet")>>
              /\ \A i \in 1 .. Len(page) : rows0[i + 1] = RowFor(c, s.rows[page[i]])
              /\ \A r \in DOMAIN rows0 : \A name \in ToSet(rows0[r].names) :
                    \E n \in OnTab(s, c) : name = Prefix(c, n)
<1> DEFINE rows0 == SystemTab(s, c).rows
           page == s.pages[c]
           first == RowOf(<<Prefix(c, "attention"), Prefix(c, "quiet")>>, "none", NoText)
           row(i) == RowFor(c, s.rows[page[i]])
           others == [i \in DOMAIN page |-> row(i)]
           All == {first} \cup {row(i) : i \in 1 .. Len(page)}
<1>1. Len(page) \in Nat /\ DOMAIN page = 1 .. Len(page)
  <2>1. page \in Seq(DOMAIN s.rows)
      BY PagesAre
  <2> QED
      BY <2>1
<1>2. SystemTab(s, c).of = c /\ rows0 = <<first>> \o others
    BY DEF SystemTab, TabOf
<1>3. first.names = <<Prefix(c, "attention"), Prefix(c, "quiet")>>
    BY DEF RowOf
<1>4. ASSUME NEW i \in 1 .. Len(page)
      PROVE  \A name \in ToSet(row(i).names) : \E n \in OnTab(s, c) : name = Prefix(c, n)
  <2> DEFINE cells == s.rows[page[i]].cells
             its == [j \in DOMAIN cells |-> Prefix(c, NameOf(cells[j]))]
  <2>1. row(i).names = its
      BY DEF RowFor, RowOf
  <2>2. cells \in Seq(Cells) /\ DOMAIN cells = 1 .. Len(cells) /\ Len(cells) \in Nat
    <3>1. page[i] \in DOMAIN s.rows
        BY PagesAre
    <3>2. cells \in Seq(Cells)
        BY <3>1, PagesAre
    <3> HIDE DEF cells
    <3> QED
        BY <3>2
  <2>3. \A j \in DOMAIN cells : NameOf(cells[j]) \in OnTab(s, c)
    <3> TAKE j \in DOMAIN cells
    <3>1. cells[j] \in ToSet(cells)
        BY DEF ToSet
    <3>2. cells[j] \in PageCells(s, c)
        BY <3>1 DEF PageCells
    <3> QED
        BY <3>2 DEF OnTab, OnPage
  <2>4. ASSUME NEW name \in ToSet(its)
        PROVE  \E n \in OnTab(s, c) : name = Prefix(c, n)
    <3>1. PICK j \in DOMAIN cells : name = Prefix(c, NameOf(cells[j]))
        BY DEF ToSet
    <3> QED
        BY <2>3, <3>1
  <2> QED
      BY <2>1, <2>4
<1>5. \A name \in ToSet(first.names) : \E n \in OnTab(s, c) : name = Prefix(c, n)
  <2>1. ToSet(first.names) = {Prefix(c, "attention"), Prefix(c, "quiet")}
      BY <1>3 DEF ToSet
  <2>2. {"attention", "quiet"} \subseteq OnTab(s, c)
      BY DEF OnTab
  <2> QED
      BY <2>1, <2>2
<1> HIDE DEF rows0, page, first, row
<1>6. others \in Seq(All) /\ Len(others) = Len(page) /\ \A i \in 1 .. Len(page) : others[i] = row(i)
  <2>1. others \in [1 .. Len(page) -> All]
      BY <1>1
  <2> HIDE DEF All
  <2> QED
      BY <1>1, <2>1
<1> HIDE DEF others
<1>7. /\ Len(rows0) = Len(page) + 1 /\ DOMAIN rows0 = 1 .. Len(page) + 1 /\ rows0[1] = first
      /\ \A i \in 1 .. Len(page) : rows0[i + 1] = row(i)
  <2>1. first \in All
      OBVIOUS
  <2> HIDE DEF All
  <2>2. rows0 \in Seq(All) /\ Len(rows0) = 1 + Len(page)
      BY <1>1, <1>2, <1>6, <2>1
  <2>3. rows0[1] = first
      BY <1>1, <1>2, <1>6, <2>1
  <2>4. \A i \in 1 .. Len(page) : rows0[i + 1] = others[i]
      BY <1>1, <1>2, <1>6, <2>1
  <2> QED
      BY <1>1, <1>6, <2>2, <2>3, <2>4
<1>8. \A r \in DOMAIN rows0 : \A name \in ToSet(rows0[r].names) : \E n \in OnTab(s, c) : name = Prefix(c, n)
  <2> SUFFICES ASSUME NEW r \in 1 .. Len(page) + 1
               PROVE  \A name \in ToSet(rows0[r].names) : \E n \in OnTab(s, c) : name = Prefix(c, n)
      BY <1>7
  <2>1. CASE r = 1
      BY <1>5, <1>7, <2>1
  <2>2. CASE r # 1
    <3>1. r - 1 \in 1 .. Len(page) /\ (r - 1) + 1 = r
        BY <1>1, <2>2
    <3>2. rows0[r] = row(r - 1)
        BY <1>7, <3>1
    <3> QED
        BY <1>4, <3>1, <3>2
  <2> QED
      BY <2>1, <2>2
<1> QED
    BY <1>1, <1>2, <1>3, <1>7, <1>8 DEF rows0, page, first, row

LEMMA FirstTabIs ==
    /\ FirstTab.of = "Everything"
    /\ \A r \in DOMAIN FirstTab.rows : ToSet(FirstTab.rows[r].names) \subseteq OfFirst
<1> DEFINE keys == OverviewKeys
           rows0 == FirstTab.rows
<1>1. keys \in Seq({keys[i] : i \in 1 .. 10}) /\ Len(keys) = 10 /\ DOMAIN keys = 1 .. 10
    BY DEF OverviewKeys
<1>2. \A i \in 1 .. 10 : keys[i] \in OfFirst
    BY <1>1 DEF OfFirst, ToSet
<1>3. keys[1] = "board" /\ keys[2] = "strip" /\ keys[3] = "reach" /\ keys[4] = "inventory"
    BY DEF OverviewKeys
<1> HIDE DEF keys
<1>4. {"board", "strip", "reach", "inventory", "attention", "quiet"} \subseteq OfFirst
  <2>1. "board" \in OfFirst /\ "strip" \in OfFirst /\ "reach" \in OfFirst /\ "inventory" \in OfFirst
      BY <1>2, <1>3
  <2>2. "attention" \in OfFirst /\ "quiet" \in OfFirst
      BY DEF OfFirst
  <2> QED
      BY <2>1, <2>2
<1>5. ToSet(Watch) \subseteq OfFirst
  <2>1. Watch = [i \in 1 .. 6 |-> keys[i + 4]]
    <3>1. Watch = SubSeq(keys, 5, 10)
        BY DEF Watch, keys
    <3>2. /\ SubSeq(keys, 5, 10) \in Seq({keys[i] : i \in 1 .. 10}) /\ Len(SubSeq(keys, 5, 10)) = 6
          /\ \A i \in 1 .. 6 : SubSeq(keys, 5, 10)[i] = keys[i + 4]
        BY <1>1
    <3> QED
        BY <3>1, <3>2
  <2>2. \A i \in 1 .. 6 : keys[i + 4] \in OfFirst
      BY <1>2
  <2> QED
      BY <2>1, <2>2 DEF ToSet
<1>6. /\ FirstTab.of = "Everything"
      /\ rows0 = <<RowOf(<<"board", "strip">>, "none", NoText), RowOf(<<"attention", "quiet">>, "none", NoText),
                   RowOf(<<"reach">>, "none", "$probe"), RowOf(Watch, "none", NoText),
                   RowOf(<<"inventory">>, "none", NoText)>>
    BY DEF FirstTab, TabOf
<1> HIDE DEF rows0
<1>7. /\ DOMAIN rows0 = 1 .. 5
      /\ rows0[1].names = <<"board", "strip">> /\ rows0[2].names = <<"attention", "quiet">>
      /\ rows0[3].names = <<"reach">> /\ rows0[4].names = Watch /\ rows0[5].names = <<"inventory">>
    BY <1>6 DEF RowOf
<1>8. /\ ToSet(<<"board", "strip">>) = {"board", "strip"} /\ ToSet(<<"attention", "quiet">>) = {"attention", "quiet"}
      /\ ToSet(<<"reach">>) = {"reach"} /\ ToSet(<<"inventory">>) = {"inventory"}
    BY DEF ToSet
<1>9. \A r \in 1 .. 5 : ToSet(rows0[r].names) \subseteq OfFirst
  <2>1. \A r \in 1 .. 5 : r = 1 \/ r = 2 \/ r = 3 \/ r = 4 \/ r = 5
      OBVIOUS
  <2>2. /\ ToSet(rows0[1].names) \subseteq OfFirst /\ ToSet(rows0[2].names) \subseteq OfFirst
        /\ ToSet(rows0[3].names) \subseteq OfFirst /\ ToSet(rows0[4].names) \subseteq OfFirst
        /\ ToSet(rows0[5].names) \subseteq OfFirst
      BY <1>4, <1>5, <1>7, <1>8
  <2> QED
      BY <2>1, <2>2
<1> QED
    BY <1>6, <1>7, <1>9 DEF rows0

\* The panels of the first tab are called what they are, each once.
FirstKeys ==
    [i \in 1 .. 12 |-> IF i <= 10 THEN OverviewKeys[i] ELSE IF i = 11 THEN "attention" ELSE "quiet"]

LEMMA FirstKeysAre ==
    /\ FirstKeys \in Seq(OfFirst) /\ Len(FirstKeys) = 12 /\ \A i \in 1 .. 12 : FirstKeys[i] \in OfFirst
    /\ \A i, j \in 1 .. 12 : FirstKeys[i] = FirstKeys[j] => i = j
    /\ \A name \in OfFirst : \E i \in 1 .. 12 : FirstKeys[i] = name
<1> DEFINE keys == OverviewKeys
<1>1. FirstKeys = [i \in 1 .. 12 |-> IF i <= 10 THEN keys[i] ELSE IF i = 11 THEN "attention" ELSE "quiet"]
    BY DEF FirstKeys
<1>2. ToSet(keys) = {keys[i] : i \in 1 .. 10}
    BY DEF ToSet, OverviewKeys
<1>3. \A i, j \in 1 .. 10 : keys[i] = keys[j] => i = j
    BY DEF OverviewKeys
<1>4. \A i \in 1 .. 10 : keys[i] # "attention" /\ keys[i] # "quiet"
    BY DEF OverviewKeys
<1> HIDE DEF keys
<1>5. (\A i \in 1 .. 10 : FirstKeys[i] = keys[i]) /\ FirstKeys[11] = "attention" /\ FirstKeys[12] = "quiet"
    BY <1>1
<1>6. \A i \in 1 .. 12 : i \in 1 .. 10 \/ i = 11 \/ i = 12
    OBVIOUS
<1>7. OfFirst = {keys[i] : i \in 1 .. 10} \cup {"attention", "quiet"}
    BY <1>2 DEF OfFirst, keys
<1>8. \A i \in 1 .. 12 : FirstKeys[i] \in OfFirst
    BY <1>5, <1>6, <1>7
<1>9. \A i, j \in 1 .. 12 : FirstKeys[i] = FirstKeys[j] => i = j
  <2>1. "attention" # "quiet"
      OBVIOUS
  <2> QED
      BY <1>3, <1>4, <1>5, <1>6, <2>1
<1>10. \A name \in OfFirst : \E i \in 1 .. 12 : FirstKeys[i] = name
  <2>1. 11 \in 1 .. 12 /\ 12 \in 1 .. 12 /\ \A i \in 1 .. 10 : i \in 1 .. 12
      OBVIOUS
  <2> QED
      BY <1>5, <1>7, <2>1
<1>11. FirstKeys \in Seq(OfFirst) /\ Len(FirstKeys) = 12
  <2>1. FirstKeys \in [1 .. 12 -> OfFirst]
      BY <1>1, <1>8
  <2> DEFINE n == 12
  <2>2. n \in Nat /\ FirstKeys \in [1 .. n -> OfFirst]
      BY <2>1
  <2> HIDE DEF FirstKeys, n
  <2>3. FirstKeys \in Seq(OfFirst) /\ Len(FirstKeys) = n
      BY <2>2, SeqFrom, ZenonT(30)
  <2> QED
      BY <2>3 DEF n
<1> QED
    BY <1>8, <1>9, <1>10, <1>11

\* A panel of a system's tab: as its page asks for it, without the system's name.
IsOwn(c, n, p) ==
    /\ p.links = {} /\ p.vars \subseteq Allowed[c]
    /\ p.names \in {{}, {"none"}, {p.of}} /\ c \notin p.names /\ (p.names = {} => p.of = c)
    /\ \A cell \in PageCells(sources, c) : NameOf(cell) = n => Alike(p, NamedIn(cell))

ShowsIts(name, p) ==
    \/ name \in OfFirst /\ p.of = "none" /\ p.names = {"none"}
    \/ \E t \in 2 .. Len(tabs) : \E n \in OnTab(sources, Systems[t - 1]) :
          name = Prefix(Systems[t - 1], n) /\ IsOwn(Systems[t - 1], n, p)
HasElement(name) == \E i \in 1 .. Len(elements) : elements[i][1] = name

HomeTypes ==
    /\ sources \in Sources
    /\ stage \in {"idle", "systems", "number", "checks"}
    /\ checkSays \in {"none", "failed", "written", "fresh", "outdated"}
    /\ stage # "idle" => checkSays = "none"
    /\ heap \in Seq(HomePanels) /\ elements \in Dicts(ElementNames)
    /\ \A i \in 1 .. Len(elements) : elements[i][2] \in 1 .. Len(heap)
    /\ \E s \in Sources : \E n \in 0 .. Len(Systems) + 1 : tabs = TabsOf(s, n)

\* The tabs made so far, and the elements they refer to.
TabsMade ==
    /\ shared = sources.rows
    /\ Len(tabs) \in 1 .. Len(Systems) + 1 /\ tabs = TabsOf(sources, Len(tabs))
    /\ stage # "systems" => Len(tabs) = Len(Systems) + 1
    /\ \A i \in 1 .. Len(elements) : ShowsIts(elements[i][1], heap[elements[i][2]])
    /\ \A name \in OfFirst : HasElement(name)
    /\ \A t \in 2 .. Len(tabs) : \A n \in OnTab(sources, Systems[t - 1]) : HasElement(Prefix(Systems[t - 1], n))
IdsRun == \A i \in 1 .. Len(elements) : heap[elements[i][2]].id = i

HomeInv ==
    /\ HomeTypes
    /\ (stage # "idle" \/ Done) => TabsMade
    /\ stage = "systems" => Assembling
    /\ (stage = "checks" \/ Done) => IdsRun

LEMMA HomeStarts == HomeInit => HomeInv
<1> SUFFICES ASSUME HomeInit
             PROVE  HomeInv
    OBVIOUS
<1>1. heap = <<>> /\ elements = <<>> /\ tabs = <<>> /\ sources \in Sources /\ stage = "idle" /\ checkSays = "none"
    BY DEF HomeInit
<1>2. elements \in Dicts(ElementNames) /\ Len(elements) = 0 /\ heap \in Seq(HomePanels)
  <2>1. elements \in Seq(ElementNames \X Nat) /\ Len(elements) = 0
      BY <1>1
  <2> QED
      BY <1>1, <2>1 DEF Dicts, Keyed
<1>3. tabs = TabsOf(sources, 0) /\ 0 \in 0 .. Len(Systems) + 1
  <2>1. 1 .. 0 = {}
      OBVIOUS
  <2>2. TabsOf(sources, 0) = <<>>
      BY <2>1 DEF TabsOf
  <2> QED
      BY <1>1, <2>2, SystemsAre
<1>4. HomeTypes
    BY <1>1, <1>2, <1>3 DEF HomeTypes
<1> QED
    BY <1>1, <1>4 DEF HomeInv, Done

LEMMA FirstPanels ==
    LET overview == [i \in DOMAIN OverviewKeys |-> Fresh(OverviewKeys[i], "none")] \o NeedsAttention
        linked == [i \in DOMAIN overview |->
                     IF overview[i].key \in {"board", "attention"}
                     THEN [overview[i] EXCEPT !.links = {"open system"}] ELSE overview[i]]
    IN /\ DOMAIN linked = 1 .. 12 /\ linked \in Seq(HomePanels) /\ Len(linked) = 12
       /\ \A i \in 1 .. 12 : linked[i].key = FirstKeys[i] /\ linked[i].of = "none" /\ linked[i].names = {"none"}
<1> DEFINE overview == [i \in DOMAIN OverviewKeys |-> Fresh(OverviewKeys[i], "none")] \o NeedsAttention
           linked == [i \in DOMAIN overview |->
                        IF overview[i].key \in {"board", "attention"}
                        THEN [overview[i] EXCEPT !.links = {"open system"}] ELSE overview[i]]
           keys == OverviewKeys
           ten == [i \in DOMAIN keys |-> Fresh(keys[i], "none")]
           a == Fresh("attention", "none")
           q == Fresh("quiet", "none")
           All == {Fresh(name, "none") : name \in OfFirst}
<1>1. /\ FirstKeys \in Seq(OfFirst)
      /\ (\A i \in 1 .. 10 : FirstKeys[i] = keys[i]) /\ FirstKeys[11] = "attention" /\ FirstKeys[12] = "quiet"
  <2>1. FirstKeys \in Seq(OfFirst)
      BY FirstKeysAre
  <2> HIDE DEF keys
  <2>2. FirstKeys = [i \in 1 .. 12 |-> IF i <= 10 THEN keys[i] ELSE IF i = 11 THEN "attention" ELSE "quiet"]
      BY DEF FirstKeys, keys
  <2> QED
      BY <2>1, <2>2
<1>2. DOMAIN keys = 1 .. 10
    BY DEF OverviewKeys
<1>3. overview = ten \o <<a, q>>
    BY DEF NeedsAttention
<1>4. /\ \A i \in 1 .. 10 : Fresh(keys[i], "none") \in All
      /\ a \in All /\ q \in All
  <2>1. \A i \in 1 .. 12 : FirstKeys[i] \in OfFirst
      BY FirstKeysAre
  <2>2. \A i \in 1 .. 10 : keys[i] \in OfFirst
    <3>1. \A i \in 1 .. 10 : i \in 1 .. 12
        OBVIOUS
    <3> HIDE DEF keys
    <3> QED
        BY <1>1, <2>1, <3>1
  <2>3. "attention" \in OfFirst /\ "quiet" \in OfFirst
      BY DEF OfFirst
  <2> HIDE DEF keys
  <2> QED
      BY <2>2, <2>3
<1> HIDE DEF overview, keys, a, q
<1>5. ten \in Seq(All) /\ Len(ten) = 10 /\ \A i \in 1 .. 10 : ten[i] = Fresh(keys[i], "none")
  <2> DEFINE n == 10
  <2>1. n \in Nat /\ ten \in [1 .. n -> All]
    <3> HIDE DEF All
    <3> QED
        BY <1>2, <1>4
  <2>2. \A i \in 1 .. n : ten[i] = Fresh(keys[i], "none")
      BY <1>2
  <2> HIDE DEF ten, n, All
  <2>3. ten \in Seq(All) /\ Len(ten) = n
      BY <2>1
  <2> QED
      BY <2>2, <2>3 DEF n
<1> HIDE DEF ten, All
<1>6. /\ overview \in Seq(All) /\ Len(overview) = 12 /\ DOMAIN overview = 1 .. 12
      /\ (\A i \in 1 .. 10 : overview[i] = ten[i]) /\ overview[11] = a /\ overview[12] = q
  <2> DEFINE n == 10
             pair == <<a, q>>
  <2>1. n \in Nat /\ ten \in Seq(All) /\ Len(ten) = n
      BY <1>5
  <2>2. pair \in Seq(All) /\ Len(pair) = 2 /\ pair[1] = a /\ pair[2] = q
      BY <1>4
  <2>3. overview = ten \o pair
      BY <1>3
  <2>4. 10 = n /\ 11 = n + 1 /\ 12 = n + 2
      OBVIOUS
  <2> HIDE DEF n, pair
  <2>5. /\ overview \in Seq(All) /\ Len(overview) = n + 2 /\ DOMAIN overview = 1 .. n + 2
        /\ (\A i \in 1 .. n : overview[i] = ten[i]) /\ overview[n + 1] = pair[1] /\ overview[n + 2] = pair[2]
    <3>1. /\ overview \in Seq(All) /\ Len(overview) = n + 2
          /\ \A i \in 1 .. n + 2 : overview[i] = IF i <= n THEN ten[i] ELSE pair[i - n]
      <4> DEFINE all == ten \o pair
      <4>1. /\ all \in Seq(All) /\ Len(all) = Len(ten) + Len(pair)
            /\ \A i \in 1 .. Len(ten) + Len(pair) : all[i] = IF i <= Len(ten) THEN ten[i] ELSE pair[i - Len(ten)]
          BY <2>1, <2>2, ConcatProperties, Zenon
      <4>2. overview = all
          BY <2>3
      <4> HIDE DEF all
      <4> QED
          BY <2>1, <2>2, <4>1, <4>2
    <3>2. \A i \in 1 .. n : overview[i] = ten[i]
      <4>1. \A i \in 1 .. n : i \in 1 .. n + 2 /\ i <= n
          BY <2>1
      <4> QED
          BY <3>1, <4>1
    <3>3. n + 1 \in 1 .. n + 2 /\ n + 2 \in 1 .. n + 2 /\ ~(n + 1 <= n) /\ ~(n + 2 <= n)
        BY <2>1
    <3>4. (n + 1) - n = 1 /\ (n + 2) - n = 2
        BY <2>1
    <3>5. overview[n + 1] = pair[1] /\ overview[n + 2] = pair[2]
        BY <3>1, <3>3, <3>4
    <3>6. Len(overview) = n + 2 /\ DOMAIN overview = 1 .. n + 2
        BY <2>1, <2>2, <3>1
    <3> QED
        BY <2>1, <3>1, <3>2, <3>5, <3>6
  <2> QED
      BY <2>2, <2>4, <2>5
<1>8. \A i \in 1 .. 12 : overview[i] = Fresh(FirstKeys[i], "none") /\ FirstKeys[i] \in Texts
  <2> TAKE i \in 1 .. 12
  <2>1. i \in 1 .. 10 \/ i = 11 \/ i = 12
      OBVIOUS
  <2>2. overview[i] = Fresh(FirstKeys[i], "none")
      BY <1>1, <1>5, <1>6, <2>1 DEF a, q
  <2>3. FirstKeys[i] \in OfFirst
      BY FirstKeysAre
  <2> QED
      BY <2>2, <2>3 DEF Texts
<1>9. ASSUME NEW i \in 1 .. 12
      PROVE  linked[i] \in HomePanels /\ linked[i].key = FirstKeys[i] /\ linked[i].of = "none" /\ linked[i].names = {"none"}
  <2> DEFINE p == overview[i]
             l == [p EXCEPT !.links = {"open system"}]
  <2>1. linked[i] = IF p.key \in {"board", "attention"} THEN l ELSE p
      BY <1>6
  <2>2. p = Fresh(FirstKeys[i], "none") /\ FirstKeys[i] \in Texts
      BY <1>8
  <2> HIDE DEF linked, p
  <2>3. p \in HomePanels /\ p.of = "none" /\ p.names = {"none"} /\ p.key = FirstKeys[i]
    <3>1. AsDrawn(p) /\ p.of = "none" /\ p.names = {"none"} /\ p.key = FirstKeys[i]
        BY <2>2, FreshDrawn
    <3> QED
        BY <3>1 DEF AsDrawn
  <2>4. l \in HomePanels /\ l.of = p.of /\ l.names = p.names /\ l.key = p.key
      BY <2>3 DEF HomePanels
  <2> HIDE DEF l
  <2> QED
      BY <2>1, <2>3, <2>4
<1>10. DOMAIN linked = 1 .. 12
    BY <1>6
<1>11. linked \in Seq(HomePanels) /\ Len(linked) = 12
  <2> DEFINE n == 12
  <2>1. linked = [i \in 1 .. n |-> linked[i]]
      BY <1>6
  <2> HIDE DEF linked
  <2>2. n \in Nat /\ linked \in [1 .. n -> HomePanels]
      BY <1>9, <2>1
  <2> HIDE DEF n
  <2>3. linked \in Seq(HomePanels) /\ Len(linked) = n
      BY <2>2
  <2> QED
      BY <2>3 DEF n
<1> HIDE DEF linked
<1>12. \A i \in 1 .. 12 : linked[i].key = FirstKeys[i] /\ linked[i].of = "none" /\ linked[i].names = {"none"}
    BY <1>9
<1> QED
    BY <1>10, <1>11, <1>12 DEF linked, overview

LEMMA EverythingKeeps == HomeInv /\ Everything => HomeInv'
<1> SUFFICES ASSUME HomeInv, Everything
             PROVE  HomeInv'
    OBVIOUS
<1> DEFINE declared == Declared(sources.library)
           m == Len(declared)
           overview == [i \in DOMAIN OverviewKeys |-> Fresh(OverviewKeys[i], "none")] \o NeedsAttention
           linked == [i \in DOMAIN overview |->
                        IF overview[i].key \in {"board", "attention"}
                        THEN [overview[i] EXCEPT !.links = {"open system"}] ELSE overview[i]]
<1>1. sources \in Sources
    BY DEF HomeInv, HomeTypes
<1>2. /\ heap' = declared \o linked /\ library' = ByKey(declared)
      /\ elements' = [i \in DOMAIN linked |-> <<linked[i].key, m + i>>]
      /\ shared' = sources.rows /\ tabs' = <<FirstTab>> /\ stage' = "systems" /\ checkSays' = "none"
      /\ sources' = sources
    BY DEF Everything
<1>3. /\ DOMAIN linked = 1 .. 12 /\ linked \in Seq(HomePanels) /\ Len(linked) = 12
      /\ \A i \in 1 .. 12 : linked[i].key = FirstKeys[i] /\ linked[i].of = "none" /\ linked[i].names = {"none"}
    BY FirstPanels
<1> HIDE DEF linked, overview
<1>4. declared \in Seq(HomePanels) /\ m \in Nat
  <2>1. declared \in Seq(HomePanels)
      BY <1>1, DeclaredDrawn
  <2> QED
      BY <2>1
<1>5. declared = Declared(sources.library) /\ m = Len(declared)
    OBVIOUS
<1> HIDE DEF declared, m
<1>6. /\ heap' \in Seq(HomePanels) /\ Len(heap') = m + 12
      /\ (\A o \in 1 .. m : heap'[o] = declared[o]) /\ \A i \in 1 .. 12 : heap'[m + i] = linked[i]
  <2> DEFINE all == declared \o linked
  <2>1. declared \in Seq(HomePanels) /\ linked \in Seq(HomePanels) /\ Len(linked) = 12 /\ Len(declared) = m
      BY <1>3, <1>4, <1>5
  <2>2. /\ all \in Seq(HomePanels) /\ Len(all) = Len(declared) + Len(linked)
        /\ \A i \in 1 .. Len(declared) + Len(linked) :
              all[i] = IF i <= Len(declared) THEN declared[i] ELSE linked[i - Len(declared)]
      BY <2>1, ConcatProperties, Zenon
  <2>3. heap' = all
      BY <1>2
  <2> HIDE DEF all
  <2>4. /\ all \in Seq(HomePanels) /\ Len(all) = m + 12
        /\ \A i \in 1 .. m + 12 : all[i] = IF i <= m THEN declared[i] ELSE linked[i - m]
      BY <2>1, <2>2
  <2>5. \A o \in 1 .. m : all[o] = declared[o]
    <3>1. \A o \in 1 .. m : o \in 1 .. m + 12 /\ o <= m
        BY <1>4
    <3> QED
        BY <2>4, <3>1
  <2>6. ASSUME NEW i \in 1 .. 12
        PROVE  all[m + i] = linked[i]
    <3>1. m + i \in 1 .. m + 12 /\ ~(m + i <= m) /\ (m + i) - m = i
        BY <1>4
    <3>2. all[m + i] = linked[(m + i) - m]
        BY <2>4, <3>1
    <3> QED
        BY <3>1, <3>2
  <2> QED
      BY <2>3, <2>4, <2>5, <2>6
<1>7. /\ elements' \in Dicts(ElementNames) /\ Len(elements') = 12
      /\ \A i \in 1 .. 12 : elements'[i][1] = FirstKeys[i] /\ elements'[i][2] = m + i
  <2> DEFINE n == 12
             entry(i) == <<FirstKeys[i], m + i>>
  <2>1. \A i \in 1 .. 12 : FirstKeys[i] \in ElementNames
      BY FirstKeysAre DEF ElementNames
  <2>2. elements' = [i \in 1 .. n |-> entry(i)]
    <3> HIDE DEF n
    <3> QED
        BY <1>2, <1>3 DEF n
  <2>3. \A i \in 1 .. n : entry(i) \in ElementNames \X Nat /\ entry(i)[1] = FirstKeys[i] /\ entry(i)[2] = m + i
    <3> TAKE i \in 1 .. n
    <3>1. m + i \in Nat
        BY <1>4
    <3> QED
        BY <2>1, <3>1
  <2> HIDE DEF entry
  <2>4. elements' \in [1 .. n -> ElementNames \X Nat]
      BY <2>2, <2>3
  <2>5. n \in Nat /\ 12 = n
      OBVIOUS
  <2> HIDE DEF n
  <2>6. elements' \in Seq(ElementNames \X Nat) /\ Len(elements') = n
      BY <2>4, <2>5
  <2>7. \A i \in 1 .. n : elements'[i][1] = FirstKeys[i] /\ elements'[i][2] = m + i
      BY <2>2, <2>3
  <2>8. Keyed(elements')
    <3> SUFFICES ASSUME NEW i \in 1 .. n, NEW j \in 1 .. n,
                        elements'[i][1] = elements'[j][1] \/ elements'[i][2] = elements'[j][2]
                 PROVE  i = j
        BY <2>6 DEF Keyed
    <3>1. CASE elements'[i][1] = elements'[j][1]
        BY <2>5, <2>7, <3>1, FirstKeysAre
    <3>2. CASE elements'[i][2] = elements'[j][2]
        BY <1>4, <2>5, <2>7, <3>2
    <3> QED
        BY <3>1, <3>2
  <2> QED
      BY <2>5, <2>6, <2>7, <2>8 DEF Dicts
<1>8. Len(tabs') = 1 /\ tabs' = TabsOf(sources, 1) /\ 1 \in 0 .. Len(Systems) + 1 /\ 1 \in 1 .. Len(Systems) + 1
  <2>1. Len(Systems) \in Nat
      BY SystemsAre
  <2>2. TabsOf(sources, 1) = <<FirstTab>>
    <3>1. TabsOf(sources, 1) = [t \in 1 .. 1 |-> FirstTab]
      <4>1. \A t \in 1 .. 1 : t = 1
          OBVIOUS
      <4> QED
          BY <4>1 DEF TabsOf
    <3> QED
        BY <3>1
  <2> QED
      BY <1>2, <2>1, <2>2
<1>9. HomeTypes'
  <2>1. \A i \in 1 .. Len(elements') : elements'[i][2] \in 1 .. Len(heap')
    <3>1. \A i \in 1 .. 12 : m + i \in 1 .. m + 12
        BY <1>4
    <3>2. \A i \in 1 .. 12 : elements'[i][2] \in 1 .. m + 12
        BY <1>7, <3>1
    <3>3. Len(elements') = 12 /\ Len(heap') = m + 12
        BY <1>6, <1>7
    <3> QED
        BY <3>2, <3>3
  <2> QED
      BY <1>1, <1>2, <1>6, <1>7, <1>8, <2>1 DEF HomeTypes
<1>10. TabsMade'
  <2>1. \A i \in 1 .. Len(elements') : ShowsIts(elements[i][1], heap[elements[i][2]])'
    <3> SUFFICES ASSUME NEW i \in 1 .. 12
                 PROVE  ShowsIts(elements[i][1], heap[elements[i][2]])'
        BY <1>7
    <3>1. elements'[i][1] = FirstKeys[i] /\ heap'[elements'[i][2]] = linked[i]
        BY <1>6, <1>7
    <3>2. FirstKeys[i] \in OfFirst /\ linked[i].of = "none" /\ linked[i].names = {"none"}
        BY <1>3, FirstKeysAre
    <3> QED
        BY <3>1, <3>2 DEF ShowsIts
  <2>2. \A name \in OfFirst : HasElement(name)'
      BY <1>7, FirstKeysAre DEF HasElement
  <2>3. \A t \in 2 .. Len(tabs') : FALSE
      BY <1>8
  <2> QED
      BY <1>2, <1>8, <2>1, <2>2, <2>3 DEF TabsMade
<1>11. Assembling'
  <2>1. m <= Len(heap')
      BY <1>4, <1>6
  <2> QED
      BY <1>1, <1>2, <1>5, <1>6, <2>1 DEF Assembling
<1>12. ~Done' /\ stage' = "systems"
    BY <1>2 DEF Done
<1> QED
    BY <1>9, <1>10, <1>11, <1>12 DEF HomeInv

LEMMA TitledIsOwn ==
    ASSUME sources \in Sources, NEW c \in ToSet(Systems), NEW k \in Stampings(c),
           \A name \in OnPage(sources, c) : Has(k, name),
           NEW i \in 1 .. Len(k.els), NEW p, p = k.heap[k.els[i][2]], \A v \in p.vars : MayUse(c, v)
    PROVE  /\ [p EXCEPT !.names = @ \ {c}] \in HomePanels
           /\ IsOwn(c, k.els[i][1], [p EXCEPT !.names = @ \ {c}])
<1> DEFINE name == k.els[i][1]
           q == [p EXCEPT !.names = @ \ {c}]
<1>1. Making(c, k)
    BY DEF Stampings
<1>2. AsDrawn(p)
  <2>1. k.els[i][2] \in Len(heap) + 1 .. Len(k.heap)
      BY <1>1 DEF Making
  <2> QED
      BY <1>1, <2>1 DEF Making
<1>3. p \in HomePanels /\ p.links = {} /\ p.names \in {{"none"}, {p.of}}
    BY <1>2 DEF AsDrawn
<1>4. /\ q \in HomePanels /\ q.links = p.links /\ q.names = p.names \ {c} /\ q.of = p.of /\ q.key = p.key
      /\ q.vars = p.vars /\ q.queries = p.queries /\ q.arg = p.arg
  <2>1. /\ q.links = p.links /\ q.names = p.names \ {c} /\ q.of = p.of /\ q.key = p.key
        /\ q.vars = p.vars /\ q.queries = p.queries /\ q.arg = p.arg
      BY <1>3 DEF HomePanels
  <2>2. p.names \ {c} \in SUBSET Texts
      BY <1>3 DEF HomePanels
  <2>3. q \in HomePanels
      BY <1>3, <2>2 DEF HomePanels
  <2> QED
      BY <2>1, <2>3
<1>5. c # "none"
    BY HomeAssumption
<1>6. q.names \in {{}, {"none"}, {q.of}} /\ c \notin q.names /\ (q.names = {} => q.of = c)
  <2> HIDE DEF q
  <2>1. CASE p.names = {"none"}
    <3>1. q.names = {"none"}
        BY <1>4, <1>5, <2>1
    <3> QED
        BY <1>5, <3>1
  <2>2. CASE p.names = {p.of} /\ p.of = c
    <3>1. q.names = {}
        BY <1>4, <2>2
    <3> QED
        BY <1>4, <2>2, <3>1
  <2>3. CASE p.names = {p.of} /\ p.of # c
    <3>1. q.names = {q.of}
        BY <1>4, <2>3
    <3> QED
        BY <1>4, <2>3, <3>1
  <2> QED
      BY <1>3, <2>1, <2>2, <2>3
<1>7. ASSUME NEW cell \in PageCells(sources, c), NameOf(cell) = name
      PROVE  Alike(q, NamedIn(cell))
  <2>1. name \in OnPage(sources, c)
      BY <1>7 DEF OnPage
  <2>2. PICK j \in 1 .. Len(k.els) : k.els[j][1] = name /\ k.heap[k.els[j][2]] = Depicted(name)
      BY <2>1 DEF Has
  <2>3. j = i
    <3>1. Keyed(k.els)
        BY <1>1 DEF Making, Dicts
    <3> QED
        BY <2>2, <3>1 DEF Keyed
  <2>4. p = Depicted(NameOf(cell))
      BY <1>7, <2>2, <2>3
  <2>5. cell \in CellsOf(sources)
      BY PagesAre
  <2>6. p = NamedIn(cell)
      BY <2>4, <2>5, DepictedIsNamed
  <2> HIDE DEF q
  <2> QED
      BY <1>4, <2>6 DEF Alike
<1>8. q.vars \subseteq Allowed[c]
  <2> HIDE DEF q
  <2> QED
      BY <1>4 DEF MayUse
<1> HIDE DEF q
<1>9. q.links = {}
    BY <1>3, <1>4
<1>10. IsOwn(c, name, q)
    BY <1>6, <1>7, <1>8, <1>9 DEF IsOwn
<1> QED
    BY <1>4, <1>10 DEF q

LEMMA PrefixTells ==
    ASSUME NEW s \in Sources, NEW c \in ToSet(Systems), NEW d \in ToSet(Systems), NEW n \in OnTab(s, c), NEW o \in OnTab(s, d)
    PROVE  /\ Prefix(c, n) = Prefix(d, o) => c = d /\ n = o
           /\ Prefix(c, n) \notin OfFirst /\ Prefix(c, n) \in ElementNames
<1>1. n \in Called(s) /\ o \in Called(s)
    BY PagesAre
<1>2. /\ Prefix(c, n) = Prefix(d, o) => c = d /\ n = o
      /\ Prefix(c, n) \notin OfFirst
    BY <1>1, NamesAssumption
<1>3. Prefix(c, n) \in ElementNames
    BY <1>1 DEF ElementNames
<1> QED
    BY <1>2, <1>3

LEMMA SystemKeeps == ASSUME HomeInv, NEW c \in ToSet(Systems), System(c)
                     PROVE  HomeInv'
<1> DEFINE T == Len(tabs)
           H == Len(heap)
           st == Stamped(c)
           own == {st.els[i][2] : i \in DOMAIN st.els}
           titled == [o \in DOMAIN st.heap |-> IF o \in own THEN [st.heap[o] EXCEPT !.names = @ \ {c}]
                                               ELSE st.heap[o]]
           more == [i \in DOMAIN st.els |-> <<Prefix(c, st.els[i][1]), st.els[i][2]>>]
           m == Len(more)
           els == st.els
           h == st.heap
           N == OnTab(sources, c)
<1>1. /\ stage = "systems" /\ T <= Len(Systems) /\ c = Systems[T]
      /\ \A i \in DOMAIN PageNames(c) : Known(PageNames(c)[i])
      /\ \A o \in own : \A v \in titled[o].vars : MayUse(c, v)
      /\ heap' = titled /\ elements' = Update(elements, more)
      /\ tabs' = Append(tabs, TabOf(c,
            <<RowOf(<<Prefix(c, "attention"), Prefix(c, "quiet")>>, "none", NoText)>>
                \o [i \in DOMAIN sources.pages[c] |-> RowFor(c, shared[sources.pages[c][i]])]))
      /\ stage' = (IF Len(tabs') > Len(Systems) THEN "number" ELSE "systems")
      /\ sources' = sources /\ checkSays' = checkSays /\ library' = library /\ shared' = shared
    BY DEF System, ThisSystem
<1>2. HomeTypes /\ TabsMade /\ Assembling
    BY <1>1 DEF HomeInv
<1>3. /\ sources \in Sources /\ shared = sources.rows /\ checkSays = "none"
      /\ heap \in Seq(HomePanels) /\ H \in Nat /\ elements \in Dicts(ElementNames)
      /\ \A i \in 1 .. Len(elements) : elements[i][2] \in 1 .. H
  <2>1. stage = "systems"
      BY <1>1, Zenon
  <2>2. stage # "idle"
      BY <2>1
  <2>3. HomeTypes /\ shared = sources.rows
      BY <1>2, Zenon DEF TabsMade
  <2>4. sources \in Sources /\ checkSays = "none" /\ heap \in Seq(HomePanels) /\ elements \in Dicts(ElementNames)
      BY <2>2, <2>3, Zenon DEF HomeTypes
  <2>5. H \in Nat /\ DOMAIN heap = 1 .. H
      BY <2>4
  <2>6. \A i \in 1 .. Len(elements) : elements[i][2] \in 1 .. H
      BY <2>3 DEF HomeTypes
  <2> QED
      BY <2>3, <2>4, <2>5, <2>6, Zenon
<1>4. T \in 1 .. Len(Systems) /\ T \in Nat /\ T >= 1 /\ tabs = TabsOf(sources, T) /\ Len(Systems) \in Nat
  <2>1. T \in 1 .. Len(Systems) + 1 /\ tabs = TabsOf(sources, T)
      BY <1>2 DEF TabsMade
  <2>2. Len(Systems) \in Nat
      BY SystemsAre
  <2> HIDE DEF T
  <2> QED
      BY <1>1, <2>1, <2>2
<1>5. st \in Stampings(c) /\ \A name \in OnPage(sources, c) : Has(st, name)
  <2>1. PageNames(c) \in Seq(OnPage(sources, c))
      BY <1>3, PageNamesAre
  <2>2. \A i \in 1 .. Len(PageNames(c)) : Known(PageNames(c)[i])
    <3>1. \A i \in DOMAIN PageNames(c) : Known(PageNames(c)[i])
        BY <1>1, Zenon
    <3>2. DOMAIN PageNames(c) = 1 .. Len(PageNames(c))
        BY <2>1
    <3> QED
        BY <3>1, <3>2, Zenon
  <2> QED
      BY <1>2, <2>2, StampedIs
<1> HIDE DEF st
<1>6. Making(c, st)
    BY <1>5 DEF Stampings
<1> HIDE DEF T, H, N
<1>7. /\ h \in Seq(HomePanels) /\ Len(h) \in Nat /\ DOMAIN h = 1 .. Len(h) /\ H <= Len(h)
      /\ \A o \in 1 .. H : h[o] = heap[o]
      /\ els \in Seq(N \X Nat) /\ Keyed(els) /\ Len(els) \in Nat /\ DOMAIN els = 1 .. Len(els)
      /\ \A i \in 1 .. Len(els) : els[i] \in N \X Nat /\ els[i][1] \in N /\ els[i][2] \in H + 1 .. Len(h)
  <2>1. h \in Seq(HomePanels) /\ H + 2 <= Len(h) /\ els \in Dicts(N)
        /\ (\A o \in 1 .. H : h[o] = heap[o]) /\ \A i \in 1 .. Len(els) : els[i][2] \in H + 1 .. Len(h)
      BY <1>6 DEF Making, H, N
  <2>2. els \in Seq(N \X Nat) /\ Keyed(els)
      BY <2>1 DEF Dicts
  <2> HIDE DEF els, h
  <2>3. Len(h) \in Nat /\ DOMAIN h = 1 .. Len(h) /\ Len(els) \in Nat /\ DOMAIN els = 1 .. Len(els)
      BY <2>1, <2>2
  <2>4. H <= Len(h)
      BY <1>3, <2>1, <2>3
  <2>5. \A i \in 1 .. Len(els) : els[i] \in N \X Nat /\ els[i][1] \in N
      BY <2>2
  <2> QED
      BY <2>1, <2>2, <2>3, <2>4, <2>5
<1>8. own = {els[i][2] : i \in 1 .. Len(els)}
    BY <1>7
<1>9. titled = [o \in 1 .. Len(h) |-> IF o \in own THEN [h[o] EXCEPT !.names = @ \ {c}] ELSE h[o]]
    BY <1>7
<1>10. more = [i \in 1 .. Len(els) |-> <<Prefix(c, els[i][1]), els[i][2]>>]
    BY <1>7
<1>11. els = st.els /\ h = st.heap
    OBVIOUS
<1> HIDE DEF titled, own, more, m, els, h
<1>12. /\ \A o \in 1 .. H : titled[o] = heap[o]
       /\ \A i \in 1 .. Len(els) : /\ titled[els[i][2]] = [h[els[i][2]] EXCEPT !.names = @ \ {c}]
                                   /\ els[i][2] \in own /\ els[i][2] \in 1 .. Len(h)
  <2>1. ASSUME NEW o \in 1 .. H
        PROVE  titled[o] = heap[o]
    <3>1. o \notin own
        BY <1>3, <1>7, <1>8
    <3>2. o \in 1 .. Len(h)
        BY <1>3, <1>7
    <3> QED
        BY <1>7, <1>9, <3>1, <3>2
  <2>2. ASSUME NEW i \in 1 .. Len(els)
        PROVE  /\ titled[els[i][2]] = [h[els[i][2]] EXCEPT !.names = @ \ {c}]
               /\ els[i][2] \in own /\ els[i][2] \in 1 .. Len(h)
    <3>1. els[i][2] \in own
        BY <1>8
    <3>2. els[i][2] \in 1 .. Len(h)
        BY <1>3, <1>7
    <3> QED
        BY <1>9, <3>1, <3>2
  <2> QED
      BY <2>1, <2>2
<1>13. \A i \in 1 .. Len(els) : titled[els[i][2]] \in HomePanels /\ IsOwn(c, els[i][1], titled[els[i][2]])
  <2> TAKE i \in 1 .. Len(els)
  <2> DEFINE p == h[els[i][2]]
  <2>1. p \in HomePanels
    <3>1. els[i][2] \in 1 .. Len(h)
        BY <1>12
    <3> DEFINE o == els[i][2]
    <3> HIDE DEF o
    <3>2. h[o] \in HomePanels
        BY <1>7, <3>1 DEF o
    <3> QED
        BY <3>2 DEF o
  <2>2. titled[els[i][2]].vars = p.vars
      BY <1>12, <2>1 DEF HomePanels
  <2>3. \A v \in p.vars : MayUse(c, v)
      BY <1>1, <1>12, <2>2
  <2>4. p = st.heap[st.els[i][2]] /\ i \in 1 .. Len(st.els)
      BY <1>11
  <2> HIDE DEF p
  <2>5. [p EXCEPT !.names = @ \ {c}] \in HomePanels /\ IsOwn(c, st.els[i][1], [p EXCEPT !.names = @ \ {c}])
      BY <1>3, <1>5, <2>3, <2>4, TitledIsOwn
  <2> QED
      BY <1>11, <1>12, <2>5 DEF p
<1>14. titled \in Seq(HomePanels) /\ Len(titled) = Len(h)
  <2>1. \A o \in 1 .. Len(h) : titled[o] \in HomePanels
    <3> TAKE o \in 1 .. Len(h)
    <3>1. CASE o \in own
      <4>1. PICK i \in 1 .. Len(els) : o = els[i][2]
          BY <1>8, <3>1
      <4> QED
          BY <1>13, <4>1
    <3>2. CASE o \notin own
        BY <1>7, <1>9, <3>2
    <3> QED
        BY <3>1, <3>2
  <2>2. titled = [o \in 1 .. Len(h) |-> titled[o]]
      BY <1>9
  <2>3. titled \in [1 .. Len(h) -> HomePanels]
      BY <2>1, <2>2
  <2> QED
      BY <1>7, <2>3, SMTT(30)
<1>15. c \in ToSet(Systems) /\ \A i \in 1 .. Len(els) : els[i][1] \in OnTab(sources, c)
    BY <1>7 DEF N
<1>16. /\ m = Len(els) /\ Len(more) = m /\ more \in Seq(ElementNames \X Nat)
       /\ \A i \in 1 .. m : more[i][1] = Prefix(c, els[i][1]) /\ more[i][2] = els[i][2]
  <2> DEFINE entry(i) == <<Prefix(c, els[i][1]), els[i][2]>>
  <2>1. \A i \in 1 .. Len(els) : /\ entry(i) \in ElementNames \X Nat
                                 /\ entry(i)[1] = Prefix(c, els[i][1]) /\ entry(i)[2] = els[i][2]
    <3> TAKE i \in 1 .. Len(els)
    <3>1. Prefix(c, els[i][1]) \in ElementNames
        BY <1>3, <1>15, PrefixTells
    <3>2. els[i][2] \in Nat
        BY <1>7
    <3> QED
        BY <3>1, <3>2
  <2>2. more = [i \in 1 .. Len(els) |-> entry(i)]
      BY <1>10
  <2> HIDE DEF entry
  <2>3. more \in [1 .. Len(els) -> ElementNames \X Nat]
      BY <2>1, <2>2
  <2>4. more \in Seq(ElementNames \X Nat) /\ Len(more) = Len(els)
      BY <1>7, <2>3, SMTT(30)
  <2> QED
      BY <2>1, <2>2, <2>4 DEF m
<1>17. Keyed(more)
  <2> SUFFICES ASSUME NEW i \in 1 .. m, NEW j \in 1 .. m, more[i][1] = more[j][1] \/ more[i][2] = more[j][2]
               PROVE  i = j
      BY <1>16 DEF Keyed
  <2>1. els[i][1] = els[j][1] \/ els[i][2] = els[j][2]
    <3>1. CASE more[i][1] = more[j][1]
        BY <1>3, <1>15, <1>16, <3>1, PrefixTells
    <3>2. CASE more[i][2] = more[j][2]
        BY <1>16, <3>2
    <3> QED
        BY <3>1, <3>2
  <2> QED
      BY <1>7, <1>16, <2>1 DEF Keyed
<1>18. elements \in Seq(ElementNames \X Nat) /\ Keyed(elements) /\ Len(elements) \in Nat
    BY <1>3 DEF Dicts
<1>19. \A i \in 1 .. Len(elements), j \in 1 .. m : elements[i][1] # more[j][1]
  <2> TAKE i \in 1 .. Len(elements), j \in 1 .. m
  <2>1. more[j][1] = Prefix(c, els[j][1]) /\ els[j][1] \in OnTab(sources, c)
      BY <1>15, <1>16
  <2>2. ShowsIts(elements[i][1], heap[elements[i][2]])
      BY <1>2 DEF TabsMade
  <2>3. CASE elements[i][1] \in OfFirst
      BY <1>3, <2>1, <2>3, PrefixTells
  <2>4. CASE \E t \in 2 .. T : \E n \in OnTab(sources, Systems[t - 1]) : elements[i][1] = Prefix(Systems[t - 1], n)
    <3>1. PICK t \in 2 .. T : \E n \in OnTab(sources, Systems[t - 1]) : elements[i][1] = Prefix(Systems[t - 1], n)
        BY <2>4
    <3>2. PICK n \in OnTab(sources, Systems[t - 1]) : elements[i][1] = Prefix(Systems[t - 1], n)
        BY <3>1
    <3>3. t - 1 \in 1 .. Len(Systems) /\ t - 1 # T
        BY <1>4
    <3>4. Systems[t - 1] # c /\ Systems[t - 1] \in ToSet(Systems)
        BY <1>1, <1>4, <3>3, SystemsAre DEF T
    <3> QED
        BY <1>3, <2>1, <3>2, <3>4, PrefixTells
  <2> QED
      BY <2>2, <2>3, <2>4 DEF ShowsIts, T
<1>20. /\ elements' \in Seq(ElementNames \X Nat) /\ Len(elements') = Len(elements) + m
       /\ \A i \in 1 .. Len(elements) : elements'[i] = elements[i]
       /\ \A i \in 1 .. m : elements'[Len(elements) + i] = more[i]
  <2>1. elements' = elements \o more
    <3>1. Update(elements, more) = elements \o more
      <4>1. more \in Seq(ElementNames \X Nat) /\ elements \in Seq(ElementNames \X Nat)
          BY <1>16, <1>18
      <4>2. \A i \in 1 .. Len(elements), j \in 1 .. Len(more) : elements[i][1] # more[j][1]
          BY <1>16, <1>19
      <4> QED
          BY <1>17, <4>1, <4>2, UpdateContinues
    <3> QED
        BY <1>1, <3>1
  <2> DEFINE all == elements \o more
             e == Len(elements)
  <2>2. /\ all \in Seq(ElementNames \X Nat) /\ Len(all) = Len(elements) + Len(more)
        /\ \A i \in 1 .. Len(elements) + Len(more) :
              all[i] = IF i <= Len(elements) THEN elements[i] ELSE more[i - Len(elements)]
      BY <1>16, <1>18, ConcatProperties, Zenon
  <2> HIDE DEF all
  <2>3. /\ all \in Seq(ElementNames \X Nat) /\ Len(all) = e + m
        /\ \A i \in 1 .. e + m : all[i] = IF i <= e THEN elements[i] ELSE more[i - e]
      BY <1>16, <2>2
  <2>4. e \in Nat /\ m \in Nat
      BY <1>7, <1>16, <1>18
  <2> HIDE DEF e
  <2>5. \A i \in 1 .. e : all[i] = elements[i]
    <3>1. \A i \in 1 .. e : i \in 1 .. e + m /\ i <= e
        BY <2>4
    <3> QED
        BY <2>3, <3>1
  <2>6. ASSUME NEW i \in 1 .. m
        PROVE  all[e + i] = more[i]
    <3>1. e + i \in 1 .. e + m /\ ~(e + i <= e) /\ (e + i) - e = i
        BY <2>4
    <3>2. all[e + i] = more[(e + i) - e]
        BY <2>3, <3>1
    <3> QED
        BY <3>1, <3>2
  <2> QED
      BY <2>1, <2>3, <2>5, <2>6 DEF all, e
<1>21. \A i \in 1 .. Len(elements') : i \in 1 .. Len(elements) \/ \E j \in 1 .. m : i = Len(elements) + j
  <2> TAKE i \in 1 .. Len(elements')
  <2>1. CASE i \notin 1 .. Len(elements)
    <3>1. i - Len(elements) \in 1 .. m /\ i = Len(elements) + (i - Len(elements))
        BY <1>7, <1>16, <1>18, <1>20, <2>1
    <3> QED
        BY <3>1
  <2> QED
      BY <2>1
<1>22. tabs' = TabsOf(sources, T + 1) /\ Len(tabs') = T + 1 /\ T + 1 \in 1 .. Len(Systems) + 1 /\ T + 1 \in 0 .. Len(Systems) + 1
  <2>1. tabs' = Append(tabs, SystemTab(sources, c))
      BY <1>1, <1>3 DEF SystemTab
  <2>2. T <= Len(Systems) + 1 /\ T + 1 \in Nat /\ T + 1 <= Len(Systems) + 1
      BY <1>4
  <2>3. Append(TabsOf(sources, T), SystemTab(sources, Systems[T])) = TabsOf(sources, T + 1)
      BY <1>3, <1>4, <2>2, TabsOfAre
  <2>4. tabs' = TabsOf(sources, T + 1)
      BY <1>1, <1>4, <2>1, <2>3 DEF T
  <2>5. Len(TabsOf(sources, T + 1)) = T + 1
      BY <1>3, <2>2, TabsOfAre
  <2> QED
      BY <1>4, <2>2, <2>4, <2>5
<1>23. stage' \in {"number", "systems"} /\ (stage' # "systems" => Len(tabs') = Len(Systems) + 1)
    BY <1>1, <1>4, <1>22
<1>24. heap' = titled /\ sources' = sources /\ shared' = shared /\ library' = library /\ checkSays' = "none"
    BY <1>1, <1>3
<1>25. \A i \in 1 .. Len(elements) : elements'[i] = elements[i] /\ heap'[elements'[i][2]] = heap[elements[i][2]]
    BY <1>3, <1>12, <1>20, <1>24
<1>26. \A j \in 1 .. m : /\ elements'[Len(elements) + j] = more[j]
                         /\ more[j][1] = Prefix(c, els[j][1]) /\ els[j][1] \in OnTab(sources, c)
                         /\ more[j][2] = els[j][2] /\ IsOwn(c, els[j][1], heap'[more[j][2]])
    BY <1>13, <1>15, <1>16, <1>20, <1>24
<1>27. HomeTypes'
  <2>1. Keyed(elements')
    <3> SUFFICES ASSUME NEW i \in 1 .. Len(elements'), NEW j \in 1 .. Len(elements'),
                        elements'[i][1] = elements'[j][1] \/ elements'[i][2] = elements'[j][2]
                 PROVE  i = j
        BY DEF Keyed
    <3>1. \A x \in 1 .. Len(elements), y \in 1 .. m : elements[x][1] # more[y][1] /\ elements[x][2] # more[y][2]
      <4> TAKE x \in 1 .. Len(elements), y \in 1 .. m
      <4>1. elements[x][2] \in 1 .. H /\ more[y][2] \in H + 1 .. Len(h)
          BY <1>3, <1>7, <1>16
      <4> QED
          BY <1>3, <1>19, <4>1
    <3>2. CASE i \in 1 .. Len(elements) /\ j \in 1 .. Len(elements)
        BY <1>18, <1>20, <3>2 DEF Keyed
    <3>3. CASE i \in 1 .. Len(elements) /\ \E y \in 1 .. m : j = Len(elements) + y
        BY <1>20, <3>1, <3>3
    <3>4. CASE j \in 1 .. Len(elements) /\ \E y \in 1 .. m : i = Len(elements) + y
        BY <1>20, <3>1, <3>4, SMTT(30)
    <3>5. CASE \E x \in 1 .. m, y \in 1 .. m : i = Len(elements) + x /\ j = Len(elements) + y
      <4>1. PICK x \in 1 .. m, y \in 1 .. m : i = Len(elements) + x /\ j = Len(elements) + y
          BY <3>5
      <4>2. more[x][1] = more[y][1] \/ more[x][2] = more[y][2]
          BY <1>20, <4>1
      <4>3. x = y
          BY <1>16, <1>17, <4>2 DEF Keyed
      <4> QED
          BY <4>1, <4>3
    <3> QED
        BY <1>21, <3>2, <3>3, <3>4, <3>5
  <2>2. elements' \in Dicts(ElementNames)
      BY <1>20, <2>1 DEF Dicts
  <2>3. \A i \in 1 .. Len(elements') : elements'[i][2] \in 1 .. Len(heap')
    <3> TAKE i \in 1 .. Len(elements')
    <3>1. CASE i \in 1 .. Len(elements)
      <4>1. elements'[i][2] \in 1 .. H
          BY <1>3, <1>20, <3>1
      <4> QED
          BY <1>3, <1>7, <1>14, <1>24, <4>1
    <3>2. CASE \E j \in 1 .. m : i = Len(elements) + j
      <4>1. PICK j \in 1 .. m : i = Len(elements) + j
          BY <3>2
      <4>2. elements'[i][2] = els[j][2] /\ j \in 1 .. Len(els)
          BY <1>16, <1>26, <4>1
      <4> QED
          BY <1>12, <1>14, <1>24, <4>2
    <3> QED
        BY <1>21, <3>1, <3>2
  <2>4. \E s \in Sources : \E n \in 0 .. Len(Systems) + 1 : tabs' = TabsOf(s, n)
      BY <1>3, <1>22
  <2>5. heap' \in Seq(HomePanels) /\ sources' \in Sources
      BY <1>3, <1>14, <1>24
  <2> QED
      BY <1>23, <1>24, <2>2, <2>3, <2>4, <2>5 DEF HomeTypes
<1>28. TabsMade'
  <2>1. \A i \in 1 .. Len(elements') : ShowsIts(elements[i][1], heap[elements[i][2]])'
    <3> SUFFICES ASSUME NEW i \in 1 .. Len(elements')
                 PROVE  ShowsIts(elements[i][1], heap[elements[i][2]])'
        OBVIOUS
    <3>1. CASE i \in 1 .. Len(elements)
      <4> DEFINE name == elements[i][1]
                 p == heap[elements[i][2]]
      <4>1. ShowsIts(name, p)
          BY <1>2, <3>1 DEF TabsMade
      <4>2. name' = name /\ p' = p
          BY <1>25, <3>1
      <4>3. \A t \in 2 .. T : t \in 2 .. Len(tabs')
          BY <1>4, <1>22
      <4>4. \A d, n : IsOwn(d, n, p) => IsOwn(d, n, p)'
          BY <1>24, <4>2 DEF IsOwn, NamedIn
      <4>5. ShowsIts(name, p) => ShowsIts(name, p)'
          BY <1>24, <4>2, <4>3, <4>4 DEF ShowsIts, T
      <4> QED
          BY <4>1, <4>5
    <3>2. CASE \E j \in 1 .. m : i = Len(elements) + j
      <4>1. PICK j \in 1 .. m : i = Len(elements) + j
          BY <3>2
      <4>2. PICK n \in OnTab(sources, c) : n = els[j][1]
          BY <1>26
      <4>3. elements'[i][1] = Prefix(c, n) /\ IsOwn(c, n, heap'[elements'[i][2]])
          BY <1>26, <4>1, <4>2
      <4>4. T + 1 \in 2 .. Len(tabs') /\ Systems[(T + 1) - 1] = c
        <5>1. (T + 1) - 1 = T
            BY <1>4
        <5>2. T + 1 \in 2 .. T + 1
            BY <1>4
        <5> QED
            BY <1>1, <1>22, <5>1, <5>2 DEF T
      <4>5. IsOwn(c, n, heap[elements[i][2]])'
          BY <1>24, <4>3 DEF IsOwn, NamedIn
      <4>6. PICK t \in 2 .. Len(tabs') : Systems[t - 1] = c
          BY <4>4
      <4>7. n \in OnTab(sources, Systems[t - 1])' /\ (elements'[i][1] = Prefix(Systems[t - 1], n))
          BY <1>24, <4>3, <4>6
      <4> QED
          BY <4>5, <4>6, <4>7 DEF ShowsIts
    <3> QED
        BY <1>21, <3>1, <3>2
  <2>2. \A name \in OfFirst : HasElement(name)'
    <3> TAKE name \in OfFirst
    <3>1. PICK i \in 1 .. Len(elements) : elements[i][1] = name
        BY <1>2 DEF TabsMade, HasElement
    <3>2. i \in 1 .. Len(elements') /\ elements'[i][1] = name
        BY <1>7, <1>16, <1>18, <1>20, <3>1
    <3> QED
        BY <3>2 DEF HasElement
  <2>3. ASSUME NEW t \in 2 .. T + 1, NEW n \in OnTab(sources, Systems[t - 1])
        PROVE  HasElement(Prefix(Systems[t - 1], n))'
    <3>1. CASE t \in 2 .. T
      <4>1. PICK i \in 1 .. Len(elements) : elements[i][1] = Prefix(Systems[t - 1], n)
          BY <1>2, <3>1 DEF TabsMade, HasElement, T
      <4>2. i \in 1 .. Len(elements') /\ elements'[i][1] = Prefix(Systems[t - 1], n)
          BY <1>7, <1>16, <1>18, <1>20, <4>1
      <4> QED
          BY <4>2 DEF HasElement
    <3>2. CASE t = T + 1
      <4>1. t - 1 = T
          BY <1>4, <3>2
      <4>2. Systems[t - 1] = c
          BY <1>1, <4>1 DEF T
      <4>3. PICK j \in 1 .. Len(els) : els[j][1] = n
        <5>1. CASE n \in OnPage(sources, c)
            BY <1>5, <1>11, <5>1 DEF Has
        <5>2. CASE n \in {"attention", "quiet"}
            BY <1>6, <1>11, <5>2 DEF Making
        <5> QED
            BY <4>2, <5>1, <5>2 DEF OnTab
      <4>4. j \in 1 .. m /\ Len(elements) + j \in 1 .. Len(elements')
          BY <1>7, <1>16, <1>18, <1>20
      <4>5. elements'[Len(elements) + j][1] = Prefix(Systems[t - 1], n)
          BY <1>26, <4>2, <4>3, <4>4
      <4> QED
          BY <4>4, <4>5 DEF HasElement
    <3>3. t \in 2 .. T \/ t = T + 1
        BY <1>4
    <3> QED
        BY <3>1, <3>2, <3>3
  <2>4. \A t \in 2 .. Len(tabs') : \A n \in OnTab(sources', Systems[t - 1]) : HasElement(Prefix(Systems[t - 1], n))'
      BY <1>22, <1>24, <2>3
  <2>5. Len(tabs') \in 1 .. Len(Systems) + 1 /\ tabs' = TabsOf(sources', Len(tabs')) /\ shared' = sources'.rows
      BY <1>3, <1>22, <1>24
  <2> QED
      BY <1>23, <2>1, <2>2, <2>4, <2>5 DEF TabsMade
<1>29. Assembling'
  <2> DEFINE D == Declared(sources.library)
  <2>1. library = ByKey(D) /\ Len(D) <= H /\ \A o \in 1 .. Len(D) : heap[o] = D[o]
      BY <1>2 DEF Assembling, H
  <2>2. Len(D) \in Nat
      BY <1>3, DeclaredDrawn
  <2> HIDE DEF D
  <2>3. \A o \in 1 .. Len(D) : heap'[o] = D[o]
    <3> TAKE o \in 1 .. Len(D)
    <3>1. o \in 1 .. H
        BY <1>3, <2>1, <2>2
    <3> QED
        BY <1>12, <1>24, <2>1, <3>1
  <2>4. Len(D) <= Len(heap') /\ heap' \in Seq(HomePanels)
      BY <1>3, <1>7, <1>14, <1>24, <2>1, <2>2
  <2>5. sources' = sources /\ sources \in Sources /\ shared' = sources.rows /\ library' = ByKey(D)
      BY <1>3, <1>24, <2>1
  <2> QED
      BY <2>3, <2>4, <2>5 DEF Assembling, D
<1>30. ~Done' /\ stage' # "checks"
    BY <1>23, <1>24 DEF Done
<1> QED
    BY <1>27, <1>28, <1>29, <1>30 DEF HomeInv

LEMMA NumberKeeps == HomeInv /\ Number => HomeInv'
<1> SUFFICES ASSUME HomeInv, Number
             PROVE  HomeInv'
    OBVIOUS
<1> DEFINE Places(o) == {i \in DOMAIN elements : elements[i][2] = o}
           IdOf(o) == CHOOSE i \in Places(o) : \A j \in Places(o) : j <= i
           H == Len(heap)
<1>1. /\ stage = "number" /\ stage' = "checks"
      /\ heap' = [o \in DOMAIN heap |-> IF Places(o) = {} THEN heap[o] ELSE [heap[o] EXCEPT !.id = IdOf(o)]]
      /\ sources' = sources /\ checkSays' = checkSays /\ library' = library /\ elements' = elements
      /\ shared' = shared /\ tabs' = tabs
    BY DEF Number
<1>2. HomeTypes /\ TabsMade
    BY <1>1 DEF HomeInv
<1>3. /\ heap \in Seq(HomePanels) /\ H \in Nat /\ DOMAIN heap = 1 .. H /\ elements \in Dicts(ElementNames)
      /\ (\A i \in 1 .. Len(elements) : elements[i][2] \in 1 .. H) /\ checkSays = "none"
    BY <1>1, <1>2 DEF HomeTypes
<1>4. Len(elements) \in Nat /\ DOMAIN elements = 1 .. Len(elements) /\ Keyed(elements)
    BY <1>3 DEF Dicts
<1>5. ASSUME NEW i \in 1 .. Len(elements)
      PROVE  Places(elements[i][2]) = {i} /\ IdOf(elements[i][2]) = i
  <2> DEFINE its == Places(elements[i][2])
  <2>1. its = {i}
      BY <1>4 DEF Keyed
  <2> HIDE DEF its
  <2>2. (CHOOSE x \in its : \A j \in its : j <= x) = i
      BY <2>1
  <2> QED
      BY <2>1, <2>2 DEF its
<1>6. ASSUME NEW o \in 1 .. H
      PROVE  heap'[o] \in HomePanels
  <2>1. CASE Places(o) = {}
      BY <1>1, <1>3, <2>1
  <2>2. CASE Places(o) # {}
    <3>1. PICK i \in 1 .. Len(elements) : elements[i][2] = o
        BY <1>4, <2>2
    <3>2. IdOf(elements[i][2]) = i
        BY <1>5, <3>1
    <3>3. heap'[o] = [heap[o] EXCEPT !.id = IdOf(o)] /\ heap[o] \in HomePanels
        BY <1>1, <1>3, <2>2
    <3> HIDE DEF IdOf
    <3>4. IdOf(o) \in Nat
        BY <1>4, <3>1, <3>2
    <3> QED
        BY <3>3, <3>4 DEF HomePanels
  <2> QED
      BY <2>1, <2>2
<1>7. heap' \in Seq(HomePanels) /\ Len(heap') = H
  <2> HIDE DEF IdOf, Places
  <2>1. heap' = [o \in 1 .. H |-> heap'[o]]
      BY <1>1, <1>3
  <2>2. heap' \in [1 .. H -> HomePanels]
      BY <1>6, <2>1
  <2> QED
      BY <1>3, <2>2
<1>8. ASSUME NEW i \in 1 .. Len(elements)
      PROVE  /\ heap'[elements[i][2]] = [heap[elements[i][2]] EXCEPT !.id = i]
             /\ heap[elements[i][2]] \in HomePanels
  <2> DEFINE o == elements[i][2]
  <2>1. o \in 1 .. H /\ o \in DOMAIN heap
      BY <1>3
  <2>2. Places(o) = {i} /\ IdOf(o) = i
      BY <1>5
  <2> HIDE DEF o, Places, IdOf
  <2>3. heap'[o] = [heap[o] EXCEPT !.id = i]
      BY <1>1, <2>1, <2>2
  <2>4. heap[o] \in HomePanels
      BY <1>3, <2>1
  <2> QED
      BY <2>3, <2>4 DEF o
<1>9. HomeTypes'
    BY <1>1, <1>2, <1>3, <1>7 DEF HomeTypes
<1>10. TabsMade'
  <2>1. ASSUME NEW i \in 1 .. Len(elements)
        PROVE  ShowsIts(elements[i][1], heap[elements[i][2]])'
    <3> DEFINE name == elements[i][1]
               p == heap[elements[i][2]]
               q == heap'[elements[i][2]]
    <3>1. ShowsIts(name, p)
        BY <1>2 DEF TabsMade
    <3>2. /\ q.key = p.key /\ q.of = p.of /\ q.names = p.names /\ q.vars = p.vars /\ q.queries = p.queries
          /\ q.links = p.links /\ q.arg = p.arg
      <4> HIDE DEF p, q
      <4>1. q = [p EXCEPT !.id = i] /\ p \in HomePanels
          BY <1>8 DEF p, q
      <4> QED
          BY <4>1 DEF HomePanels
    <3>3. name' = name /\ p' = q
        BY <1>1
    <3>4. \A d, n : IsOwn(d, n, p) => IsOwn(d, n, q)
      <4> HIDE DEF p, q
      <4> QED
          BY <3>2 DEF IsOwn, Alike
    <3>5. \A d, n : IsOwn(d, n, q) => IsOwn(d, n, p)'
        BY <1>1, <3>3 DEF IsOwn, NamedIn
    <3>6. ShowsIts(name, p) => ShowsIts(name, p)'
      <4>1. q.of = p.of /\ q.names = p.names
          BY <3>2
      <4> HIDE DEF q
      <4> QED
          BY <1>1, <3>3, <3>4, <3>5, <4>1 DEF ShowsIts
    <3> QED
        BY <3>1, <3>6
  <2>2. \A i \in 1 .. Len(elements') : ShowsIts(elements[i][1], heap[elements[i][2]])'
      BY <1>1, <2>1
  <2>3. \A name : HasElement(name) => HasElement(name)'
      BY <1>1 DEF HasElement
  <2> QED
      BY <1>1, <1>2, <2>2, <2>3 DEF TabsMade
<1>11. IdsRun'
  <2> SUFFICES ASSUME NEW i \in 1 .. Len(elements)
               PROVE  heap'[elements[i][2]].id = i
      BY <1>1 DEF IdsRun
  <2> DEFINE p == heap[elements[i][2]]
  <2>1. heap'[elements[i][2]] = [p EXCEPT !.id = i] /\ p \in HomePanels
      BY <1>8
  <2> HIDE DEF p
  <2> QED
      BY <2>1 DEF HomePanels
<1> QED
    BY <1>1, <1>9, <1>10, <1>11 DEF HomeInv

\* What the script does with a rendered dashboard, a failure, and an edit of the sources.
LEMMA OtherStepsKeep ==
    /\ HomeInv /\ ImportFails => HomeInv'
    /\ HomeInv /\ TooLarge => HomeInv'
    /\ HomeInv /\ WriteFile => HomeInv'
    /\ HomeInv /\ CheckFile => HomeInv'
    /\ \A c \in ToSet(Systems) : HomeInv /\ SystemFails(c) => HomeInv'
    /\ \A s \in Sources : HomeInv /\ EditSources(s) => HomeInv'
    /\ HomeInv /\ UNCHANGED dvars => HomeInv'
<1> DEFINE Same == UNCHANGED build
           Kept == sources' \in Sources /\ stage' = "idle"
                   /\ checkSays' \in {"none", "failed", "written", "fresh", "outdated"}
<1>1. HomeInv => HomeTypes
    BY DEF HomeInv
<1>2. HomeTypes /\ Same /\ Kept => HomeTypes'
    BY DEF HomeTypes, build
<1>3. HomeTypes /\ Same /\ Kept /\ ~Done' => HomeInv'
    BY <1>2 DEF HomeInv
<1>4. TabsMade /\ Same /\ sources' = sources /\ (stage # "systems" \/ stage' = stage) => TabsMade'
  <2> SUFFICES ASSUME TabsMade, Same, sources' = sources, stage # "systems" \/ stage' = stage
               PROVE  TabsMade'
      OBVIOUS
  <2>1. heap' = heap /\ elements' = elements /\ shared' = shared /\ tabs' = tabs
      BY DEF build
  <2>2. \A d, n, p : IsOwn(d, n, p) => IsOwn(d, n, p)'
      BY DEF IsOwn, NamedIn
  <2>3. \A name, p : ShowsIts(name, p) => ShowsIts(name, p)'
      BY <2>1, <2>2 DEF ShowsIts
  <2>4. \A name : HasElement(name) => HasElement(name)'
      BY <2>1 DEF HasElement
  <2>5. \A i \in 1 .. Len(elements') : ShowsIts(elements[i][1], heap[elements[i][2]])'
      BY <2>1, <2>3 DEF TabsMade
  <2> QED
      BY <2>1, <2>4, <2>5 DEF TabsMade
<1>5. IdsRun /\ Same => IdsRun'
    BY DEF IdsRun, build
<1>6. ASSUME HomeInv, stage = "checks", Same, sources' = sources, Kept
      PROVE  HomeInv'
  <2>1. HomeTypes /\ TabsMade /\ IdsRun
      BY <1>6 DEF HomeInv
  <2>2. HomeTypes' /\ TabsMade' /\ IdsRun'
      BY <1>2, <1>4, <1>5, <1>6, <2>1
  <2> QED
      BY <1>6, <2>2 DEF HomeInv
<1> HIDE DEF Same
<1>7. HomeInv /\ ImportFails => HomeInv'
  <2>1. HomeTypes /\ ImportFails => Same /\ Kept /\ ~Done'
      BY DEF ImportFails, HomeTypes, Same, Done
  <2> QED
      BY <1>1, <1>3, <2>1
<1>8. HomeInv /\ TooLarge => HomeInv'
  <2>1. HomeTypes /\ TooLarge => Same /\ Kept /\ ~Done'
      BY DEF TooLarge, HomeTypes, Same, Done
  <2> QED
      BY <1>1, <1>3, <2>1
<1>9. HomeInv /\ WriteFile => HomeInv'
  <2>1. HomeTypes /\ WriteFile => Same /\ Kept /\ stage = "checks" /\ sources' = sources
      BY DEF WriteFile, HomeTypes, Same
  <2> QED
      BY <1>1, <1>6, <2>1
<1>10. HomeInv /\ CheckFile => HomeInv'
  <2>1. HomeTypes /\ CheckFile => Same /\ Kept /\ stage = "checks" /\ sources' = sources
      BY DEF CheckFile, HomeTypes, Same
  <2> QED
      BY <1>1, <1>6, <2>1
<1>11. ASSUME NEW c \in ToSet(Systems), HomeInv, SystemFails(c)
       PROVE  HomeInv'
  <2>1. HomeTypes => Same /\ Kept /\ ~Done'
      BY <1>11 DEF SystemFails, HomeTypes, Same, Done
  <2> QED
      BY <1>1, <1>3, <1>11, <2>1
<1>12. ASSUME NEW s \in Sources, HomeInv, EditSources(s)
       PROVE  HomeInv'
  <2>1. HomeTypes => Same /\ Kept /\ ~Done'
      BY <1>12 DEF EditSources, HomeTypes, Same, Done
  <2> QED
      BY <1>1, <1>3, <1>12, <2>1
<1>13. ASSUME HomeInv, UNCHANGED dvars
       PROVE  HomeInv'
  <2>1. Same /\ sources' = sources /\ stage' = stage /\ checkSays' = checkSays
      BY <1>13 DEF dvars, Same
  <2>2. HomeTypes'
      BY <1>1, <1>13, <2>1 DEF HomeTypes, Same, build
  <2>3. (stage # "idle" \/ Done)' => TabsMade'
    <3>1. (stage # "idle" \/ Done)' => stage # "idle" \/ Done
        BY <2>1 DEF Done
    <3>2. (stage # "idle" \/ Done) => TabsMade
        BY <1>13 DEF HomeInv
    <3> QED
        BY <1>4, <2>1, <3>1, <3>2
  <2>4. (stage = "systems")' => Assembling'
    <3>1. stage = "systems" => Assembling
        BY <1>13 DEF HomeInv
    <3> QED
        BY <2>1, <3>1 DEF Assembling, Same, build
  <2>5. (stage = "checks" \/ Done)' => IdsRun'
    <3>1. (stage = "checks" \/ Done)' => stage = "checks" \/ Done
        BY <2>1 DEF Done
    <3>2. (stage = "checks" \/ Done) => IdsRun
        BY <1>13 DEF HomeInv
    <3> QED
        BY <1>5, <2>1, <3>1, <3>2
  <2> QED
      BY <2>2, <2>3, <2>4, <2>5 DEF HomeInv
<1> QED
    BY <1>7, <1>8, <1>9, <1>10, <1>11, <1>12, <1>13

-----------------------------------------------------------------------------
(* HomeDashboard.  What a rendered dashboard shows.                        *)

\* What HomeInv says of a run that is over.
LEMMA DoneTabs == ASSUME HomeInv, Done
    PROVE  /\ TabsMade /\ IdsRun /\ sources \in Sources
           /\ Len(tabs) = Len(Systems) + 1 /\ DOMAIN tabs = 1 .. Len(tabs) /\ Len(Systems) \in Nat
           /\ tabs[1] = FirstTab
           /\ \A t \in 2 .. Len(tabs) : /\ t - 1 \in 1 .. Len(Systems) /\ Systems[t - 1] \in ToSet(Systems)
                                        /\ tabs[t] = SystemTab(sources, Systems[t - 1]) /\ tabs[t].of = Systems[t - 1]
           /\ DOMAIN elements = 1 .. Len(elements)
<1>1. HomeTypes /\ TabsMade /\ IdsRun
    BY DEF HomeInv
<1>2. sources \in Sources /\ stage # "systems" /\ elements \in Seq(ElementNames \X Nat)
    BY <1>1 DEF HomeTypes, Done, Dicts
<1>3. Len(tabs) = Len(Systems) + 1 /\ tabs = TabsOf(sources, Len(tabs)) /\ Len(Systems) \in Nat
    BY <1>1, <1>2, SystemsAre DEF TabsMade
<1>4. Len(tabs) \in Nat /\ 1 <= Len(tabs) /\ Len(tabs) <= Len(Systems) + 1
    BY <1>3
<1>5. /\ DOMAIN tabs = 1 .. Len(tabs) /\ tabs[1] = FirstTab
      /\ \A t \in 2 .. Len(tabs) : tabs[t] = SystemTab(sources, Systems[t - 1])
  <2> DEFINE n == Len(tabs)
  <2> HIDE DEF n
  <2>1. n \in Nat /\ 1 <= n /\ n <= Len(Systems) + 1 /\ tabs = TabsOf(sources, n)
      BY <1>3, <1>4 DEF n
  <2>2. DOMAIN tabs = 1 .. n /\ tabs[1] = FirstTab /\ \A t \in 2 .. n : tabs[t] = SystemTab(sources, Systems[t - 1])
      BY <1>2, <2>1, TabsOfAre
  <2> QED
      BY <2>2 DEF n
<1>6. ASSUME NEW t \in 2 .. Len(tabs)
      PROVE  t - 1 \in 1 .. Len(Systems) /\ Systems[t - 1] \in ToSet(Systems) /\ tabs[t].of = Systems[t - 1]
  <2>1. t - 1 \in 1 .. Len(Systems)
      BY <1>3
  <2>2. Systems[t - 1] \in ToSet(Systems)
      BY <2>1, SystemsAre
  <2>3. tabs[t].of = Systems[t - 1]
      BY <1>2, <1>5, <2>2, SystemTabIs
  <2> QED
      BY <2>1, <2>2, <2>3
<1>7. DOMAIN elements = 1 .. Len(elements)
    BY <1>2
<1> QED
    BY <1>1, <1>2, <1>3, <1>5, <1>6, <1>7

\* A panel with a name of the first tab, and one with a name of a system's.
LEMMA FirstElement == ASSUME HomeInv, Done, NEW name \in OfFirst
    PROVE  Element(name) # {} /\ \A p \in Element(name) : p.of = "none" /\ p.names = {"none"}
<1>1. TabsMade /\ sources \in Sources /\ DOMAIN elements = 1 .. Len(elements)
    BY DoneTabs
<1>2. Element(name) # {}
  <2>1. HasElement(name)
      BY <1>1 DEF TabsMade
  <2>2. PICK i \in 1 .. Len(elements) : elements[i][1] = name
      BY <2>1 DEF HasElement
  <2>3. heap[elements[i][2]] \in Element(name)
      BY <1>1, <2>2 DEF Element
  <2> QED
      BY <2>3
<1>3. ASSUME NEW p \in Element(name)
      PROVE  p.of = "none" /\ p.names = {"none"}
  <2>1. PICK i \in 1 .. Len(elements) : elements[i][1] = name /\ p = heap[elements[i][2]]
      BY <1>1 DEF Element
  <2>2. ShowsIts(name, p)
      BY <1>1, <2>1 DEF TabsMade
  <2>3. ASSUME NEW t \in 2 .. Len(tabs), NEW n \in OnTab(sources, Systems[t - 1])
        PROVE  name # Prefix(Systems[t - 1], n)
    <3>1. Systems[t - 1] \in ToSet(Systems)
        BY DoneTabs
    <3> QED
        BY <1>1, <3>1, PrefixTells
  <2> QED
      BY <2>2, <2>3 DEF ShowsIts
<1> QED
    BY <1>2, <1>3

LEMMA OwnElement == ASSUME HomeInv, Done, NEW t \in 2 .. Len(tabs), NEW n \in OnTab(sources, Systems[t - 1])
    PROVE  /\ Element(Prefix(Systems[t - 1], n)) # {}
           /\ \A p \in Element(Prefix(Systems[t - 1], n)) : IsOwn(Systems[t - 1], n, p)
<1> DEFINE c == Systems[t - 1]
           name == Prefix(c, n)
<1>1. TabsMade /\ sources \in Sources /\ DOMAIN elements = 1 .. Len(elements) /\ c \in ToSet(Systems)
    BY DoneTabs
<1>2. Element(name) # {}
  <2>1. HasElement(name)
      BY <1>1 DEF TabsMade
  <2> HIDE DEF name
  <2>2. PICK i \in 1 .. Len(elements) : elements[i][1] = name
      BY <2>1 DEF HasElement
  <2>3. heap[elements[i][2]] \in Element(name)
      BY <1>1, <2>2 DEF Element
  <2> QED
      BY <2>3
<1>3. ASSUME NEW p \in Element(name)
      PROVE  IsOwn(c, n, p)
  <2>1. PICK i \in 1 .. Len(elements) : elements[i][1] = name /\ p = heap[elements[i][2]]
      BY <1>1 DEF Element
  <2>2. ShowsIts(name, p)
      BY <1>1, <2>1 DEF TabsMade
  <2>3. name \notin OfFirst
      BY <1>1, PrefixTells
  <2> HIDE DEF name
  <2>4. PICK u \in 2 .. Len(tabs) : \E o \in OnTab(sources, Systems[u - 1]) :
                 name = Prefix(Systems[u - 1], o) /\ IsOwn(Systems[u - 1], o, p)
      BY <2>2, <2>3 DEF ShowsIts
  <2>5. PICK o \in OnTab(sources, Systems[u - 1]) : name = Prefix(Systems[u - 1], o) /\ IsOwn(Systems[u - 1], o, p)
      BY <2>4
  <2>6. Systems[u - 1] \in ToSet(Systems)
      BY DoneTabs
  <2>7. Systems[u - 1] = c /\ o = n
      BY <1>1, <2>5, <2>6, PrefixTells DEF name
  <2> QED
      BY <2>5, <2>7
<1> QED
    BY <1>2, <1>3

LEMMA ReferencesAre == ASSUME HomeInv, Done
    PROVE  /\ References(1) \subseteq OfFirst
           /\ \A t \in 2 .. Len(tabs) : \A name \in References(t) :
                 \E n \in OnTab(sources, Systems[t - 1]) : name = Prefix(Systems[t - 1], n)
<1>1. References(1) \subseteq OfFirst
    BY DoneTabs, FirstTabIs DEF References
<1>2. ASSUME NEW t \in 2 .. Len(tabs), NEW name \in References(t)
      PROVE  \E n \in OnTab(sources, Systems[t - 1]) : name = Prefix(Systems[t - 1], n)
  <2> DEFINE c == Systems[t - 1]
  <2>1. tabs[t] = SystemTab(sources, c) /\ c \in ToSet(Systems) /\ sources \in Sources
      BY DoneTabs
  <2>2. PICK r \in DOMAIN SystemTab(sources, c).rows : name \in ToSet(SystemTab(sources, c).rows[r].names)
      BY <2>1 DEF References
  <2> HIDE DEF c
  <2>3. \A s \in DOMAIN SystemTab(sources, c).rows : \A x \in ToSet(SystemTab(sources, c).rows[s].names) :
            \E n \in OnTab(sources, c) : x = Prefix(c, n)
      BY <2>1, SystemTabIs
  <2> QED
      BY <2>2, <2>3 DEF c
<1> QED
    BY <1>1, <1>2

LEMMA TheyResolve == HomeInv => ReferencesResolve
<1> SUFFICES ASSUME HomeInv, Done
             PROVE  /\ \A t \in DOMAIN tabs : \A name \in References(t) : Element(name) # {}
                    /\ Len(tabs) = Len(Systems) + 1
                    /\ \A t \in 2 .. Len(tabs) :
                          LET page == sources.pages[tabs[t].of]
                          IN /\ Len(tabs[t].rows) = Len(page) + 1
                             /\ \A i \in DOMAIN page : \A j \in DOMAIN sources.rows[page[i]].cells :
                                   \E p \in Element(tabs[t].rows[i + 1].names[j]) :
                                       Alike(p, NamedIn(sources.rows[page[i]].cells[j]))
    BY DEF ReferencesResolve
<1>1. Len(tabs) = Len(Systems) + 1 /\ DOMAIN tabs = 1 .. Len(tabs) /\ Len(Systems) \in Nat /\ sources \in Sources
    BY DoneTabs
<1>2. ASSUME NEW t \in DOMAIN tabs, NEW name \in References(t)
      PROVE  Element(name) # {}
  <2>1. CASE t = 1
      BY <1>2, <2>1, ReferencesAre, FirstElement
  <2>2. CASE t \in 2 .. Len(tabs)
    <3>1. PICK n \in OnTab(sources, Systems[t - 1]) : name = Prefix(Systems[t - 1], n)
        BY <1>2, <2>2, ReferencesAre
    <3> QED
        BY <2>2, <3>1, OwnElement
  <2>3. t = 1 \/ t \in 2 .. Len(tabs)
      BY <1>1
  <2> QED
      BY <2>1, <2>2, <2>3
<1>3. ASSUME NEW t \in 2 .. Len(tabs)
      PROVE  LET page == sources.pages[tabs[t].of]
             IN /\ Len(tabs[t].rows) = Len(page) + 1
                /\ \A i \in DOMAIN page : \A j \in DOMAIN sources.rows[page[i]].cells :
                      \E p \in Element(tabs[t].rows[i + 1].names[j]) :
                          Alike(p, NamedIn(sources.rows[page[i]].cells[j]))
  <2> DEFINE c == Systems[t - 1]
             page == sources.pages[c]
             tab == SystemTab(sources, c)
  <2>1. tabs[t] = tab /\ tabs[t].of = c /\ c \in ToSet(Systems)
      BY DoneTabs
  <2>2. Len(tab.rows) = Len(page) + 1 /\ \A i \in 1 .. Len(page) : tab.rows[i + 1] = RowFor(c, sources.rows[page[i]])
      BY <1>1, <2>1, SystemTabIs
  <2>3. page \in Seq(DOMAIN sources.rows)
      BY <1>1, <2>1, PagesAre
  <2> HIDE DEF page, tab
  <2>4. DOMAIN page = 1 .. Len(page)
      BY <2>3
  <2>5. ASSUME NEW i \in DOMAIN page, NEW j \in DOMAIN sources.rows[page[i]].cells
        PROVE  \E p \in Element(tab.rows[i + 1].names[j]) : Alike(p, NamedIn(sources.rows[page[i]].cells[j]))
    <3> DEFINE cells == sources.rows[page[i]].cells
               cell == cells[j]
    <3>1. tab.rows[i + 1] = RowFor(c, sources.rows[page[i]])
        BY <2>2, <2>4
    <3>2. tab.rows[i + 1].names[j] = Prefix(c, NameOf(cell))
        BY <3>1 DEF RowFor, RowOf
    <3>3. cell \in ToSet(cells)
        BY DEF ToSet
    <3>4. cell \in PageCells(sources, c)
        BY <2>4, <3>3 DEF PageCells, page
    <3>5. NameOf(cell) \in OnTab(sources, c)
        BY <3>4 DEF OnTab, OnPage
    <3> HIDE DEF cell
    <3>6. Element(Prefix(c, NameOf(cell))) # {} /\ \A p \in Element(Prefix(c, NameOf(cell))) : IsOwn(c, NameOf(cell), p)
        BY <3>5, OwnElement
    <3>7. PICK p \in Element(Prefix(c, NameOf(cell))) : IsOwn(c, NameOf(cell), p)
        BY <3>6
    <3>8. Alike(p, NamedIn(cell))
        BY <3>4, <3>7 DEF IsOwn
    <3> QED
        BY <3>2, <3>8 DEF cell
  <2> QED
      BY <2>1, <2>2, <2>5 DEF page
<1> QED
    BY <1>1, <1>2, <1>3

LEMMA TheyKeepTheirOwn == HomeInv => TabsKeepTheirOwn
<1> SUFFICES ASSUME HomeInv, Done
             PROVE  /\ \A t, u \in DOMAIN tabs : t # u => References(t) \cap References(u) = {}
                    /\ \A i \in DOMAIN elements : heap[elements[i][2]].id = i
    BY DEF TabsKeepTheirOwn
<1>1. /\ IdsRun /\ DOMAIN tabs = 1 .. Len(tabs) /\ Len(tabs) = Len(Systems) + 1 /\ Len(Systems) \in Nat
      /\ sources \in Sources /\ DOMAIN elements = 1 .. Len(elements)
    BY DoneTabs
<1>2. \A t \in 1 .. Len(tabs) : t = 1 \/ t \in 2 .. Len(tabs)
    BY <1>1
<1>3. ASSUME NEW u \in 2 .. Len(tabs), NEW name \in References(u)
      PROVE  name \notin References(1)
  <2>1. PICK n \in OnTab(sources, Systems[u - 1]) : name = Prefix(Systems[u - 1], n)
      BY <1>3, ReferencesAre
  <2>2. Systems[u - 1] \in ToSet(Systems)
      BY DoneTabs
  <2>3. name \notin OfFirst
      BY <1>1, <2>1, <2>2, PrefixTells
  <2> QED
      BY <2>3, ReferencesAre
<1>4. ASSUME NEW t \in 2 .. Len(tabs), NEW u \in 2 .. Len(tabs), t # u, NEW name \in References(t)
      PROVE  name \notin References(u)
  <2> SUFFICES ASSUME name \in References(u)
               PROVE  FALSE
      OBVIOUS
  <2>1. PICK n \in OnTab(sources, Systems[t - 1]) : name = Prefix(Systems[t - 1], n)
      BY <1>4, ReferencesAre
  <2>2. PICK o \in OnTab(sources, Systems[u - 1]) : name = Prefix(Systems[u - 1], o)
      BY ReferencesAre
  <2>3. /\ Systems[t - 1] \in ToSet(Systems) /\ Systems[u - 1] \in ToSet(Systems)
        /\ t - 1 \in 1 .. Len(Systems) /\ u - 1 \in 1 .. Len(Systems)
      BY DoneTabs
  <2>4. Systems[t - 1] = Systems[u - 1]
    <3> DEFINE c == Systems[t - 1]
               d == Systems[u - 1]
    <3>1. c \in ToSet(Systems) /\ d \in ToSet(Systems) /\ n \in OnTab(sources, c) /\ o \in OnTab(sources, d)
          /\ Prefix(c, n) = Prefix(d, o)
        BY <2>1, <2>2, <2>3
    <3> HIDE DEF c, d
    <3>2. c = d
        BY <1>1, <3>1, PrefixTells
    <3> QED
        BY <3>2 DEF c, d
  <2>5. t - 1 = u - 1
      BY <2>3, <2>4, SystemsAre
  <2> QED
      BY <1>4, <2>5
<1>5. ASSUME NEW t \in 1 .. Len(tabs), NEW u \in 1 .. Len(tabs), t # u
      PROVE  References(t) \cap References(u) = {}
  <2>1. CASE t = 1 /\ u \in 2 .. Len(tabs)
      BY <1>3, <2>1
  <2>2. CASE u = 1 /\ t \in 2 .. Len(tabs)
      BY <1>3, <2>2
  <2>3. CASE t \in 2 .. Len(tabs) /\ u \in 2 .. Len(tabs)
      BY <1>4, <1>5, <2>3
  <2> QED
      BY <1>2, <1>5, <2>1, <2>2, <2>3
<1> QED
    BY <1>1, <1>5 DEF IdsRun

LEMMA EditsDoStay == HomeInv => EditsStayOnTheirTab
<1> SUFFICES ASSUME HomeInv, Done, NEW t \in DOMAIN tabs
             PROVE  /\ \A name \in References(t) : \A p \in Element(name) :
                          /\ p.names \in {{}, {"none"}, {p.of}} /\ tabs[t].of \notin p.names
                          /\ p.names = {} => p.of = tabs[t].of
                          /\ p.links # {} => t = 1
                    /\ t > 1 => \A i \in DOMAIN sources.pages[tabs[t].of] :
                          tabs[t].rows[i + 1].title =
                              Untitled(tabs[t].of, sources.rows[sources.pages[tabs[t].of][i]].title)
    BY DEF EditsStayOnTheirTab
<1>1. /\ DOMAIN tabs = 1 .. Len(tabs) /\ Len(tabs) = Len(Systems) + 1 /\ Len(Systems) \in Nat /\ sources \in Sources
      /\ tabs[1] = FirstTab
    BY DoneTabs
<1>2. CASE t = 1
  <2>1. tabs[t].of = "Everything" /\ ~(t > 1)
      BY <1>1, <1>2, FirstTabIs
  <2>2. ASSUME NEW name \in References(t), NEW p \in Element(name)
        PROVE  p.names = {"none"}
    <3>1. name \in OfFirst
        BY <1>2, <2>2, ReferencesAre
    <3> QED
        BY <2>2, <3>1, FirstElement
  <2>3. "Everything" # "none"
      OBVIOUS
  <2> QED
      BY <1>2, <2>1, <2>2, <2>3
<1>3. CASE t # 1
  <2> DEFINE c == Systems[t - 1]
             page == sources.pages[c]
             tab == SystemTab(sources, c)
  <2>1. t \in 2 .. Len(tabs)
      BY <1>1, <1>3
  <2>2. tabs[t] = tab /\ tabs[t].of = c /\ c \in ToSet(Systems)
      BY <2>1, DoneTabs
  <2>3. ASSUME NEW name \in References(t), NEW p \in Element(name)
        PROVE  /\ p.names \in {{}, {"none"}, {p.of}} /\ c \notin p.names /\ (p.names = {} => p.of = c)
               /\ p.links = {}
    <3>1. PICK n \in OnTab(sources, c) : name = Prefix(c, n)
        BY <2>1, <2>3, ReferencesAre
    <3>2. IsOwn(c, n, p)
        BY <2>1, <2>3, <3>1, OwnElement
    <3> QED
        BY <3>2 DEF IsOwn
  <2>4. page \in Seq(DOMAIN sources.rows)
      BY <1>1, <2>2, PagesAre
  <2>5. \A i \in 1 .. Len(page) : tab.rows[i + 1] = RowFor(c, sources.rows[page[i]])
      BY <1>1, <2>2, SystemTabIs
  <2> HIDE DEF page, tab, c
  <2>6. \A i \in DOMAIN page : tab.rows[i + 1].title = Untitled(c, sources.rows[page[i]].title)
    <3>1. \A r : RowFor(c, r).title = Untitled(c, r.title)
        BY DEF RowFor, RowOf
    <3>2. DOMAIN page = 1 .. Len(page)
        BY <2>4
    <3> QED
        BY <2>5, <3>1, <3>2
  <2> QED
      BY <2>2, <2>3, <2>6 DEF page
<1> QED
    BY <1>2, <1>3

LEMMA TheyStayOnTheRightTab == HomeInv => NoWidgetOnTheWrongTab
<1> SUFFICES ASSUME HomeInv, Done, NEW t \in 2 .. Len(tabs), NEW name \in References(t), NEW p \in Element(name)
             PROVE  p.vars \subseteq Allowed[tabs[t].of]
    BY DEF NoWidgetOnTheWrongTab
<1>1. PICK n \in OnTab(sources, Systems[t - 1]) : name = Prefix(Systems[t - 1], n)
    BY ReferencesAre
<1>2. IsOwn(Systems[t - 1], n, p)
    BY <1>1, OwnElement
<1>3. tabs[t].of = Systems[t - 1]
    BY DoneTabs
<1> QED
    BY <1>2, <1>3 DEF IsOwn

LEMMA HomeIsTyped == HomeInv => HomeTypeOK
<1> SUFFICES ASSUME HomeInv
             PROVE  HomeTypeOK
    OBVIOUS
<1>1. HomeTypes
    BY DEF HomeInv
<1>2. elements \in Seq(ElementNames \X Nat) /\ Keyed(elements) /\ heap \in Seq(HomePanels)
    BY <1>1 DEF HomeTypes, Dicts
<1>3. DOMAIN elements = 1 .. Len(elements) /\ DOMAIN heap = 1 .. Len(heap)
    BY <1>2
<1>4. Len(tabs) <= Len(Systems) + 1
  <2>1. PICK s \in Sources : \E n \in 0 .. Len(Systems) + 1 : tabs = TabsOf(s, n)
      BY <1>1 DEF HomeTypes
  <2>2. PICK n \in 0 .. Len(Systems) + 1 : tabs = TabsOf(s, n)
      BY <2>1
  <2>3. n \in Nat /\ n <= Len(Systems) + 1
      BY SystemsAre
  <2>4. Len(TabsOf(s, n)) = n
      BY <2>3, TabsOfAre
  <2> QED
      BY <2>2, <2>3, <2>4
<1>5. \A i, j \in DOMAIN elements : elements[i][1] = elements[j][1] => i = j
    BY <1>2, <1>3 DEF Keyed
<1> QED
    BY <1>1, <1>3, <1>4, <1>5 DEF HomeTypes, HomeTypeOK

\* Whatever is edited between the runs of the generator, the tabs it renders show each
\* panel as its widget and its tab say, and no tab has another's.
THEOREM HomeIsSafe == HomeSpec => []HomeSafe
<1>1. HomeInit => HomeInv
    BY HomeStarts
<1>2. HomeInv /\ [HomeNext]_dvars => HomeInv'
  <2> SUFFICES ASSUME HomeInv, [HomeNext]_dvars
               PROVE  HomeInv'
      OBVIOUS
  <2>1. CASE UNCHANGED dvars
      BY <2>1, OtherStepsKeep
  <2>2. CASE ImportFails
      BY <2>2, OtherStepsKeep
  <2>3. CASE Everything
      BY <2>3, EverythingKeeps
  <2>4. CASE Number
      BY <2>4, NumberKeeps
  <2>5. CASE TooLarge
      BY <2>5, OtherStepsKeep
  <2>6. CASE WriteFile
      BY <2>6, OtherStepsKeep
  <2>7. CASE CheckFile
      BY <2>7, OtherStepsKeep
  <2>8. CASE \E c \in ToSet(Systems) : System(c)
      BY <2>8, SystemKeeps
  <2>9. CASE \E c \in ToSet(Systems) : SystemFails(c)
      BY <2>9, OtherStepsKeep
  <2>10. CASE \E s \in Sources : EditSources(s)
      BY <2>10, OtherStepsKeep
  <2> QED
      BY <2>1, <2>2, <2>3, <2>4, <2>5, <2>6, <2>7, <2>8, <2>9, <2>10 DEF HomeNext
<1>3. HomeInv => HomeSafe
    BY HomeIsTyped, TheyResolve, TheyKeepTheirOwn, EditsDoStay, TheyStayOnTheRightTab DEF HomeSafe
<1> QED
    BY <1>1, <1>2, <1>3, PTL DEF HomeSpec

\* The tabs the generator makes, and the lists the board on them shows, are both as promised.
THEOREM HomePageIsSafe == HomeSpec /\ OverviewSpec => []HomePageSafe
<1>1. HomeSafe /\ OverviewSafe => HomePageSafe
    BY DEF HomePageSafe
<1> QED
    BY <1>1, HomeIsSafe, OverviewIsSafe, PTL
=============================================================================
