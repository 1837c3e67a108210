-------------------------- MODULE HostSwitchProofs --------------------------
(***************************************************************************)
(* The properties of the Hosts page, for every set of hosts and any number *)
(* of faults and reloads.                                                  *)
(*                                                                         *)
(* Two invariants carry them.  FlagsInv ties the flags, the buttons, the   *)
(* message and the place where requestSwitch waits to each other; it       *)
(* mentions no host.  PortInv says what is known of the switch while a     *)
(* pulse is under way, which ClaimedPort alone does not: it speaks only    *)
(* of the moments when none is.                                            *)
(***************************************************************************)
EXTENDS HostSwitch, TLAPS

\* A switch waits somewhere exactly while isSwitching is set, and only an
\* authenticated page switches.
SwitchShape ==
    /\ (mode = "switching") <=> (step # "none")
    /\ mode = "switching" => auth = "in" /\ status = "pending"
    /\ mode = "halted" => status = "halted"

\* What each wait says of the request and of what is known of it.
StepShape ==
    /\ step \in {"baseline", "video"} => pulse = "none" /\ outcome = "known"
    /\ step = "pulse" => pulse # "none"
    /\ step = "body" => pulse = "delivered"
    /\ mode = "idle" => pulse = "none" /\ outcome = "known"
    /\ step # "none" \/ pulse # "none" => target \in Hosts

FlagsInv == TypeOK /\ ButtonsAgree /\ KeepsAsking /\ SwitchShape /\ StepShape

\* Unless another page's pulse interfered, the switch shows the target once the
\* pulse has landed and the last requested host otherwise.
PortInv ==
    mode # "halted" /\ disturbed = "no" =>
        /\ pulse = "delivered" => port = target
        /\ pulse # "delivered" /\ lastRequested # None => port = lastRequested

-----------------------------------------------------------------------------
\* The page starts signed out, with its first check under way.
LEMMA FlagsInit == Init => FlagsInv
BY HostsAssumption
   DEF Init, FlagsInv, TypeOK, ButtonsAgree, KeepsAsking, SwitchShape, StepShape

\* Every handler leaves flags, buttons, message and waits in agreement.
LEMMA FlagsStep == FlagsInv /\ [Next]_vars => FlagsInv'
<1> SUFFICES ASSUME FlagsInv, [Next]_vars
             PROVE  FlagsInv'
    OBVIOUS
<1> USE HostsAssumption
    DEF FlagsInv, TypeOK, ButtonsAgree, KeepsAsking, SwitchShape, StepShape,
        page, request, appliance
<1>1. ASSUME SignIn \/ SessionExpires \/ CheckAnswered
      PROVE  FlagsInv'
    BY <1>1 DEF SignIn, SessionExpires, CheckAnswered
<1>2. CASE PulseHandled
    BY <1>2 DEF PulseHandled
<1>3. CASE \E h \in Hosts : OrphanHandled(h)
    BY <1>3 DEF OrphanHandled
<1>4. CASE Reload
    BY <1>4 DEF Reload, Fresh
<1>5. CASE PollFires
    BY <1>5 DEF PollFires, CheckStarts
<1>6. CASE CheckDenied
    BY <1>6 DEF CheckDenied, Applies, SignedOut
<1>7. CASE CheckFails
    BY <1>7 DEF CheckFails, Applies, SignedOut, PollAfterError
<1>8. CASE CheckGranted
    BY <1>8 DEF CheckGranted, Applies
<1>9. CASE CheckRead
    BY <1>9 DEF CheckRead, Applies, Enabled, Report
<1>10. ASSUME NEW ready \in {"ready", "loading"}, FrameLoads(ready)
       PROVE  FlagsInv'
    BY <1>10 DEF FrameLoads, ConsoleIs, CheckStarts, Enabled, Report
<1>11. CASE ConsoleChanges
    BY <1>11 DEF ConsoleChanges, ConsoleIs, Enabled, Report
<1>12. ASSUME NEW h \in Hosts, Click(h)
       PROVE  FlagsInv'
    BY <1>12 DEF Click
<1>13. CASE SendPulse
    BY <1>13 DEF SendPulse
<1>14. CASE PulseRefused
    BY <1>14 DEF PulseRefused
<1>15. CASE PulseFails
    BY <1>15 DEF PulseFails, ModeAfterFailure
<1>16. CASE PulseAnswered
    BY <1>16 DEF PulseAnswered
<1>17. CASE PulseAccepted
    BY <1>17 DEF PulseAccepted
<1>18. CASE VideoWatched
    BY <1>18 DEF VideoWatched, Enabled, Report
<1>19. CASE UNCHANGED vars
    BY <1>19 DEF vars
<1>20. QED
    BY <1>1, <1>2, <1>3, <1>4, <1>5, <1>6, <1>7, <1>8, <1>9, <1>10, <1>11,
       <1>12, <1>13, <1>14, <1>15, <1>16, <1>17, <1>18, <1>19
       DEF Next, Check, Switch

\* Every behaviour keeps them in agreement.
THEOREM FlagsHold == Spec => []FlagsInv
BY FlagsInit, FlagsStep, PTL DEF Spec

-----------------------------------------------------------------------------
\* Type correctness.
THEOREM TypeCorrect == Spec => []TypeOK
BY FlagsHold, PTL DEF FlagsInv

\* The buttons invite a click exactly when requestSwitch would act on one.
THEOREM ButtonsHold == Spec => []ButtonsAgree
BY FlagsHold, PTL DEF FlagsInv

\* A signed-out page that is not halted has a check under way or a timer running.
THEOREM AskingHolds == Spec => []KeepsAsking
BY FlagsHold, PTL DEF FlagsInv

\* A pulse leaves only a page that knows how its last one ended.
THEOREM NoPulseInDoubtHolds == Spec => NoPulseInDoubt
<1>1. FlagsInv /\ [Next]_vars => [step # "pulse" /\ step' = "pulse" => outcome = "known"]_vars
  <2> SUFFICES ASSUME FlagsInv, Next, step # "pulse", step' = "pulse"
               PROVE  outcome = "known"
      BY DEF vars
  <2>1. SendPulse
      BY DEF Next, Check, Switch, request, SignIn, SessionExpires, Reload, Fresh, PollFires,
             CheckAnswered, CheckDenied, CheckFails, CheckGranted, CheckRead,
             PulseHandled, PulseRefused, PulseFails, PulseAnswered, PulseAccepted,
             VideoWatched, Click, OrphanHandled, FrameLoads, ConsoleChanges
  <2>2. QED
      BY <2>1 DEF SendPulse, FlagsInv, StepShape
<1>2. QED
    BY <1>1, FlagsHold, PTL DEF Spec, NoPulseInDoubt

-----------------------------------------------------------------------------
\* Every step keeps what is known of the switch.
LEMMA PortStep == FlagsInv /\ PortInv /\ [Next]_vars => PortInv'
<1> SUFFICES ASSUME FlagsInv, PortInv, [Next]_vars
             PROVE  PortInv'
    OBVIOUS
<1> USE HostsAssumption
    DEF FlagsInv, PortInv, TypeOK, SwitchShape, StepShape, page, request, appliance
<1>1. CASE PulseHandled
    BY <1>1 DEF PulseHandled
<1>2. ASSUME NEW h \in Hosts, OrphanHandled(h)
      PROVE  PortInv'
    BY <1>2 DEF OrphanHandled
<1>3. CASE Reload
    BY <1>3 DEF Reload, Fresh
<1>4. ASSUME NEW h \in Hosts, Click(h)
      PROVE  PortInv'
    BY <1>4 DEF Click
<1>5. CASE SendPulse
    BY <1>5 DEF SendPulse
<1>6. CASE PulseRefused
    BY <1>6 DEF PulseRefused
<1>7. CASE PulseFails
    BY <1>7 DEF PulseFails, ModeAfterFailure
<1>8. CASE PulseAccepted
    BY <1>8 DEF PulseAccepted
<1>9. CASE PulseAnswered \/ VideoWatched
    BY <1>9 DEF PulseAnswered, VideoWatched
<1>10. CASE SignIn \/ SessionExpires \/ PollFires
    BY <1>10 DEF SignIn, SessionExpires, PollFires
<1>11. CASE Check
    BY <1>11 DEF Check, CheckAnswered, CheckDenied, CheckFails, CheckGranted,
                 CheckRead, SignedOut
<1>12. CASE ConsoleChanges \/ \E ready \in {"ready", "loading"} : FrameLoads(ready)
    BY <1>12 DEF ConsoleChanges, FrameLoads, ConsoleIs
<1>13. CASE UNCHANGED vars
    BY <1>13 DEF vars
<1>14. QED
    BY <1>1, <1>2, <1>3, <1>4, <1>5, <1>6, <1>7, <1>8, <1>9, <1>10, <1>11, <1>12,
       <1>13
       DEF Next, Switch

\* Between switches, and unless a pulse of an earlier page interfered, the host
\* shown as last requested is the one the switch shows.
THEOREM ClaimedPortHolds == Spec => []ClaimedPort
<1>1. Init => PortInv
    BY DEF Init, PortInv
<1>2. FlagsInv /\ PortInv => ClaimedPort
    BY DEF FlagsInv, StepShape, PortInv, ClaimedPort
<1>3. QED
    BY <1>1, <1>2, PortStep, FlagsHold, PTL DEF Spec

\* The page's safety as a whole.
THEOREM PageIsSafe == Spec => []PageSafe
BY TypeCorrect, ButtonsHold, AskingHolds, ClaimedPortHolds, PTL DEF PageSafe
=============================================================================
