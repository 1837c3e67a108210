------------------------- MODULE ConsoleSessionProofs -------------------------
(***************************************************************************)
(* What ConsoleSession.tla and the drill of the logging pipeline promise,  *)
(* for every configuration, one after the other.                           *)
(*                                                                         *)
(* The properties of one cycle need to know which requests the cycle can   *)
(* still send (CycleInv); the spacing of logins needs the backoff tied to  *)
(* the count of refusals and to the time already waited (SpacingInv).  The *)
(* rows the drill still misses, cut where the log is read next, fall into  *)
(* no more ranges than losses (LossInv).                                   *)
(***************************************************************************)
EXTENDS ConsoleSession, DeliveryDrill, FiniteSetTheorems, SequenceTheorems,
        NaturalsInduction, WellFoundedInduction, TLAPS

\* A session from an earlier cycle has not been replaced yet, and a session of
\* this cycle cost the one login: a refused read of it ends the cycle.
CycleInv ==
    /\ pc = "asking" =>
          /\ pages >= 1
          /\ reads + pages = MaxPages + refusedReads
          /\ refusedReads <= 1
    /\ pc = "asking" /\ fresh = "earlier" =>
          /\ logins = 0
          /\ token = "held" => refusedReads = 0
    /\ pc = "asking" /\ fresh = "this_cycle" => logins = 1 /\ token = "held"
    /\ CycleIsBounded

QuietInv == quiet <= requestsAfter

\* Only an accepted read clears the backoff; it equals the spacing owed, and
\* what is not waited yet is still on the login timer.
SpacingInv ==
    /\ refusals = 0 => backoff = 0
    /\ refusals > 0 =>
          /\ Spacing[refusals] >= Poll
          /\ backoff = Spacing[refusals]
          /\ loginAfter + sinceRefusal >= Spacing[refusals]

IInv == TypeOK /\ CycleInv /\ QuietInv /\ SpacingInv

-----------------------------------------------------------------------------
LEMMA Bounds ==
    /\ Poll \in Nat /\ MaxBackoff \in Nat /\ MaxRefusals \in Nat
    /\ Poll > 0 /\ Poll <= MaxBackoff /\ MaxRefusals > 0
  BY SessionAssumption

LEMMA InitIInv == Init => IInv
<1> SUFFICES ASSUME Init PROVE IInv
  OBVIOUS
<1>1. TypeOK
  BY SessionAssumption DEF Init, TypeOK
<1>2. CycleInv /\ QuietInv /\ SpacingInv
  BY SessionAssumption DEF Init, CycleInv, CycleIsBounded, QuietInv, SpacingInv
<1>3. QED
  BY <1>1, <1>2 DEF IInv

LEMMA TypeStep == TypeOK /\ CycleInv /\ [Next]_vars => TypeOK'
<1> SUFFICES ASSUME TypeOK, CycleInv, [Next]_vars PROVE TypeOK'
  OBVIOUS
<1>1. CASE Tick
  BY <1>1, SessionAssumption
      DEF Tick, Less, Larger, Smaller, client, server, cycle, TypeOK, CycleInv
<1>2. CASE EndSession
  BY <1>2, SessionAssumption
      DEF EndSession, FaultyEvent, clocks, client, cycle, TypeOK, CycleInv
<1>3. CASE AccountBreaks
  BY <1>3, SessionAssumption
      DEF AccountBreaks, FaultyEvent, clocks, client, cycle, TypeOK, CycleInv
<1>4. CASE AccountRepaired
  BY <1>4, SessionAssumption
      DEF AccountRepaired, clocks, client, cycle, TypeOK, CycleInv
<1>5. CASE Restart
  BY <1>5, SessionAssumption
      DEF Restart, FaultyEvent, server, TypeOK, CycleInv
<1>6. CASE BeginCycle
  BY <1>6, SessionAssumption
      DEF BeginCycle, FreshAtStart, clocks, server, TypeOK, CycleInv
<1>7. CASE StateUnavailable
  BY <1>7, SessionAssumption
      DEF StateUnavailable, EndCycle, FaultyEvent, client, server, TypeOK,
          CycleInv
<1>8. CASE RequestsHeld
  BY <1>8, SessionAssumption
      DEF RequestsHeld, EndCycle, client, server, TypeOK, CycleInv
<1>9. CASE LoginHeld
  BY <1>9, SessionAssumption
      DEF LoginHeld, EndCycle, MayAsk, client, server, TypeOK, CycleInv
<1>10. CASE NoPassword
  BY <1>10, SessionAssumption
      DEF NoPassword, MayLogin, MayAsk, EndCycle, FaultyEvent, client, server,
          TypeOK, CycleInv
<1>11. CASE LoginAccepted
  BY <1>11, SessionAssumption
      DEF LoginAccepted, MayLogin, MayAsk, FreshAfterLogin, BackoffAfterLogin,
          clocks, TypeOK, CycleInv
<1>12. CASE LoginRefused
  BY <1>12, SessionAssumption
      DEF LoginRefused, MayLogin, MayAsk, FaultyEvent, Refuse, NextBackoff,
          NoteRefusal, DropSession, EndCycle, Larger, Smaller, server, TypeOK,
          CycleInv
<1>13. CASE LoginLost
  BY <1>13, SessionAssumption
      DEF LoginLost, MayLogin, MayAsk, FaultyEvent, EndCycle, client, server,
          TypeOK, CycleInv
<1>14. CASE LoginLimited
  BY <1>14, SessionAssumption
      DEF LoginLimited, MayLogin, MayAsk, FaultyEvent, RateLimited, Honoured,
          EndCycle, Larger, Smaller, client, server, TypeOK, CycleInv
<1>15. CASE ReadAnswered
  BY <1>15, SessionAssumption
      DEF ReadAnswered, MayRead, MayAsk, EndCycle, server, TypeOK, CycleInv
<1>16. CASE SessionEnded
  BY <1>16, SessionAssumption
      DEF SessionEnded, MayRead, MayAsk, DropSession, clocks, server, TypeOK,
          CycleInv
<1>17. CASE AccessDenied
  BY <1>17, SessionAssumption
      DEF AccessDenied, MayRead, MayAsk, Refuse, NextBackoff, NoteRefusal,
          DropSession, EndCycle, Larger, Smaller, server, TypeOK, CycleInv
<1>18. CASE ReadLimited
  BY <1>18, SessionAssumption
      DEF ReadLimited, MayRead, MayAsk, FaultyEvent, RateLimited, Honoured,
          EndCycle, Larger, Smaller, client, server, TypeOK, CycleInv
<1>19. CASE ReadLost
  BY <1>19, SessionAssumption
      DEF ReadLost, MayRead, MayAsk, FaultyEvent, EndCycle, client, server,
          TypeOK, CycleInv
<1>20. CASE UNCHANGED vars
  BY <1>20 DEF vars, clocks, client, server, cycle, TypeOK, CycleInv
<1>21. QED
  BY <1>1, <1>2, <1>3, <1>4, <1>5, <1>6, <1>7, <1>8, <1>9, <1>10, <1>11, <1>12,
     <1>13, <1>14, <1>15, <1>16, <1>17, <1>18, <1>19, <1>20
     DEF Next, Collector, Login, Read, Environment

LEMMA CycleStep == TypeOK /\ CycleInv /\ [Next]_vars => CycleInv'
<1> SUFFICES ASSUME TypeOK, CycleInv, [Next]_vars PROVE CycleInv'
  OBVIOUS
<1>1. CASE Tick
  BY <1>1, SessionAssumption
      DEF Tick, Less, Larger, Smaller, client, server, cycle, TypeOK, CycleInv,
          CycleIsBounded
<1>2. CASE EndSession
  BY <1>2, SessionAssumption
      DEF EndSession, FaultyEvent, clocks, client, cycle, TypeOK, CycleInv,
          CycleIsBounded
<1>3. CASE AccountBreaks
  BY <1>3, SessionAssumption
      DEF AccountBreaks, FaultyEvent, clocks, client, cycle, TypeOK, CycleInv,
          CycleIsBounded
<1>4. CASE AccountRepaired
  BY <1>4, SessionAssumption
      DEF AccountRepaired, clocks, client, cycle, TypeOK, CycleInv,
          CycleIsBounded
<1>5. CASE Restart
  BY <1>5, SessionAssumption
      DEF Restart, FaultyEvent, server, TypeOK, CycleInv, CycleIsBounded
<1>6. CASE BeginCycle
  BY <1>6, SessionAssumption
      DEF BeginCycle, FreshAtStart, clocks, server, TypeOK, CycleInv,
          CycleIsBounded
<1>7. CASE StateUnavailable
  BY <1>7, SessionAssumption
      DEF StateUnavailable, EndCycle, FaultyEvent, client, server, TypeOK,
          CycleInv, CycleIsBounded
<1>8. CASE RequestsHeld
  BY <1>8, SessionAssumption
      DEF RequestsHeld, EndCycle, client, server, TypeOK, CycleInv,
          CycleIsBounded
<1>9. CASE LoginHeld
  BY <1>9, SessionAssumption
      DEF LoginHeld, EndCycle, MayAsk, client, server, TypeOK, CycleInv,
          CycleIsBounded
<1>10. CASE NoPassword
  BY <1>10, SessionAssumption
      DEF NoPassword, MayLogin, MayAsk, EndCycle, FaultyEvent, client, server,
          TypeOK, CycleInv, CycleIsBounded
<1>11. CASE LoginAccepted
  BY <1>11, SessionAssumption
      DEF LoginAccepted, MayLogin, MayAsk, FreshAfterLogin, BackoffAfterLogin,
          clocks, TypeOK, CycleInv, CycleIsBounded
<1>12. CASE LoginRefused
  BY <1>12, SessionAssumption
      DEF LoginRefused, MayLogin, MayAsk, FaultyEvent, Refuse, NextBackoff,
          NoteRefusal, DropSession, EndCycle, Larger, Smaller, server, TypeOK,
          CycleInv, CycleIsBounded
<1>13. CASE LoginLost
  BY <1>13, SessionAssumption
      DEF LoginLost, MayLogin, MayAsk, FaultyEvent, EndCycle, client, server,
          TypeOK, CycleInv, CycleIsBounded
<1>14. CASE LoginLimited
  BY <1>14, SessionAssumption
      DEF LoginLimited, MayLogin, MayAsk, FaultyEvent, RateLimited, Honoured,
          EndCycle, Larger, Smaller, client, server, TypeOK, CycleInv,
          CycleIsBounded
<1>15. CASE ReadAnswered
  BY <1>15, SessionAssumption
      DEF ReadAnswered, MayRead, MayAsk, EndCycle, server, TypeOK, CycleInv,
          CycleIsBounded
<1>16. CASE SessionEnded
  BY <1>16, SessionAssumption
      DEF SessionEnded, MayRead, MayAsk, DropSession, clocks, server, TypeOK,
          CycleInv, CycleIsBounded
<1>17. CASE AccessDenied
  BY <1>17, SessionAssumption
      DEF AccessDenied, MayRead, MayAsk, Refuse, NextBackoff, NoteRefusal,
          DropSession, EndCycle, Larger, Smaller, server, TypeOK, CycleInv,
          CycleIsBounded
<1>18. CASE ReadLimited
  BY <1>18, SessionAssumption
      DEF ReadLimited, MayRead, MayAsk, FaultyEvent, RateLimited, Honoured,
          EndCycle, Larger, Smaller, client, server, TypeOK, CycleInv,
          CycleIsBounded
<1>19. CASE ReadLost
  BY <1>19, SessionAssumption
      DEF ReadLost, MayRead, MayAsk, FaultyEvent, EndCycle, client, server,
          TypeOK, CycleInv, CycleIsBounded
<1>20. CASE UNCHANGED vars
  BY <1>20 DEF vars, clocks, client, server, cycle, TypeOK, CycleInv, CycleIsBounded
<1>21. QED
  BY <1>1, <1>2, <1>3, <1>4, <1>5, <1>6, <1>7, <1>8, <1>9, <1>10, <1>11, <1>12,
     <1>13, <1>14, <1>15, <1>16, <1>17, <1>18, <1>19, <1>20
     DEF Next, Collector, Login, Read, Environment

\* A 429 never asks for more quiet than the delay the console is left.
LEMMA QuietAfterLimit ==
    ASSUME RateLimited
    PROVE  quiet' <= requestsAfter'
<1>1. PICK w \in RetryAfters : /\ requestsAfter' = Honoured(w)
                              /\ quiet' = Smaller(w, MaxBackoff)
  BY DEF RateLimited
<1>2. w \in Nat
  BY SessionAssumption
<1>3. QED
  BY <1>1, <1>2, Bounds DEF Honoured, Larger, Smaller

LEMMA QuietStep == TypeOK /\ QuietInv /\ [Next]_vars => QuietInv'
<1> SUFFICES ASSUME TypeOK, QuietInv, [Next]_vars PROVE QuietInv'
  OBVIOUS
<1>1. CASE Tick
  BY <1>1, SessionAssumption
      DEF Tick, Less, Larger, Smaller, client, server, cycle, TypeOK, QuietInv
<1>2. CASE EndSession
  BY <1>2, SessionAssumption
      DEF EndSession, FaultyEvent, clocks, client, cycle, TypeOK, QuietInv
<1>3. CASE AccountBreaks
  BY <1>3, SessionAssumption
      DEF AccountBreaks, FaultyEvent, clocks, client, cycle, TypeOK, QuietInv
<1>4. CASE AccountRepaired
  BY <1>4, SessionAssumption
      DEF AccountRepaired, clocks, client, cycle, TypeOK, QuietInv
<1>5. CASE Restart
  BY <1>5, SessionAssumption
      DEF Restart, FaultyEvent, server, TypeOK, QuietInv
<1>6. CASE BeginCycle
  BY <1>6, SessionAssumption
      DEF BeginCycle, FreshAtStart, clocks, server, TypeOK, QuietInv
<1>7. CASE StateUnavailable
  BY <1>7, SessionAssumption
      DEF StateUnavailable, EndCycle, FaultyEvent, client, server, TypeOK,
          QuietInv
<1>8. CASE RequestsHeld
  BY <1>8, SessionAssumption
      DEF RequestsHeld, EndCycle, client, server, TypeOK, QuietInv
<1>9. CASE LoginHeld
  BY <1>9, SessionAssumption
      DEF LoginHeld, EndCycle, MayAsk, client, server, TypeOK, QuietInv
<1>10. CASE NoPassword
  BY <1>10, SessionAssumption
      DEF NoPassword, MayLogin, MayAsk, EndCycle, FaultyEvent, client, server,
          TypeOK, QuietInv
<1>11. CASE LoginAccepted
  BY <1>11, SessionAssumption
      DEF LoginAccepted, MayLogin, MayAsk, FreshAfterLogin, BackoffAfterLogin,
          clocks, TypeOK, QuietInv
<1>12. CASE LoginRefused
  BY <1>12, SessionAssumption
      DEF LoginRefused, MayLogin, MayAsk, FaultyEvent, Refuse, NextBackoff,
          NoteRefusal, DropSession, EndCycle, Larger, Smaller, server, TypeOK,
          QuietInv
<1>13. CASE LoginLost
  BY <1>13, SessionAssumption
      DEF LoginLost, MayLogin, MayAsk, FaultyEvent, EndCycle, client, server,
          TypeOK, QuietInv
<1>14. CASE LoginLimited
  BY <1>14, QuietAfterLimit DEF LoginLimited, QuietInv
<1>15. CASE ReadAnswered
  BY <1>15, SessionAssumption
      DEF ReadAnswered, MayRead, MayAsk, EndCycle, server, TypeOK, QuietInv
<1>16. CASE SessionEnded
  BY <1>16, SessionAssumption
      DEF SessionEnded, MayRead, MayAsk, DropSession, clocks, server, TypeOK,
          QuietInv
<1>17. CASE AccessDenied
  BY <1>17, SessionAssumption
      DEF AccessDenied, MayRead, MayAsk, Refuse, NextBackoff, NoteRefusal,
          DropSession, EndCycle, Larger, Smaller, server, TypeOK, QuietInv
<1>18. CASE ReadLimited
  BY <1>18, QuietAfterLimit DEF ReadLimited, QuietInv
<1>19. CASE ReadLost
  BY <1>19, SessionAssumption
      DEF ReadLost, MayRead, MayAsk, FaultyEvent, EndCycle, client, server,
          TypeOK, QuietInv
<1>20. CASE UNCHANGED vars
  BY <1>20 DEF vars, clocks, client, server, cycle, TypeOK, QuietInv
<1>21. QED
  BY <1>1, <1>2, <1>3, <1>4, <1>5, <1>6, <1>7, <1>8, <1>9, <1>10, <1>11, <1>12,
     <1>13, <1>14, <1>15, <1>16, <1>17, <1>18, <1>19, <1>20
     DEF Next, Collector, Login, Read, Environment

\* The wait that follows the next refusal is the one the table owes.
LEMMA NextIsOwed ==
    ASSUME TypeOK, SpacingInv
    PROVE  LET n == Smaller(refusals + 1, MaxRefusals)
           IN  n \in 1 .. MaxRefusals /\ NextBackoff = Spacing[n] /\ Spacing[n] >= Poll
<1> DEFINE n == Smaller(refusals + 1, MaxRefusals)
<1>1. n \in 1 .. MaxRefusals
  BY SessionAssumption DEF TypeOK, Smaller
<1>2. CASE refusals = 0
  BY <1>2, SessionAssumption, SpacingAssumption
     DEF SpacingInv, NextBackoff, Smaller, Larger
<1>3. CASE refusals > 0 /\ refusals < MaxRefusals
  <2>1. refusals \in 1 .. MaxRefusals - 1 /\ n = refusals + 1
    BY <1>3, Bounds DEF TypeOK, Smaller
  <2>2. Spacing[refusals] \in 0 .. MaxBackoff /\ Spacing[n] \in 0 .. MaxBackoff
    <3>1. refusals \in 1 .. MaxRefusals
      BY <2>1, SessionAssumption
    <3>2. QED
      BY <3>1, <1>1, SpacingAssumption
  <2>3. Spacing[n] = IF 2 * Spacing[refusals] <= MaxBackoff
                     THEN 2 * Spacing[refusals] ELSE MaxBackoff
    BY <2>1, SpacingAssumption
  <2>4. QED
    BY <1>1, <1>3, <2>2, <2>3, SessionAssumption
       DEF SpacingInv, NextBackoff, Smaller, Larger
<1>4. CASE refusals = MaxRefusals
  <2>1. n = MaxRefusals /\ Spacing[n] = MaxBackoff /\ refusals > 0
    BY <1>4, SessionAssumption, SpacingAssumption DEF Smaller
  <2>2. QED
    BY <1>1, <1>4, <2>1, SessionAssumption
       DEF SpacingInv, NextBackoff, Smaller, Larger
<1>5. refusals = 0 \/ (refusals > 0 /\ refusals < MaxRefusals) \/ refusals = MaxRefusals
  BY SessionAssumption DEF TypeOK
<1>6. QED
  BY <1>1, <1>2, <1>3, <1>4, <1>5

\* So a refusal, of a login or of a read, keeps the backoff and the count tied.
LEMMA RefuseSpaces ==
    ASSUME TypeOK, SpacingInv, NEW class, Refuse(class)
    PROVE  SpacingInv'
<1> DEFINE n == Smaller(refusals + 1, MaxRefusals)
<1>1. n \in 1 .. MaxRefusals /\ NextBackoff = Spacing[n] /\ Spacing[n] >= Poll
  BY NextIsOwed
<1>2. /\ refusals' = n /\ sinceRefusal' = 0
      /\ backoff' = Spacing[n] /\ loginAfter' = Spacing[n]
  BY <1>1 DEF Refuse, NoteRefusal
<1>3. Spacing[n] \in 0 .. MaxBackoff
  BY <1>1, SpacingAssumption
<1>4. QED
  BY <1>1, <1>2, <1>3, SessionAssumption DEF SpacingInv

LEMMA SpacingStep == TypeOK /\ SpacingInv /\ [Next]_vars => SpacingInv'
<1> SUFFICES ASSUME TypeOK, SpacingInv, [Next]_vars PROVE SpacingInv'
  OBVIOUS
<1>1. CASE Tick
  BY <1>1, SessionAssumption, SpacingAssumption, SMTT(30)
      DEF Tick, Less, Larger, Smaller, client, server, cycle, TypeOK,
          SpacingInv
<1>2. CASE EndSession
  BY <1>2, SessionAssumption, SpacingAssumption
      DEF EndSession, FaultyEvent, clocks, client, cycle, TypeOK, SpacingInv
<1>3. CASE AccountBreaks
  BY <1>3, SessionAssumption, SpacingAssumption
      DEF AccountBreaks, FaultyEvent, clocks, client, cycle, TypeOK, SpacingInv
<1>4. CASE AccountRepaired
  BY <1>4, SessionAssumption, SpacingAssumption
      DEF AccountRepaired, clocks, client, cycle, TypeOK, SpacingInv
<1>5. CASE Restart
  BY <1>5, SessionAssumption, SpacingAssumption
      DEF Restart, FaultyEvent, server, TypeOK, SpacingInv
<1>6. CASE BeginCycle
  BY <1>6, SessionAssumption, SpacingAssumption
      DEF BeginCycle, FreshAtStart, clocks, server, TypeOK, SpacingInv
<1>7. CASE StateUnavailable
  BY <1>7, SessionAssumption, SpacingAssumption
      DEF StateUnavailable, EndCycle, FaultyEvent, client, server, TypeOK,
          SpacingInv
<1>8. CASE RequestsHeld
  BY <1>8, SessionAssumption, SpacingAssumption
      DEF RequestsHeld, EndCycle, client, server, TypeOK, SpacingInv
<1>9. CASE LoginHeld
  BY <1>9, SessionAssumption, SpacingAssumption
      DEF LoginHeld, EndCycle, MayAsk, client, server, TypeOK, SpacingInv
<1>10. CASE NoPassword
  BY <1>10, SessionAssumption, SpacingAssumption
      DEF NoPassword, MayLogin, MayAsk, EndCycle, FaultyEvent, client, server,
          TypeOK, SpacingInv
<1>11. CASE LoginAccepted
  BY <1>11, SessionAssumption, SpacingAssumption
      DEF LoginAccepted, MayLogin, MayAsk, FreshAfterLogin, BackoffAfterLogin,
          clocks, TypeOK, SpacingInv
<1>12. CASE LoginRefused
  BY <1>12, RefuseSpaces DEF LoginRefused
<1>13. CASE LoginLost
  BY <1>13, SessionAssumption, SpacingAssumption
      DEF LoginLost, MayLogin, MayAsk, FaultyEvent, EndCycle, client, server,
          TypeOK, SpacingInv
<1>14. CASE LoginLimited
  BY <1>14, SessionAssumption, SpacingAssumption
      DEF LoginLimited, MayLogin, MayAsk, FaultyEvent, RateLimited, Honoured,
          EndCycle, Larger, Smaller, client, server, TypeOK, SpacingInv
<1>15. CASE ReadAnswered
  BY <1>15, SessionAssumption, SpacingAssumption
      DEF ReadAnswered, MayRead, MayAsk, EndCycle, server, TypeOK, SpacingInv
<1>16. CASE SessionEnded
  BY <1>16, SessionAssumption, SpacingAssumption
      DEF SessionEnded, MayRead, MayAsk, DropSession, clocks, server, TypeOK,
          SpacingInv
<1>17. CASE AccessDenied
  BY <1>17, RefuseSpaces DEF AccessDenied
<1>18. CASE ReadLimited
  BY <1>18, SessionAssumption, SpacingAssumption
      DEF ReadLimited, MayRead, MayAsk, FaultyEvent, RateLimited, Honoured,
          EndCycle, Larger, Smaller, client, server, TypeOK, SpacingInv
<1>19. CASE ReadLost
  BY <1>19, SessionAssumption, SpacingAssumption
      DEF ReadLost, MayRead, MayAsk, FaultyEvent, EndCycle, client, server,
          TypeOK, SpacingInv
<1>20. CASE UNCHANGED vars
  BY <1>20 DEF vars, clocks, client, server, cycle, TypeOK, SpacingInv
<1>21. QED
  BY <1>1, <1>2, <1>3, <1>4, <1>5, <1>6, <1>7, <1>8, <1>9, <1>10, <1>11, <1>12,
     <1>13, <1>14, <1>15, <1>16, <1>17, <1>18, <1>19, <1>20
     DEF Next, Collector, Login, Read, Environment

LEMMA NextIInv == IInv /\ [Next]_vars => IInv'
  BY TypeStep, CycleStep, QuietStep, SpacingStep DEF IInv

LEMMA IInvHolds == Spec => []IInv
  BY InitIInv, NextIInv, PTL DEF Spec

-----------------------------------------------------------------------------
\* Type correctness: the fields of Console keep their ranges, the login delay
\* and the 429 delay among them.
THEOREM TypeCorrect == Spec => []TypeOK
  BY IInvHolds, PTL DEF IInv

\* The retry of flows never becomes a loop: one login and two refused reads a
\* cycle at most, whatever the console answers.
THEOREM CycleBounded == Spec => []CycleIsBounded
<1>1. IInv => CycleIsBounded
  BY DEF IInv, CycleInv
<1>2. QED
  BY <1>1, IInvHolds, PTL

\* A 429 silences logins and reads alike for the time it asked for.
THEOREM QuietHolds == Spec => QuietWhenAsked
<1>1. ASSUME IInv, [Next]_vars
      PROVE  [QuietRequest]_vars
  <2> SUFFICES ASSUME logins' > logins \/ reads' > reads, Next PROVE quiet = 0
    BY <1>1 DEF QuietRequest
  <2>1. requestsAfter = 0
    BY <1>1
       DEF AccessDenied, AccountBreaks, AccountRepaired, BeginCycle, Collector,
           EndSession, Environment, IInv, Login, LoginAccepted, LoginHeld,
           LoginLimited, LoginLost, LoginRefused, MayAsk, MayLogin, MayRead,
           Next, NoPassword, Read, ReadAnswered, ReadLimited, ReadLost,
           RequestsHeld, Restart, SessionEnded, StateUnavailable, Tick, TypeOK,
           client, cycle, server
  <2>2. QED
    BY <1>1, <2>1 DEF IInv, TypeOK, QuietInv
<1>2. QED
  BY <1>1, IInvHolds, PTL DEF Spec, QuietWhenAsked

\* The n-th refusal in a row costs the n-th spacing before the next login, even
\* when logins in between are accepted and only their reads refused.
THEOREM SpacingHolds == Spec => LoginsSpaced
<1>1. ASSUME IInv, [Next]_vars
      PROVE  [SpacedLogin]_vars
  <2> SUFFICES ASSUME logins' > logins, Next
               PROVE  refusals = 0 \/ sinceRefusal >= Spacing[refusals]
    BY <1>1 DEF SpacedLogin
  <2>1. loginAfter = 0
    BY <1>1
       DEF AccessDenied, AccountBreaks, AccountRepaired, BeginCycle, Collector,
           EndSession, Environment, IInv, Login, LoginAccepted, LoginHeld,
           LoginLimited, LoginLost, LoginRefused, MayAsk, MayLogin, MayRead,
           Next, NoPassword, Read, ReadAnswered, ReadLimited, ReadLost,
           RequestsHeld, Restart, SessionEnded, StateUnavailable, Tick, TypeOK,
           client, cycle, server
  <2>2. QED
    BY <1>1, <2>1 DEF IInv, TypeOK, SpacingInv
<1>2. QED
  BY <1>1, IInvHolds, PTL DEF Spec, LoginsSpaced

\* What the run checks in one: the state and the two promises to the console.
THEOREM SessionIsSafe == Spec => []SessionSafe
BY TypeCorrect, CycleBounded, PTL DEF SessionSafe

\* Logins are spaced and a 429 is heeded in every step.
THEOREM ConsoleSpared == Spec => SparesTheConsole
<1>1. [SpacedLogin]_vars /\ [QuietRequest]_vars => [SpacedLogin /\ QuietRequest]_vars
  OBVIOUS
<1>2. QED
  BY <1>1, SpacingHolds, QuietHolds, PTL DEF SparesTheConsole, LoginsSpaced, QuietWhenAsked

-----------------------------------------------------------------------------
(* DeliveryDrill.  Counting, and what a recursive function comes to.       *)

\* A set of numbers has a least one.
LEMMA Least == ASSUME NEW Few \in SUBSET Nat, Few # {}
               PROVE  \E n \in Few : \A m \in Few : n <= m
<1> DEFINE Below == {ss \in Nat \X Nat : ss[1] < ss[2]}
<1>1. IsWellFoundedOn(Below, Nat)
    BY NatLessThanWellFounded DEF OpToRel
<1>2. \A m, n \in Nat : m < n => <<m, n>> \in Below
    OBVIOUS
<1> HIDE DEF Below
<1>3. PICK n \in Few : \A m \in Few : ~(<<m, n>> \in Below)
    BY <1>1, WFMin
<1>4. ASSUME NEW m \in Few
      PROVE  n <= m
  <2>1. m \in Nat /\ n \in Nat /\ ~(m < n)
      BY <1>2, <1>3
  <2> QED
      BY <2>1
<1> QED
    BY <1>4

\* What holds at 0, and at each number up to n if at the one before, holds up to n.
LEMMA UpTo == ASSUME NEW n \in Nat, NEW G, 0 \in G, \A i \in 1 .. n : i - 1 \in G => i \in G
              PROVE  0 .. n \subseteq G
<1> SUFFICES ASSUME NEW i \in 0 .. n, i \notin G
             PROVE  FALSE
    OBVIOUS
<1> DEFINE Failing == {j \in 0 .. n : j \notin G}
<1>1. Failing \in SUBSET Nat /\ Failing # {}
    OBVIOUS
<1>2. PICK j \in Failing : \A m \in Failing : j <= m
    BY <1>1, Least
<1>3. j \in 1 .. n /\ j - 1 \in 0 .. n /\ ~(j <= j - 1)
    BY <1>2
<1>4. j - 1 \in G
    BY <1>2, <1>3
<1> QED
    BY <1>2, <1>3, <1>4

\* f begins at start and takes n steps.
Takes(f, n, start, step) == f[0] = start /\ \A i \in 1 .. n : f[i] = step[i][f[i - 1]]

\* A step for each number up to n makes a function of them.
LEMMA Recursion == ASSUME NEW n \in Nat, NEW Kind, NEW start \in Kind, NEW step \in [1 .. n -> [Kind -> Kind]]
                   PROVE  \E f \in [0 .. n -> Kind] : Takes(f, n, start, step)
<1> DEFINE Fits(f, i) == Takes(f, i, start, step)
           G == {i \in 0 .. n : \E f \in [0 .. n -> Kind] : Fits(f, i)}
<1> USE DEF Takes
<1>1. 0 \in G
  <2>1. [i \in 0 .. n |-> start] \in [0 .. n -> Kind] /\ Fits([i \in 0 .. n |-> start], 0)
    <3>1. 1 .. 0 = {}
        OBVIOUS
    <3> QED
        BY <3>1
  <2>2. 0 \in 0 .. n
      OBVIOUS
  <2> HIDE DEF Fits
  <2> QED
      BY <2>1, <2>2
<1>2. ASSUME NEW i \in 1 .. n, i - 1 \in G
      PROVE  i \in G
  <2>1. PICK f \in [0 .. n -> Kind] : Fits(f, i - 1)
      BY <1>2
  <2>2. i \in 0 .. n /\ i - 1 \in 0 .. n /\ i # 0 /\ i - 1 # i
      OBVIOUS
  <2> DEFINE g == [f EXCEPT ![i] = step[i][f[i - 1]]]
  <2>3. g \in [0 .. n -> Kind]
      BY <2>2
  <2>4. ASSUME NEW j \in 1 .. i
        PROVE  g[j] = step[j][g[j - 1]]
    <3>1. j - 1 \in 0 .. n /\ j - 1 # i /\ j \in 0 .. n /\ (j = i \/ j \in 1 .. i - 1)
        OBVIOUS
    <3>2. g[j - 1] = f[j - 1]
        BY <3>1
    <3>3. CASE j = i
        BY <3>1, <3>2, <3>3
    <3>4. CASE j # i
        BY <2>1, <3>1, <3>2, <3>4
    <3> QED
        BY <3>3, <3>4
  <2>5. g[0] = start
      BY <2>1, <2>2
  <2> HIDE DEF g
  <2> QED
      BY <2>2, <2>3, <2>4, <2>5
<1>3. n \in G
  <2> HIDE DEF G
  <2>1. 0 .. n \subseteq G
      BY <1>1, <1>2, UpTo
  <2> QED
      BY <2>1
<1>4. PICK f \in [0 .. n -> Kind] : Fits(f, n)
    BY <1>3
<1> QED
    BY <1>4

-----------------------------------------------------------------------------
(* DeliveryDrill.  The buffer is the last lines read (BufferInv), rows are *)
(* told apart by when they were stored (RowsInv), and the collector that   *)
(* was sampled has counted since what all have (SampleInv).                *)
(*                                                                         *)
(* That the missing ranges are no more than the losses is a fact of the    *)
(* end of a run.  What keeps it is told of the numbers still outstanding   *)
(* at any time: cut at the line that comes next, they fall into at most    *)
(* one range more than there were losses (LossInv).  Shipping takes away   *)
(* the number at the cut, a loss moves the cut, and a restarted fixture    *)
(* moves it to nought, where a range begins anyway (WrittenInv).           *)

Counters == [read : Nat, sent : Nat]

LinesInv ==
    /\ lines \in Seq(0 .. Planned - 1) /\ next \in 0 .. Planned
    /\ losses \in Nat /\ losses <= drillFaults /\ drillFaults \in 0 .. MaxLosses
BufferInv ==
    /\ offset \in 0 .. Len(lines) /\ buffer \in Seq(Nat) /\ Len(buffer) <= offset
    /\ \A i \in DOMAIN buffer : buffer[i] = offset - Len(buffer) + i
RowsInv ==
    /\ IsFiniteSet(rows) /\ shipments \in Nat /\ Cardinality(rows) = shipments
    /\ \A r \in rows : r.id \in 1 .. shipments /\ r.line \in 1 .. Len(lines) /\ r.n = lines[r.line]
SampleInv ==
    /\ process \in [started : Nat, read : Nat, sent : Nat] /\ totals \in Counters
    /\ sampled # NoRows =>
          /\ sampled.of \in [started : Nat, read : Nat, sent : Nat] /\ sampled.totals \in Counters
          /\ sampled.of.started <= process.started
          /\ SameProcess =>
                /\ process.read - sampled.of.read = totals.read - sampled.totals.read
                /\ process.sent - sampled.of.sent = totals.sent - sampled.totals.sent
    /\ MeasuredIsReal
DrillInv == LinesInv /\ BufferInv /\ RowsInv /\ SampleInv

\* The number of the i-th line, written or to come.
NumberAt(i) == IF i <= Len(lines) THEN lines[i] ELSE next
\* The number that is shipped or lost next.
Cut == NumberAt(offset - Len(buffer) + 1)
\* The numbers of no row, with the one after the last.
Outstanding == {n \in 0 .. Planned : \A r \in rows : r.n # n}
\* Where its ranges begin, when one is cut at c.
Starts(of, c) == {n \in of : n - 1 \notin of \/ n = c}

WrittenInv ==
    /\ Len(lines) <= MaxRows
    /\ \A i \in 1 .. Len(lines) : NumberAt(i + 1) \in {NumberAt(i) + 1, 0}
LossInv == Cardinality(Starts(Outstanding, Cut)) <= losses + 1


LEMMA DrillNumbers ==
    /\ Planned \in Nat /\ Planned > 0 /\ MaxRows \in Nat /\ MaxLosses \in Nat
BY DrillAssumption

\* A buffer of consecutive lines stays one when its head leaves it and when a line joins it.
LEMMA BufferShifts ==
    ASSUME NEW b \in Seq(Nat), NEW o \in Nat, Len(b) <= o,
           \A i \in DOMAIN b : b[i] = o - Len(b) + i
    PROVE  /\ b # <<>> =>
                 /\ Tail(b) \in Seq(Nat) /\ Len(Tail(b)) <= o
                 /\ \A i \in DOMAIN Tail(b) : Tail(b)[i] = o - Len(Tail(b)) + i
                 /\ Head(b) \in 1 .. o
           /\ Append(b, o + 1) \in Seq(Nat) /\ Len(Append(b, o + 1)) <= o + 1
           /\ \A i \in DOMAIN Append(b, o + 1) : Append(b, o + 1)[i] = o + 1 - Len(Append(b, o + 1)) + i
<1>1. ASSUME b # <<>>
      PROVE  /\ Tail(b) \in Seq(Nat) /\ Len(Tail(b)) <= o
             /\ \A i \in DOMAIN Tail(b) : Tail(b)[i] = o - Len(Tail(b)) + i
             /\ Head(b) \in 1 .. o
  <2>1. Len(b) \in Nat /\ Len(b) > 0 /\ DOMAIN b = 1 .. Len(b)
      BY <1>1
  <2>2. Tail(b) \in Seq(Nat) /\ Len(Tail(b)) = Len(b) - 1 /\ \A i \in 1 .. Len(b) - 1 : Tail(b)[i] = b[i + 1]
      BY <1>1
  <2>3. DOMAIN Tail(b) = 1 .. Len(b) - 1
      BY <2>2
  <2>4. Head(b) = b[1]
      BY <1>1
  <2> QED
      BY <2>1, <2>2, <2>3, <2>4
<1>2. /\ Append(b, o + 1) \in Seq(Nat) /\ Len(Append(b, o + 1)) = Len(b) + 1
      /\ \A i \in 1 .. Len(b) + 1 : Append(b, o + 1)[i] = IF i = Len(b) + 1 THEN o + 1 ELSE b[i]
    OBVIOUS
<1>3. DOMAIN Append(b, o + 1) = 1 .. Len(b) + 1 /\ DOMAIN b = 1 .. Len(b) /\ Len(b) \in Nat
    BY <1>2
<1> QED
    BY <1>1, <1>2, <1>3

LEMMA DrillStarts == DrillInit => DrillInv
<1> SUFFICES ASSUME DrillInit PROVE DrillInv
    OBVIOUS
<1>1. LinesInv
    BY DrillNumbers DEF DrillInit, LinesInv
<1>2. BufferInv
    BY DEF DrillInit, BufferInv
<1>3. RowsInv
    BY FS_EmptySet DEF DrillInit, RowsInv
<1>4. SampleInv
    BY DEF DrillInit, SampleInv, Counters, MeasuredIsReal, NoRows
<1> QED
    BY <1>1, <1>2, <1>3, <1>4 DEF DrillInv

\* A stored row has an id of its own.
LEMMA StoredIsNew ==
    ASSUME DrillInv, buffer # <<>>, NEW whole, Stored(whole), UNCHANGED lines
    PROVE  RowsInv'
<1> DEFINE row == [id |-> shipments + 1, line |-> Head(buffer), n |-> lines[Head(buffer)], whole |-> whole]
<1>1. rows' = rows \cup {row} /\ shipments' = shipments + 1 /\ lines' = lines
    BY DEF Stored
<1>2. Head(buffer) \in 1 .. offset /\ offset \in 0 .. Len(lines) /\ Len(lines) \in Nat
    BY BufferShifts DEF DrillInv, BufferInv, LinesInv
<1>3. row.id = shipments + 1 /\ row.line \in 1 .. Len(lines) /\ row.n = lines[row.line]
    BY <1>2
<1>4. row \notin rows
    BY <1>3 DEF DrillInv, RowsInv
<1>5. IsFiniteSet(rows') /\ Cardinality(rows') = shipments'
    BY <1>1, <1>4, FS_AddElement DEF DrillInv, RowsInv
<1>6. \A r \in rows : r.id \in 1 .. shipments' /\ r.line \in 1 .. Len(lines') /\ r.n = lines'[r.line]
    BY <1>1 DEF DrillInv, RowsInv
<1>7. shipments' \in Nat /\ row.id \in 1 .. shipments' /\ row.line \in 1 .. Len(lines') /\ row.n = lines'[row.line]
    BY <1>1, <1>3 DEF DrillInv, RowsInv
<1> QED
    BY <1>1, <1>5, <1>6, <1>7 DEF RowsInv

\* What the collector counts, its process and all processes count alike.
LEMMA CountsTogether ==
    ASSUME SampleInv, UNCHANGED <<sampled, measured>>,
           \/ /\ process' = [process EXCEPT !.read = @ + 1]
              /\ totals' = [totals EXCEPT !.read = @ + 1]
           \/ /\ process' = [process EXCEPT !.sent = @ + 1]
              /\ totals' = [totals EXCEPT !.sent = @ + 1]
    PROVE  SampleInv'
BY DEF SampleInv, Counters, SameProcess, MeasuredIsReal

\* A row that is stored leaves the buffer, or stays in it unacknowledged.
LEMMA RowShips ==
    ASSUME DrillInv, buffer # <<>>, NEW whole, Stored(whole), UNCHANGED <<lines, next, offset, losses, sampled, measured>>,
           buffer' \in {buffer, Tail(buffer)}, drillFaults' \in 0 .. MaxLosses, drillFaults <= drillFaults'
    PROVE  DrillInv'
<1>1. LinesInv'
    BY DrillNumbers DEF DrillInv, LinesInv
<1>2. offset \in Nat /\ Len(lines) \in Nat
    BY DEF DrillInv, LinesInv, BufferInv
<1>3. /\ Tail(buffer) \in Seq(Nat) /\ Len(Tail(buffer)) <= offset
      /\ \A i \in DOMAIN Tail(buffer) : Tail(buffer)[i] = offset - Len(Tail(buffer)) + i
    BY <1>2, BufferShifts DEF DrillInv, BufferInv
<1>4. BufferInv'
  <2>1. offset' = offset /\ lines' = lines
      OBVIOUS
  <2>2. CASE buffer' = buffer
      BY <2>1, <2>2 DEF DrillInv, BufferInv
  <2>3. CASE buffer' = Tail(buffer)
      BY <2>1, <2>3, <1>3 DEF DrillInv, BufferInv
  <2> QED
      BY <2>2, <2>3
<1>5. RowsInv'
    BY StoredIsNew
<1>6. SampleInv'
    BY CountsTogether DEF Stored, DrillInv
<1> QED
    BY <1>1, <1>4, <1>5, <1>6 DEF DrillInv

LEMMA DrillSteps == DrillInv /\ [DrillNext]_drillVars => DrillInv'
<1> SUFFICES ASSUME DrillInv, [DrillNext]_drillVars PROVE DrillInv'
    OBVIOUS
<1> USE DrillNumbers
<1>1. CASE WriteLine
  <2>1. LinesInv' /\ lines' = Append(lines, next) /\ Len(lines') = Len(lines) + 1 /\ Len(lines) \in Nat
      BY <1>1 DEF WriteLine, NumberOf, DrillInv, LinesInv
  <2>2. \A i \in 1 .. Len(lines) : lines'[i] = lines[i]
      BY <2>1 DEF DrillInv, LinesInv
  <2>3. BufferInv'
      BY <1>1, <2>1 DEF WriteLine, DrillInv, BufferInv
  <2>4. RowsInv'
      BY <1>1, <2>1, <2>2 DEF WriteLine, DrillInv, RowsInv
  <2>5. SampleInv'
      BY <1>1 DEF WriteLine, DrillInv, SampleInv, SameProcess, MeasuredIsReal
  <2> QED
      BY <2>1, <2>3, <2>4, <2>5 DEF DrillInv
<1>2. CASE ReadLine
  <2>1. LinesInv' /\ RowsInv'
      BY <1>2 DEF ReadLine, DrillInv, LinesInv, RowsInv
  <2>2. offset \in Nat /\ offset' = offset + 1 /\ buffer' = Append(buffer, offset + 1) /\ offset' \in 0 .. Len(lines')
      BY <1>2 DEF ReadLine, DrillInv, BufferInv, LinesInv
  <2>3. BufferInv'
      BY <2>2, BufferShifts DEF DrillInv, BufferInv
  <2>4. SampleInv'
      BY <1>2, CountsTogether DEF ReadLine, DrillInv
  <2> QED
      BY <2>1, <2>3, <2>4 DEF DrillInv
<1>4. CASE ShipLine
  <2>1. buffer # <<>> /\ Stored(TRUE) /\ buffer' = Tail(buffer) /\ UNCHANGED <<lines, next, offset, losses, sampled, measured>>
      BY <1>4 DEF ShipLine
  <2>2. drillFaults' = drillFaults /\ drillFaults \in 0 .. MaxLosses /\ drillFaults <= drillFaults'
      BY <1>4 DEF ShipLine, DrillInv, LinesInv
  <2> QED
      BY <2>1, <2>2, RowShips
<1>5. CASE ShipBadly
  <2>1. buffer # <<>> /\ UNCHANGED <<lines, next, offset, losses, sampled, measured>>
      BY <1>5 DEF ShipBadly
  <2>2. drillFaults' \in 0 .. MaxLosses /\ drillFaults <= drillFaults'
      BY <1>5 DEF ShipBadly, LossKinds, DrillInv, LinesInv
  <2>3. CASE Stored(TRUE) /\ buffer' = buffer
      BY <2>1, <2>2, <2>3, RowShips
  <2>4. CASE Stored(FALSE) /\ buffer' = Tail(buffer)
      BY <2>1, <2>2, <2>4, RowShips
  <2> QED
      BY <1>5, <2>3, <2>4 DEF ShipBadly
<1>6. CASE KillCollector
  <2>1. LinesInv' /\ RowsInv'
      BY <1>6 DEF KillCollector, LossKinds, DrillInv, LinesInv, RowsInv
  <2>2. BufferInv'
      BY <1>6 DEF KillCollector, DrillInv, BufferInv, LinesInv
  <2>3. SampleInv'
      BY <1>6 DEF KillCollector, DrillInv, SampleInv, SameProcess, MeasuredIsReal
  <2> QED
      BY <2>1, <2>2, <2>3 DEF DrillInv
<1>7. CASE RestartFixture
    BY <1>7 DEF RestartFixture, LossKinds, DrillInv, LinesInv, BufferInv, RowsInv, SampleInv, SameProcess, MeasuredIsReal
<1>8. CASE FirstSample
  <2>1. LinesInv' /\ BufferInv' /\ RowsInv'
      BY <1>8 DEF FirstSample, pipeline, DrillInv, LinesInv, BufferInv, RowsInv
  <2>2. sampled'.of = process /\ sampled'.totals = totals /\ measured' = NoRows /\ process' = process /\ totals' = totals
      BY <1>8 DEF FirstSample, pipeline
  <2>3. SampleInv'
      BY <2>2 DEF DrillInv, SampleInv, Counters, SameProcess, MeasuredIsReal
  <2> QED
      BY <2>1, <2>3 DEF DrillInv
<1>9. CASE SecondSample
  <2>1. LinesInv' /\ BufferInv' /\ RowsInv'
      BY <1>9 DEF SecondSample, pipeline, DrillInv, LinesInv, BufferInv, RowsInv
  <2>2. MeasuredIsReal'
      BY <1>9 DEF SecondSample, DrillInv, SampleInv, MeasuredIsReal
  <2>3. SampleInv'
      BY <1>9, <2>2 DEF SecondSample, pipeline, DrillInv, SampleInv
  <2> QED
      BY <2>1, <2>3 DEF DrillInv
<1>10. CASE UNCHANGED drillVars
    BY <1>10 DEF drillVars, DrillInv, LinesInv, BufferInv, RowsInv, SampleInv, SameProcess, MeasuredIsReal
<1> QED
    BY <1>1, <1>2, <1>4, <1>5, <1>6, <1>7, <1>8, <1>9, <1>10 DEF DrillNext

LEMMA DrillTypes == DrillInv => DrillTypeOK
<1> SUFFICES ASSUME DrillInv PROVE DrillTypeOK
    OBVIOUS
<1>1. \A i \in DOMAIN buffer : buffer[i] \in 1 .. offset
  <2>1. DOMAIN buffer = 1 .. Len(buffer) /\ Len(buffer) \in Nat /\ offset \in Nat
      BY DEF DrillInv, BufferInv, LinesInv
  <2> QED
      BY <2>1 DEF DrillInv, BufferInv
<1>2. \A from, to \in 1 .. MaxRows + 1 : Unexpected(AskedFor(from, to)) = {}
  <2>1. \A i \in 1 .. Len(lines) : lines[i] \in 0 .. Planned - 1
      BY ElementOfSeq DEF DrillInv, LinesInv
  <2>2. \A r \in rows : r.n \in 0 .. Planned - 1
      BY <2>1 DEF DrillInv, RowsInv
  <2> QED
      BY <2>2 DEF Unexpected, AskedFor, Numbers
<1> QED
    BY <1>1, <1>2 DEF DrillInv, LinesInv, BufferInv, RowsInv, DrillTypeOK

\* Counts that are equal leave no two rows of one number.
LEMMA CountsTellApart ==
    ASSUME NEW got, IsFiniteSet(got), Duplicates(got) = 0
    PROVE  \A r, s \in got : r.n = s.n => r = s
<1> DEFINE number == [r \in got |-> r.n]
<1>1. number \in Surjection(got, Numbers(got))
    BY DEF Surjection, Numbers
<1>2. IsFiniteSet(Numbers(got))
    BY <1>1, FS_Surjection
<1>3. Cardinality(got) \in Nat /\ Cardinality(Numbers(got)) \in Nat
    BY <1>2, FS_CardinalityType
<1>4. Cardinality(Numbers(got)) = Cardinality(got)
    BY <1>3 DEF Duplicates
<1>5. number \in Injection(got, Numbers(got))
    BY <1>1, <1>4, FS_Surjection
<1> QED
    BY <1>5 DEF Injection, IsInjective

LEMMA DrillPasses == DrillInv => PassedIsExact
<1> SUFFICES ASSUME DrillInv, NEW from \in 1 .. MaxRows + 1, NEW to \in 1 .. MaxRows + 1,
                    Passes(AskedFor(from, to)), NEW n \in 0 .. Planned - 1
             PROVE  /\ Cardinality({r \in rows : r.n = n /\ r.line \in from .. to - 1}) = 1
                    /\ \A r \in rows : r.n = n /\ r.line \in from .. to - 1 => r.whole
    BY DEF PassedIsExact
<1> DEFINE window == AskedFor(from, to)
           ofN == {r \in rows : r.n = n /\ r.line \in from .. to - 1}
<1> USE DrillNumbers
<1>1. window \subseteq rows /\ IsFiniteSet(window)
    BY FS_Subset DEF AskedFor, DrillInv, RowsInv
<1>2. \A r \in rows : r \in window <=> r.line \in from .. to - 1
    BY DEF AskedFor, DrillInv, RowsInv, LinesInv
<1>3. PICK s \in window : s.n = n
    BY DEF Passes, Missing, Numbers
<1>4. \A r \in window : r.n = n => r = s
    BY <1>1, <1>3, CountsTellApart DEF Passes
<1>5. ofN = {s}
    BY <1>1, <1>2, <1>3, <1>4
<1>6. Cardinality(ofN) = 1
    BY <1>5, FS_Singleton
<1>7. \A r \in window : r.whole
    BY DEF Passes, RowsCounted
<1> QED
    BY <1>2, <1>6, <1>7

LEMMA OneMore ==
    ASSUME NEW few, IsFiniteSet(few), NEW x
    PROVE  /\ IsFiniteSet(few \cup {x}) /\ Cardinality(few \cup {x}) \in Nat
           /\ Cardinality(few \cup {x}) <= Cardinality(few) + 1
<1>1. Cardinality(few) \in Nat
    BY FS_CardinalityType
<1>2. IsFiniteSet(few \cup {x})
    BY FS_AddElement
<1>3. Cardinality(few \cup {x}) = Cardinality(few) \/ Cardinality(few \cup {x}) = Cardinality(few) + 1
    BY FS_AddElement
<1> QED
    BY <1>1, <1>2, <1>3

LEMMA StartsCount ==
    ASSUME NEW of \in SUBSET (0 .. Planned), NEW c
    PROVE  IsFiniteSet(Starts(of, c)) /\ Cardinality(Starts(of, c)) \in Nat /\ Starts(of, c) \subseteq of
<1>1. IsFiniteSet(0 .. Planned) /\ Starts(of, c) \subseteq of
    BY FS_Interval, DrillNumbers DEF Starts
<1> QED
    BY <1>1, FS_Subset, FS_CardinalityType

\* The number that is cut is not outstanding any more: the cut moves on for nothing.
LEMMA CutServed ==
    ASSUME NEW of \in SUBSET (0 .. Planned), NEW c \in 0 .. Planned, NEW d \in {c, c + 1, 0}
    PROVE  Cardinality(Starts(of \ {c}, d)) <= Cardinality(Starts(of, c))
<1> DEFINE before == Starts(of, c)
           after == Starts(of \ {c}, d)
<1>1. IsFiniteSet(before) /\ Cardinality(before) \in Nat
    BY StartsCount
<1>2. CASE c \in of
  <2>1. c \in before
      BY <1>2 DEF Starts
  <2>2. IsFiniteSet(before \ {c}) /\ Cardinality(before \ {c}) = Cardinality(before) - 1
      BY <1>1, <2>1, FS_RemoveElement
  <2>3. after \subseteq (before \ {c}) \cup {c + 1}
      BY DrillNumbers DEF Starts
  <2>4. /\ IsFiniteSet((before \ {c}) \cup {c + 1})
        /\ Cardinality((before \ {c}) \cup {c + 1}) <= Cardinality(before)
    <3>1. Cardinality((before \ {c}) \cup {c + 1}) <= Cardinality(before \ {c}) + 1
        BY <2>2, OneMore
    <3>2. IsFiniteSet((before \ {c}) \cup {c + 1}) /\ Cardinality((before \ {c}) \cup {c + 1}) \in Nat
        BY <2>2, OneMore
    <3> QED
        BY <1>1, <2>2, <3>1, <3>2
  <2>5. Cardinality(after) <= Cardinality((before \ {c}) \cup {c + 1})
      BY <2>3, <2>4, FS_Subset
  <2>6. Cardinality(after) \in Nat /\ Cardinality((before \ {c}) \cup {c + 1}) \in Nat
      BY <2>3, <2>4, FS_Subset, FS_CardinalityType
  <2> QED
      BY <1>1, <2>4, <2>5, <2>6
<1>3. CASE c \notin of
  <2>1. after \subseteq before
      BY <1>3, DrillNumbers DEF Starts
  <2> QED
      BY <1>1, <2>1, FS_Subset
<1> QED
    BY <1>2, <1>3

\* A cut elsewhere costs at most one range, one at nought none.
LEMMA CutMoves ==
    ASSUME NEW of \in SUBSET (0 .. Planned), NEW c, NEW d \in 0 .. Planned
    PROVE  /\ Cardinality(Starts(of, d)) <= Cardinality(Starts(of, c)) + 1
           /\ d = 0 => Cardinality(Starts(of, d)) <= Cardinality(Starts(of, c))
<1>1. IsFiniteSet(Starts(of, c)) /\ Cardinality(Starts(of, c)) \in Nat /\ Cardinality(Starts(of, d)) \in Nat
    BY StartsCount
<1>2. Starts(of, d) \subseteq Starts(of, c) \cup {d}
    BY DEF Starts
<1>3. /\ IsFiniteSet(Starts(of, c) \cup {d})
      /\ Cardinality(Starts(of, c) \cup {d}) <= Cardinality(Starts(of, c)) + 1
      /\ Cardinality(Starts(of, c) \cup {d}) \in Nat
    BY <1>1, OneMore
<1>4. Cardinality(Starts(of, d)) <= Cardinality(Starts(of, c) \cup {d})
    BY <1>2, <1>3, FS_Subset
<1>5. ASSUME d = 0
      PROVE  Cardinality(Starts(of, d)) <= Cardinality(Starts(of, c))
  <2>1. Starts(of, d) \subseteq Starts(of, c)
      BY <1>5 DEF Starts
  <2> QED
      BY <1>1, <2>1, FS_Subset
<1> QED
    BY <1>1, <1>3, <1>4, <1>5


\* The ranges of the numbers seen, all below n: of whole numbers, covering what was seen,
\* apart from each other, the last one open if n - 1 was seen, and one for each beginning.
Covers(ranges, seen) ==
    \A m \in Nat : m \in seen <=> \E i \in 1 .. Len(ranges) : ranges[i][1] <= m /\ m <= ranges[i][2]
Forwards(ranges) == \A i \in 1 .. Len(ranges) : ranges[i] \in Nat \X Nat /\ ranges[i][1] <= ranges[i][2]
KeptApart(ranges) == \A i \in 1 .. Len(ranges) - 1 : ranges[i + 1][1] > ranges[i][2] + 1
RangesOf(ranges, n, seen) ==
    /\ ranges \in Seq(Nat \X Nat) /\ Covers(ranges, seen) /\ Forwards(ranges) /\ KeptApart(ranges)
    /\ n - 1 \in seen => ranges # <<>> /\ ranges[Len(ranges)][2] = n - 1
    /\ Len(ranges) = Cardinality(Starts(seen, -1))

LEMMA ExtendKeeps ==
    ASSUME NEW ranges \in Seq(Nat \X Nat), NEW n \in Nat
    PROVE  Extend(ranges, n) \in Seq(Nat \X Nat)
<1> DEFINE end == Len(ranges)
<1>1. CASE ranges # <<>> /\ ranges[end][2] = n - 1
  <2>1. Extend(ranges, n) = [ranges EXCEPT ![end][2] = n] /\ end \in 1 .. Len(ranges)
      BY <1>1 DEF Extend
  <2>2. ranges[end] \in Nat \X Nat
      BY <2>1
  <2>3. [ranges[end] EXCEPT ![2] = n] = <<ranges[end][1], n>>
      BY <2>2, SMTT(30)
  <2>4. Extend(ranges, n) = [ranges EXCEPT ![end] = <<ranges[end][1], n>>]
    <3>1. Extend(ranges, n) = [ranges EXCEPT ![end] = [ranges[end] EXCEPT ![2] = n]]
        BY <2>1
    <3> QED
        BY <2>3, <3>1, Zenon
  <2> DEFINE pair == <<ranges[end][1], n>>
  <2>5. pair \in Nat \X Nat /\ Extend(ranges, n) = [ranges EXCEPT ![end] = pair]
      BY <2>2, <2>4
  <2> HIDE DEF pair
  <2>6. [ranges EXCEPT ![end] = pair] \in Seq(Nat \X Nat)
      BY <2>1, <2>5
  <2> QED
      BY <2>5, <2>6
<1>2. CASE ~(ranges # <<>> /\ ranges[end][2] = n - 1)
  <2>1. Extend(ranges, n) = Append(ranges, <<n, n>>)
      BY <1>2 DEF Extend
  <2>2. <<n, n>> \in Nat \X Nat
      OBVIOUS
  <2> QED
      BY <2>1, <2>2
<1> QED
    BY <1>1, <1>2

\* Extend keeps it so when the number is missing, ...
LEMMA MissingExtends ==
    ASSUME NEW n \in Nat, NEW seen \in SUBSET (0 .. n - 1), NEW ranges, RangesOf(ranges, n, seen)
    PROVE  RangesOf(Extend(ranges, n), n + 1, seen \cup {n})
<1> DEFINE more == seen \cup {n}
           wider == Extend(ranges, n)
           end == Len(ranges)
<1>1. ranges \in Seq(Nat \X Nat) /\ end \in Nat /\ Covers(ranges, seen) /\ Forwards(ranges) /\ KeptApart(ranges)
    BY DEF RangesOf
<1>2. n \notin seen /\ n \in more /\ n + 1 - 1 = n /\ \A m \in seen : m \in Nat /\ m < n
    OBVIOUS
<1>3. IsFiniteSet(Starts(seen, -1)) /\ end = Cardinality(Starts(seen, -1))
  <2>1. seen \subseteq 0 .. n - 1 /\ Starts(seen, -1) \subseteq seen
      BY DEF Starts
  <2>2. IsFiniteSet(0 .. n - 1)
      BY FS_Interval
  <2> QED
      BY <2>1, <2>2, FS_Subset DEF RangesOf
<1>4. CASE ranges # <<>> /\ ranges[end][2] = n - 1
  <2>1. wider = [ranges EXCEPT ![end][2] = n] /\ end \in 1 .. Len(ranges)
      BY <1>1, <1>4 DEF Extend
  <2>2. ranges[end] \in Nat \X Nat /\ ranges[end][1] \in Nat /\ ranges[end][1] <= n - 1
      BY <1>1, <1>4, <2>1 DEF Forwards
  <2>3. wider = [ranges EXCEPT ![end] = <<ranges[end][1], n>>]
    <3>1. [ranges[end] EXCEPT ![2] = n] = <<ranges[end][1], n>>
        BY <2>2
    <3>2. wider = [ranges EXCEPT ![end] = [ranges[end] EXCEPT ![2] = n]]
        BY <2>1
    <3> QED
        BY <3>1, <3>2
  <2>4. <<ranges[end][1], n>> \in Nat \X Nat
      BY <2>2
  <2>5. wider \in Seq(Nat \X Nat) /\ Len(wider) = end
      BY <1>1, <2>1, <2>3, <2>4
  <2>6. wider[end] = <<ranges[end][1], n>> /\ \A i \in 1 .. end : i # end => wider[i] = ranges[i]
      BY <1>1, <2>1, <2>3
  <2>7. wider[end][1] = ranges[end][1] /\ wider[end][2] = n
      BY <2>6
  <2>8. n - 1 \in seen
    <3>1. ranges[end][1] <= n - 1 /\ n - 1 <= ranges[end][2] /\ n - 1 \in Nat
        BY <1>4, <2>2
    <3> QED
        BY <1>1, <2>1, <3>1 DEF Covers
  <2>9. Starts(more, -1) = Starts(seen, -1)
      BY <2>8 DEF Starts
  <2>10. Covers(wider, more)
    <3>1. ASSUME NEW m \in Nat, m \in more
          PROVE  \E i \in 1 .. end : wider[i][1] <= m /\ m <= wider[i][2]
      <4>1. CASE m = n
          BY <2>1, <2>2, <2>7, <4>1
      <4>2. CASE m # n
        <5>1. PICK i \in 1 .. end : ranges[i][1] <= m /\ m <= ranges[i][2]
            BY <1>1, <3>1, <4>2 DEF Covers
        <5>2. CASE i = end
            BY <1>4, <2>7, <5>1, <5>2
        <5>3. CASE i # end
            BY <2>6, <5>1, <5>3
        <5> QED
            BY <5>2, <5>3
      <4> QED
          BY <4>1, <4>2
    <3>2. ASSUME NEW m \in Nat, NEW i \in 1 .. end, wider[i][1] <= m, m <= wider[i][2]
          PROVE  m \in more
      <4>1. CASE i # end
          BY <1>1, <2>6, <3>2, <4>1 DEF Covers
      <4>2. CASE i = end /\ m = n
          BY <4>2
      <4>3. CASE i = end /\ m # n
        <5>1. ranges[end][1] <= m /\ m <= ranges[end][2]
            BY <1>4, <2>2, <2>7, <3>2, <4>3
        <5> QED
            BY <1>1, <2>1, <5>1 DEF Covers
      <4> QED
          BY <4>1, <4>2, <4>3
    <3> QED
        BY <2>5, <3>1, <3>2 DEF Covers
  <2>11. Forwards(wider)
    <3> SUFFICES ASSUME NEW i \in 1 .. end
                 PROVE  wider[i] \in Nat \X Nat /\ wider[i][1] <= wider[i][2]
        BY <2>5 DEF Forwards
    <3>1. CASE i = end
        BY <2>2, <2>4, <2>6, <2>7, <3>1
    <3>2. CASE i # end
        BY <1>1, <2>6, <3>2 DEF Forwards
    <3> QED
        BY <3>1, <3>2
  <2>12. KeptApart(wider)
    <3> SUFFICES ASSUME NEW i \in 1 .. end - 1
                 PROVE  wider[i + 1][1] > wider[i][2] + 1
        BY <2>5 DEF KeptApart
    <3>1. wider[i] = ranges[i] /\ ranges[i + 1][1] > ranges[i][2] + 1 /\ i + 1 \in 1 .. end
        BY <1>1, <2>6 DEF KeptApart
    <3>2. wider[i + 1][1] = ranges[i + 1][1]
        BY <2>6, <2>7, <3>1
    <3> QED
        BY <3>1, <3>2
  <2>13. wider # <<>>
      BY <1>1, <2>1, <2>5
  <2> QED
      BY <1>2, <1>3, <2>5, <2>7, <2>9, <2>10, <2>11, <2>12, <2>13 DEF RangesOf
<1>5. CASE ~(ranges # <<>> /\ ranges[end][2] = n - 1)
  <2>1. wider = Append(ranges, <<n, n>>) /\ n - 1 \notin seen
      BY <1>5 DEF Extend, RangesOf
  <2>2. wider \in Seq(Nat \X Nat) /\ Len(wider) = end + 1 /\ wider[end + 1] = <<n, n>>
      BY <1>1, <2>1
  <2>3. \A i \in 1 .. end : wider[i] = ranges[i]
      BY <1>1, <2>1
  <2>4. Starts(more, -1) = Starts(seen, -1) \cup {n} /\ n \notin Starts(seen, -1)
    <3>1. \A m \in seen : m - 1 # n /\ m # -1
        BY <1>2
    <3> QED
        BY <1>2, <2>1, <3>1 DEF Starts
  <2>5. Cardinality(Starts(more, -1)) = end + 1
    <3> DEFINE begin == Starts(seen, -1)
    <3>1. IsFiniteSet(begin) /\ n \notin begin /\ Cardinality(begin) = end
        BY <1>3, <2>4
    <3> HIDE DEF begin, end
    <3>2. Cardinality(begin \cup {n}) = Cardinality(begin) + 1
        BY <3>1, FS_AddElement
    <3> QED
        BY <2>4, <3>1, <3>2 DEF begin
  <2>6. Covers(wider, more)
    <3>1. ASSUME NEW m \in Nat, m \in more
          PROVE  \E i \in 1 .. end + 1 : wider[i][1] <= m /\ m <= wider[i][2]
      <4>1. CASE m = n
        <5>1. end + 1 \in 1 .. end + 1 /\ wider[end + 1][1] = n /\ wider[end + 1][2] = n /\ n <= n
            BY <1>1, <2>2
        <5> HIDE DEF wider, end
        <5> QED
            BY <4>1, <5>1
      <4>2. CASE m # n
        <5>1. PICK i \in 1 .. end : ranges[i][1] <= m /\ m <= ranges[i][2]
            BY <1>1, <3>1, <4>2 DEF Covers
        <5>2. wider[i] = ranges[i]
            BY <2>3
        <5>3. i \in 1 .. end + 1
            BY <1>1
        <5> HIDE DEF wider, end
        <5> QED
            BY <5>1, <5>2, <5>3
      <4> QED
          BY <4>1, <4>2
    <3>2. ASSUME NEW m \in Nat, NEW i \in 1 .. end + 1, wider[i][1] <= m, m <= wider[i][2]
          PROVE  m \in more
      <4>1. CASE i = end + 1
          BY <2>2, <3>2, <4>1
      <4>2. CASE i # end + 1
        <5>1. i \in 1 .. end /\ ranges[i][1] <= m /\ m <= ranges[i][2]
            BY <1>1, <2>3, <3>2, <4>2
        <5> QED
            BY <1>1, <5>1 DEF Covers
      <4> QED
          BY <4>1, <4>2
    <3> QED
        BY <2>2, <3>1, <3>2 DEF Covers
  <2>7. Forwards(wider)
    <3> SUFFICES ASSUME NEW i \in 1 .. end + 1
                 PROVE  wider[i] \in Nat \X Nat /\ wider[i][1] <= wider[i][2]
        BY <2>2 DEF Forwards
    <3>1. CASE i = end + 1
        BY <2>2, <3>1
    <3>2. CASE i # end + 1
      <4>1. i \in 1 .. end
          BY <1>1, <3>2
      <4> QED
          BY <1>1, <2>3, <4>1 DEF Forwards
    <3> QED
        BY <3>1, <3>2
  <2>8. KeptApart(wider)
    <3> SUFFICES ASSUME NEW i \in 1 .. end
                 PROVE  wider[i + 1][1] > wider[i][2] + 1
        BY <1>1, <2>2 DEF KeptApart
    <3>1. CASE i = end
      <4>1. ranges[end][2] \in Nat /\ ranges[end][1] <= ranges[end][2] /\ ranges[end][2] # n - 1
        <5>1. ranges # <<>>
            BY <1>1, <3>1
        <5>2. ranges[end] \in Nat \X Nat /\ ranges[end][1] <= ranges[end][2]
            BY <1>1, <3>1 DEF Forwards
        <5> QED
            BY <1>5, <5>1, <5>2
      <4>2. ranges[end][2] \in seen
          BY <1>1, <3>1, <4>1 DEF Covers
      <4>3. ranges[end][2] < n
          BY <1>2, <4>2
      <4>4. wider[i + 1][1] = n /\ wider[i][2] = ranges[end][2]
          BY <2>2, <2>3, <3>1
      <4> QED
          BY <4>1, <4>3, <4>4
    <3>2. CASE i # end
      <4>1. i \in 1 .. end - 1 /\ i + 1 \in 1 .. end
          BY <1>1, <3>2
      <4> QED
          BY <1>1, <2>3, <4>1 DEF KeptApart
    <3> QED
        BY <3>1, <3>2
  <2>9. wider # <<>> /\ wider[Len(wider)][2] = n
      BY <1>1, <2>2
  <2> QED
      BY <1>2, <2>2, <2>5, <2>6, <2>7, <2>8, <2>9 DEF RangesOf
<1> QED
    BY <1>4, <1>5

\* ... and so it stays when it is not.
LEMMA StoredPasses ==
    ASSUME NEW n \in Nat, NEW seen \in SUBSET (0 .. n - 1), NEW ranges, RangesOf(ranges, n, seen)
    PROVE  RangesOf(ranges, n + 1, seen)
<1>1. n + 1 - 1 \notin seen
    OBVIOUS
<1> QED
    BY <1>1 DEF RangesOf

\* The ranges are the missing numbers', apart, one for each beginning.
LEMMA RangesAre ==
    ASSUME NEW missing \in SUBSET (0 .. Planned - 1)
    PROVE  RangesOf(MissingRanges(missing), Planned, missing)
<1> DEFINE Pairs == Seq(Nat \X Nat)
           Body(f, n) == IF n = 0 THEN <<>> ELSE IF n - 1 \in missing THEN Extend(f[n - 1], n - 1) ELSE f[n - 1]
           step == [n \in 1 .. Planned |-> [s \in Pairs |-> IF n - 1 \in missing THEN Extend(s, n - 1) ELSE s]]
           upTo == CHOOSE f : f = [n \in 0 .. Planned |-> Body(f, n)]
           Seen(n) == missing \cap (0 .. n - 1)
<1>1. Planned \in Nat
    BY DrillNumbers
<1>2. step \in [1 .. Planned -> [Pairs -> Pairs]]
  <2>1. ASSUME NEW n \in 1 .. Planned, NEW s \in Pairs
        PROVE  Extend(s, n - 1) \in Pairs
    <3>1. n - 1 \in Nat
        OBVIOUS
    <3> QED
        BY <3>1, ExtendKeeps
  <2> QED
      BY <2>1
<1>3. <<>> \in Pairs
    OBVIOUS
<1> HIDE DEF step, Pairs
<1>4. PICK f \in [0 .. Planned -> Pairs] : Takes(f, Planned, <<>>, step)
    BY <1>1, <1>2, <1>3, Recursion
<1> USE DEF step, Pairs
<1>5. \A n \in 0 .. Planned : f[n] = Body(f, n)
  <2>1. f[0] = <<>> /\ \A n \in 1 .. Planned : f[n] = step[n][f[n - 1]]
      BY <1>4 DEF Takes
  <2>2. ASSUME NEW n \in 1 .. Planned
        PROVE  f[n] = Body(f, n)
    <3>1. n - 1 \in 0 .. Planned /\ n # 0 /\ f[n - 1] \in Pairs
        BY <1>1, <1>4
    <3> QED
        BY <2>1, <3>1
  <2> QED
      BY <1>1, <2>1, <2>2
<1>6. f = [n \in 0 .. Planned |-> Body(f, n)]
    BY <1>4, <1>5
<1> HIDE DEF Body
<1>7. upTo = [n \in 0 .. Planned |-> Body(upTo, n)]
    BY <1>6
<1> USE DEF Body
<1>8. MissingRanges(missing) = upTo[Planned]
    BY DEF MissingRanges
<1> HIDE DEF upTo
<1>9. /\ upTo[0] = <<>>
      /\ \A n \in 0 .. Planned - 1 : upTo[n + 1] = IF n \in missing THEN Extend(upTo[n], n) ELSE upTo[n]
    BY <1>1, <1>7
<1> DEFINE Good == {n \in 0 .. Planned : RangesOf(upTo[n], n, Seen(n))}
<1>10. 0 \in Good
  <2>1. Starts({}, -1) = {} /\ Cardinality({}) = 0
      BY FS_EmptySet DEF Starts
  <2>4. Seen(0) = {}
      OBVIOUS
  <2>2. <<>> \in Seq(Nat \X Nat) /\ Len(<<>>) = 0
      OBVIOUS
  <2>3. RangesOf(<<>>, 0, {})
    <3>1. Covers(<<>>, {}) /\ Forwards(<<>>) /\ KeptApart(<<>>)
        BY <2>2 DEF Covers, Forwards, KeptApart
    <3>2. 0 - 1 \notin {}
        OBVIOUS
    <3> QED
        BY <2>1, <2>2, <3>1, <3>2 DEF RangesOf
  <2>5. 0 \in 0 .. Planned
      BY <1>1
  <2>6. RangesOf(upTo[0], 0, Seen(0))
      BY <1>9, <2>3, <2>4
  <2> HIDE DEF Seen
  <2> QED
      BY <2>5, <2>6
<1>11. ASSUME NEW i \in 1 .. Planned, i - 1 \in Good
       PROVE  i \in Good
  <2> DEFINE n == i - 1
  <2>1. n \in Nat /\ n \in 0 .. Planned - 1 /\ n + 1 = i /\ RangesOf(upTo[n], n, Seen(n))
      BY <1>1, <1>11
  <2>2. Seen(n) \in SUBSET (0 .. n - 1)
      BY <1>1, <2>1
  <2> HIDE DEF n
  <2>3. CASE n \in missing
    <3>1. Seen(n + 1) = Seen(n) \cup {n}
        BY <1>1, <2>1, <2>3
    <3> HIDE DEF Seen
    <3>2. RangesOf(Extend(upTo[n], n), n + 1, Seen(n + 1))
        BY <2>1, <2>2, <3>1, MissingExtends
    <3> QED
        BY <1>9, <2>1, <2>3, <3>2
  <2>4. CASE n \notin missing
    <3>1. Seen(n + 1) = Seen(n)
        BY <1>1, <2>1, <2>4
    <3> HIDE DEF Seen
    <3>2. RangesOf(upTo[n], n + 1, Seen(n + 1))
        BY <2>1, <2>2, <3>1, StoredPasses
    <3> QED
        BY <1>9, <2>1, <2>4, <3>2
  <2> QED
      BY <2>3, <2>4
<1>12. Planned \in Good
  <2> HIDE DEF Good
  <2>1. 0 .. Planned \subseteq Good
      BY <1>1, <1>10, <1>11, UpTo
  <2> QED
      BY <1>1, <2>1
<1>13. Seen(Planned) = missing
    BY <1>1
<1> QED
    BY <1>8, <1>12, <1>13

LEMMA CutIs ==
    ASSUME DrillInv
    PROVE  /\ offset - Len(buffer) + 1 \in 1 .. Len(lines) + 1 /\ Cut \in 0 .. Planned
           /\ Outstanding \in SUBSET (0 .. Planned)
           /\ buffer # <<>> => Head(buffer) \in 1 .. Len(lines) /\ Head(buffer) = offset - Len(buffer) + 1 /\ Cut = lines[Head(buffer)]
<1>1. offset - Len(buffer) + 1 \in 1 .. Len(lines) + 1 /\ Len(lines) \in Nat
    BY DEF DrillInv, LinesInv, BufferInv
<1>2. Cut \in 0 .. Planned
    BY <1>1, DrillNumbers DEF DrillInv, LinesInv, Cut, NumberAt
<1>3. Outstanding \in SUBSET (0 .. Planned)
    BY DEF Outstanding
<1>4. ASSUME buffer # <<>>
      PROVE  Head(buffer) \in 1 .. Len(lines) /\ Head(buffer) = offset - Len(buffer) + 1 /\ Cut = lines[Head(buffer)]
  <2>1. buffer \in Seq(Nat) /\ Len(buffer) \in Nat /\ Len(buffer) >= 1 /\ Head(buffer) = buffer[1] /\ 1 \in DOMAIN buffer
      BY <1>4 DEF DrillInv, BufferInv
  <2>2. Head(buffer) = offset - Len(buffer) + 1
      BY <2>1 DEF DrillInv, BufferInv
  <2>3. Head(buffer) \in 1 .. Len(lines)
      BY <1>1, <2>1, <2>2 DEF DrillInv, BufferInv
  <2> QED
      BY <2>2, <2>3 DEF Cut, NumberAt
<1> QED
    BY <1>1, <1>2, <1>3, <1>4

\* What is stored is outstanding no more, and the cut is where it was or at the next line.
LEMMA ShippingLoses ==
    ASSUME DrillInv, WrittenInv, LossInv, buffer # <<>>, NEW whole, Stored(whole), UNCHANGED <<lines, next, offset, losses>>,
           buffer' \in {buffer, Tail(buffer)}
    PROVE  WrittenInv' /\ LossInv'
<1> USE DrillNumbers
<1>1. WrittenInv' /\ Len(lines) \in Nat /\ Len(buffer) \in Nat
    BY DEF WrittenInv, NumberAt, DrillInv, LinesInv, BufferInv
<1>2. Outstanding' = Outstanding \ {Cut}
  <2>1. rows' = rows \cup {[id |-> shipments', line |-> Head(buffer), n |-> lines[Head(buffer)], whole |-> whole]}
      BY DEF Stored
  <2> DEFINE row == [id |-> shipments', line |-> Head(buffer), n |-> lines[Head(buffer)], whole |-> whole]
  <2>3. row.n = Cut /\ rows' = rows \cup {row}
      BY <2>1, CutIs
  <2> HIDE DEF row
  <2>2. \A n \in 0 .. Planned : (\A r \in rows' : r.n # n) <=> (\A r \in rows : r.n # n) /\ n # Cut
      BY <2>3
  <2> QED
      BY <2>2 DEF Outstanding
<1>3. Cut' \in {Cut, Cut + 1, 0}
  <2>1. CASE buffer' = buffer
      BY <2>1 DEF Cut, NumberAt
  <2>2. CASE buffer' = Tail(buffer)
    <3>1. Len(buffer') = Len(buffer) - 1
        BY <2>2 DEF DrillInv, BufferInv
    <3>2. Cut' = NumberAt(Head(buffer) + 1) /\ Cut = NumberAt(Head(buffer)) /\ Head(buffer) \in 1 .. Len(lines)
      <4>1. offset' - Len(buffer') + 1 = Head(buffer) + 1
          BY <3>1, CutIs DEF DrillInv, BufferInv
      <4>2. Cut' = NumberAt(offset' - Len(buffer') + 1)
          BY DEF Cut, NumberAt
      <4> QED
          BY <4>1, <4>2, CutIs DEF NumberAt
    <3> QED
        BY <3>2 DEF WrittenInv
  <2> QED
      BY <2>1, <2>2
<1>4. Cardinality(Starts(Outstanding', Cut')) <= Cardinality(Starts(Outstanding, Cut))
    BY <1>2, <1>3, CutIs, CutServed
<1>5. Cardinality(Starts(Outstanding, Cut)) \in Nat /\ Cardinality(Starts(Outstanding', Cut')) \in Nat
  <2>1. Outstanding \in SUBSET (0 .. Planned) /\ Outstanding' \in SUBSET (0 .. Planned)
      BY <1>2, CutIs
  <2> QED
      BY <2>1, StartsCount
<1>6. LossInv'
  <2>1. losses' = losses /\ losses \in Nat
      BY DEF DrillInv, LinesInv
  <2>2. Cardinality(Starts(Outstanding', Cut')) <= losses' + 1
      BY <1>4, <1>5, <2>1 DEF LossInv
  <2> QED
      BY <2>2 DEF LossInv, Starts
<1> QED
    BY <1>1, <1>6

LEMMA LossSteps == DrillInv /\ WrittenInv /\ LossInv /\ [DrillNext]_drillVars => WrittenInv' /\ LossInv'
<1> SUFFICES ASSUME DrillInv, WrittenInv, LossInv, [DrillNext]_drillVars PROVE WrittenInv' /\ LossInv'
    OBVIOUS
<1> USE DrillNumbers
<1>0. /\ offset - Len(buffer) + 1 \in 1 .. Len(lines) + 1 /\ Cut \in 0 .. Planned /\ Outstanding \in SUBSET (0 .. Planned)
      /\ lines \in Seq(0 .. Planned - 1) /\ Len(lines) \in Nat /\ offset \in 0 .. Len(lines) /\ Len(buffer) \in Nat /\ losses \in Nat
      /\ next \in 0 .. Planned /\ Len(buffer) <= offset
    BY CutIs DEF DrillInv, LinesInv, BufferInv
<1>1. CASE WriteLine
  <2>1. /\ lines' = Append(lines, next) /\ next' = next + 1 /\ next < Planned /\ Len(lines) < MaxRows
        /\ UNCHANGED <<offset, buffer, rows, losses>>
      BY <1>1 DEF WriteLine, NumberOf
  <2>2. Len(lines') = Len(lines) + 1 /\ lines'[Len(lines) + 1] = next /\ \A i \in 1 .. Len(lines) : lines'[i] = lines[i]
      BY <1>0, <2>1
  <2>3. ASSUME NEW i \in 1 .. Len(lines) + 1
        PROVE  NumberAt(i)' = NumberAt(i)
    <3>1. CASE i = Len(lines) + 1
        BY <1>0, <2>2, <3>1 DEF NumberAt
    <3>2. CASE i # Len(lines) + 1
      <4>1. i \in 1 .. Len(lines) /\ i <= Len(lines) /\ i <= Len(lines')
          BY <1>0, <2>2, <3>2, SMTT(30)
      <4> QED
          BY <2>2, <4>1 DEF NumberAt
    <3> QED
        BY <3>1, <3>2
  <2>4. /\ \A i \in Nat : i = Len(lines) + 2 => NumberAt(i)' = next + 1
        /\ NumberAt(Len(lines) + 1) = next
      BY <1>0, <2>1, <2>2 DEF NumberAt
  <2>5. WrittenInv'
    <3>1. ASSUME NEW i \in 1 .. Len(lines')
          PROVE  NumberAt(i + 1)' \in {NumberAt(i)' + 1, 0}
      <4>1. CASE i = Len(lines) + 1
        <5>1. i + 1 \in Nat /\ i + 1 = Len(lines) + 2 /\ i \in 1 .. Len(lines) + 1
            BY <1>0, <4>1
        <5>2. NumberAt(i + 1)' = next + 1 /\ NumberAt(i)' = NumberAt(i) /\ NumberAt(i) = next
            BY <2>3, <2>4, <4>1, <5>1
        <5> QED
            BY <5>2
      <4>2. CASE i # Len(lines) + 1
        <5>1. i \in 1 .. Len(lines) /\ i + 1 \in 1 .. Len(lines) + 1 /\ i \in 1 .. Len(lines) + 1
            BY <1>0, <2>2, <4>2
        <5> QED
            BY <2>3, <5>1 DEF WrittenInv
      <4> QED
          BY <4>1, <4>2
    <3> QED
        BY <1>0, <2>1, <2>2, <3>1 DEF WrittenInv
  <2>6. Cut' = Cut
    <3>1. PICK i \in 1 .. Len(lines) + 1 : i = offset - Len(buffer) + 1
        BY <1>0
    <3>2. Cut = NumberAt(i) /\ Cut' = NumberAt(i)'
        BY <2>1, <3>1 DEF Cut, NumberAt
    <3> QED
        BY <2>3, <3>1, <3>2
  <2>7. Outstanding' = Outstanding
      BY <2>1 DEF Outstanding
  <2> QED
      BY <2>1, <2>5, <2>6, <2>7 DEF LossInv, Starts
<1>2. CASE ReadLine
  <2>1. lines' = lines /\ next' = next /\ rows' = rows /\ losses' = losses /\ offset' = offset + 1 /\ buffer' = Append(buffer, offset + 1)
      BY <1>2 DEF ReadLine
  <2>2. Len(buffer') = Len(buffer) + 1
      BY <2>1 DEF DrillInv, BufferInv
  <2>3. offset' - Len(buffer') + 1 = offset - Len(buffer) + 1
      BY <1>0, <2>1, <2>2
  <2>4. WrittenInv' /\ Cut' = Cut /\ Outstanding' = Outstanding
      BY <2>1, <2>3 DEF WrittenInv, Cut, NumberAt, Outstanding
  <2> QED
      BY <2>1, <2>4 DEF LossInv, Starts
<1>3. CASE ShipLine
  <2>1. buffer # <<>> /\ Stored(TRUE) /\ buffer' = Tail(buffer) /\ UNCHANGED <<lines, next, offset, losses>>
      BY <1>3 DEF ShipLine
  <2> QED
      BY <2>1, ShippingLoses
<1>4. CASE ShipBadly
  <2>1. buffer # <<>> /\ UNCHANGED <<lines, next, offset, losses>>
      BY <1>4 DEF ShipBadly
  <2>2. CASE Stored(TRUE) /\ buffer' = buffer
      BY <2>1, <2>2, ShippingLoses
  <2>3. CASE Stored(FALSE) /\ buffer' = Tail(buffer)
      BY <2>1, <2>3, ShippingLoses
  <2> QED
      BY <1>4, <2>2, <2>3 DEF ShipBadly
<1>5. CASE KillCollector
  <2>1. UNCHANGED <<lines, next, rows>> /\ buffer' = <<>> /\ Len(buffer') = 0
      BY <1>5 DEF KillCollector
  <2>2. WrittenInv' /\ Outstanding' = Outstanding
      BY <2>1 DEF WrittenInv, NumberAt, Outstanding
  <2>3. CASE offset' = offset - Len(buffer) /\ losses' = losses
    <3>1. offset' - Len(buffer') + 1 = offset - Len(buffer) + 1
        BY <1>0, <2>1, <2>3
    <3>2. Cut' = Cut
        BY <2>1, <3>1 DEF Cut, NumberAt
    <3> QED
        BY <2>2, <2>3, <3>2 DEF LossInv, Starts
  <2>4. CASE losses' = losses + (IF buffer = <<>> THEN 0 ELSE 1) /\ offset' = offset
    <3>1. CASE buffer = <<>>
      <4>1. Cut' = Cut /\ losses' = losses
          BY <1>0, <2>1, <2>4, <3>1 DEF Cut, NumberAt
      <4> QED
          BY <2>2, <4>1 DEF LossInv, Starts
    <3>2. CASE buffer # <<>>
      <4>1. Cut' \in 0 .. Planned
        <5>1. DrillInv'
            BY DrillSteps
        <5>2. (offset - Len(buffer) + 1)' \in 1 .. Len(lines') + 1
            BY <1>0, <2>1, <2>4
        <5> QED
            BY <1>0, <2>1, <2>4, <5>2 DEF Cut, NumberAt
      <4>2. Cardinality(Starts(Outstanding, Cut')) <= Cardinality(Starts(Outstanding, Cut)) + 1
          BY <1>0, <4>1, CutMoves
      <4>3. Cardinality(Starts(Outstanding, Cut)) \in Nat /\ Cardinality(Starts(Outstanding, Cut')) \in Nat
          BY <1>0, StartsCount
      <4>4. losses' = losses + 1
          BY <2>4, <3>2
      <4>5. Cardinality(Starts(Outstanding, Cut')) <= losses' + 1
          BY <1>0, <4>2, <4>3, <4>4 DEF LossInv
      <4> QED
          BY <2>2, <4>5 DEF LossInv, Starts
    <3> QED
        BY <3>1, <3>2
  <2> QED
      BY <1>5, <2>3, <2>4 DEF KillCollector
<1>6. CASE RestartFixture
  <2>1. next' = 0 /\ UNCHANGED <<lines, offset, buffer, rows, losses>>
      BY <1>6 DEF RestartFixture
  <2>2. \A i : NumberAt(i)' \in {NumberAt(i), 0} /\ (i <= Len(lines) => NumberAt(i)' = NumberAt(i))
      BY <2>1 DEF NumberAt
  <2>3. WrittenInv'
    <3>1. ASSUME NEW i \in 1 .. Len(lines)
          PROVE  NumberAt(i + 1)' \in {NumberAt(i)' + 1, 0}
        BY <1>0, <2>2 DEF WrittenInv
    <3> QED
        BY <2>1, <3>1 DEF WrittenInv
  <2>4. Cut' \in {Cut, 0} /\ Outstanding' = Outstanding
    <3>1. Cut' = NumberAt(offset - Len(buffer) + 1)'
        BY <2>1 DEF Cut, NumberAt
    <3> QED
        BY <2>1, <2>2, <3>1 DEF Cut, Outstanding
  <2>5. Cardinality(Starts(Outstanding, Cut')) <= losses + 1
    <3>1. CASE Cut' = Cut
        BY <3>1 DEF LossInv
    <3>2. CASE Cut' = 0
      <4>1. Cardinality(Starts(Outstanding, 0)) <= Cardinality(Starts(Outstanding, Cut))
          BY <1>0, CutMoves
      <4>2. Cardinality(Starts(Outstanding, Cut)) \in Nat /\ Cardinality(Starts(Outstanding, 0)) \in Nat
          BY <1>0, StartsCount
      <4> QED
          BY <1>0, <3>2, <4>1, <4>2 DEF LossInv
    <3> QED
        BY <2>4, <3>1, <3>2
  <2> QED
      BY <2>1, <2>3, <2>4, <2>5 DEF LossInv, Starts
<1>7. CASE FirstSample \/ SecondSample \/ UNCHANGED drillVars
  <2>1. UNCHANGED <<lines, next, offset, buffer, rows, losses>>
      BY <1>7 DEF FirstSample, SecondSample, pipeline, drillVars
  <2> QED
      BY <2>1 DEF WrittenInv, LossInv, Cut, NumberAt, Outstanding, Starts
<1> QED
    BY <1>1, <1>2, <1>3, <1>4, <1>5, <1>6, <1>7 DEF DrillNext

LEMMA LossStarts == DrillInit => WrittenInv /\ LossInv
<1> SUFFICES ASSUME DrillInit PROVE WrittenInv /\ LossInv
    OBVIOUS
<1>1. lines = <<>> /\ next = 0 /\ offset = 0 /\ buffer = <<>> /\ rows = {} /\ losses = 0 /\ Len(lines) = 0 /\ Len(buffer) = 0
    BY DEF DrillInit
<1>2. WrittenInv
    BY <1>1, DrillNumbers DEF WrittenInv
<1>3. Cut = 0 /\ Outstanding = 0 .. Planned
    BY <1>1 DEF Cut, NumberAt, Outstanding
<1>4. Starts(0 .. Planned, 0) = {0}
    BY DrillNumbers DEF Starts
<1>5. Cardinality({0}) = 1
    BY FS_Singleton
<1> QED
    BY <1>1, <1>2, <1>3, <1>4, <1>5 DEF LossInv

\* The cut is behind the last number when everything is written and shipped: it counts for
\* the one, and each loss for one range.
LEMMA DrillNamesLosses == DrillInv /\ WrittenInv /\ LossInv => RangePerLoss
<1> SUFFICES ASSUME DrillInv, WrittenInv, LossInv, next = Planned, buffer = <<>>, offset = Len(lines)
             PROVE  LET missing == Missing(AskedFor(1, MaxRows + 1))
                        ranges == MissingRanges(missing)
                    IN /\ Len(ranges) <= losses
                       /\ UNION {ranges[i][1] .. ranges[i][2] : i \in DOMAIN ranges} = missing
                       /\ \A i \in 1 .. Len(ranges) - 1 : ranges[i + 1][1] > ranges[i][2] + 1
    BY DEF RangePerLoss
<1> DEFINE missing == Missing(AskedFor(1, MaxRows + 1))
           ranges == MissingRanges(missing)
<1> USE DrillNumbers
<1>1. AskedFor(1, MaxRows + 1) = rows
  <2>1. Len(lines) \in Nat /\ Len(lines) <= MaxRows
      BY DEF DrillInv, LinesInv, WrittenInv
  <2>2. \A r \in rows : 1 <= r.line /\ r.line < MaxRows + 1
      BY <2>1 DEF DrillInv, RowsInv
  <2> QED
      BY <2>2 DEF AskedFor
<1>2. \A r \in rows : r.n # Planned
  <2>1. \A i \in 1 .. Len(lines) : lines[i] \in 0 .. Planned - 1
      BY ElementOfSeq DEF DrillInv, LinesInv
  <2> QED
      BY <2>1 DEF DrillInv, RowsInv
<1>3. missing \in SUBSET (0 .. Planned - 1) /\ Outstanding = missing \cup {Planned}
  <2>1. missing = {n \in 0 .. Planned - 1 : \A r \in rows : r.n # n}
      BY <1>1 DEF Missing, Numbers
  <2> HIDE DEF missing
  <2> QED
      BY <1>2, <2>1 DEF Outstanding
<1> HIDE DEF missing
<1>4. RangesOf(ranges, Planned, missing)
    BY <1>3, RangesAre
<1> HIDE DEF ranges
<1>5. Cut = Planned
  <2>1. Len(buffer) = 0 /\ Len(lines) \in Nat
      BY DEF DrillInv, LinesInv
  <2> QED
      BY <2>1 DEF Cut, NumberAt
<1>6. Len(ranges) <= losses
  <2>1. Starts(Outstanding, Cut) = Starts(missing, -1) \cup {Planned} /\ Planned \notin Starts(missing, -1)
      BY <1>3, <1>5 DEF Starts
  <2>2. missing \in SUBSET (0 .. Planned)
      BY <1>3
  <2>3. IsFiniteSet(Starts(missing, -1)) /\ Cardinality(Starts(missing, -1)) \in Nat
      BY <2>2, StartsCount
  <2>4. Cardinality(Starts(Outstanding, Cut)) = Len(ranges) + 1 /\ Len(ranges) \in Nat
    <3>1. Len(ranges) = Cardinality(Starts(missing, -1))
        BY <1>4 DEF RangesOf
    <3>2. Cardinality(Starts(missing, -1) \cup {Planned}) = Cardinality(Starts(missing, -1)) + 1
        BY <2>1, <2>3, FS_AddElement
    <3> QED
        BY <2>1, <2>3, <3>1, <3>2
  <2> QED
      BY <2>4 DEF LossInv, DrillInv, LinesInv
<1>7. UNION {ranges[i][1] .. ranges[i][2] : i \in DOMAIN ranges} = missing
  <2>1. ranges \in Seq(Nat \X Nat) /\ DOMAIN ranges = 1 .. Len(ranges) /\ Covers(ranges, missing) /\ Forwards(ranges)
      BY <1>4 DEF RangesOf
  <2>2. \A i \in DOMAIN ranges : ranges[i][1] \in Nat /\ ranges[i][2] \in Nat
      BY <2>1 DEF Forwards
  <2>3. ASSUME NEW m \in missing
        PROVE  \E i \in DOMAIN ranges : m \in ranges[i][1] .. ranges[i][2]
    <3>1. m \in Nat
        BY <1>3
    <3>2. PICK i \in 1 .. Len(ranges) : ranges[i][1] <= m /\ m <= ranges[i][2]
        BY <2>1, <3>1 DEF Covers
    <3>3. i \in DOMAIN ranges /\ m \in ranges[i][1] .. ranges[i][2]
        BY <2>1, <2>2, <3>1, <3>2
    <3> QED
        BY <3>3
  <2>4. ASSUME NEW i \in DOMAIN ranges, NEW m \in ranges[i][1] .. ranges[i][2]
        PROVE  m \in missing
    <3>1. m \in Nat /\ ranges[i][1] <= m /\ m <= ranges[i][2]
        BY <2>2
    <3> QED
        BY <2>1, <3>1 DEF Covers
  <2> QED
      BY <2>3, <2>4
<1>8. \A i \in 1 .. Len(ranges) - 1 : ranges[i + 1][1] > ranges[i][2] + 1
    BY <1>4 DEF RangesOf, KeptApart
<1> QED
    BY <1>6, <1>7, <1>8 DEF ranges, missing

\* verify-numbered.py passes a drill only when every number of the run is in the window once
\* and whole, names no more ranges than losses and by them exactly what is missing, and
\* measure-input.py measures what one process of the collector read and shipped, for every
\* length of the run and every fault.
THEOREM DrillIsSafe == DrillSpec => []DrillSafe
<1>1. DrillInit => DrillInv /\ WrittenInv /\ LossInv
    BY DrillStarts, LossStarts
<1>2. DrillInv /\ WrittenInv /\ LossInv /\ [DrillNext]_drillVars => (DrillInv /\ WrittenInv /\ LossInv)'
    BY DrillSteps, LossSteps
<1>3. DrillInv /\ WrittenInv /\ LossInv => DrillSafe
    BY DrillTypes, DrillPasses, DrillNamesLosses DEF DrillSafe, DrillInv, SampleInv
<1> QED
    BY <1>1, <1>2, <1>3, PTL DEF DrillSpec
=============================================================================
