---------------------------- MODULE ConsoleSession ----------------------------
(***************************************************************************)
(* The collector's session on the UniFi console: class Console of          *)
(* kubernetes/apps/observability/unifi-flows/app/collector.py.             *)
(*                                                                         *)
(* A cycle asks for pages.  It logs in when it holds no token, logs in     *)
(* again when a session kept from an earlier cycle is refused, and gives   *)
(* up when a session made in this cycle is.  Refusals space out further    *)
(* logins; HTTP 429 silences every request for a while.                    *)
(*                                                                         *)
(* One step is one request with its answer, or the guard that withholds    *)
(* it.  login_after and requests_after are the ticks left until them.      *)
(* Header and body checks are folded into the answer they lead to: any     *)
(* read that is neither accepted, refused nor limited is LostRead.         *)
(***************************************************************************)
EXTENDS Integers

CONSTANTS
    Poll,          \* Config.poll_s
    MaxBackoff,    \* MAX_LOGIN_BACKOFF_S
    MaxPages,      \* reads a cycle may have answered
    RetryAfters,   \* waits a 429 may ask for, 0 when it names none
    MaxRefusals,   \* bound on the count of consecutive refusals
    Spacing,       \* Spacing[n]: the wait owed after the n-th refusal in a row
    MaxFaults      \* bound on the events FaultyEvent counts

ASSUME SessionAssumption ==
    /\ {Poll, MaxBackoff, MaxPages, MaxRefusals} \subseteq Nat \ {0}
    /\ Poll <= MaxBackoff
    /\ RetryAfters \subseteq Nat
    /\ MaxFaults \in Nat

\* The wait doubles from one poll up to MaxBackoff, where the count is bounded.
ASSUME SpacingAssumption ==
    /\ Spacing \in [1 .. MaxRefusals -> 0 .. MaxBackoff]
    /\ Spacing[1] = Poll /\ Spacing[MaxRefusals] = MaxBackoff
    /\ \A n \in 1 .. MaxRefusals - 1 :
          Spacing[n + 1] = IF 2 * Spacing[n] <= MaxBackoff THEN 2 * Spacing[n]
                                                           ELSE MaxBackoff

VARIABLES
    pc,            \* "idle" between cycles, "asking" inside Console.flows
    cycleWait,     \* ticks until the next cycle
    pages,         \* answered reads this cycle has left
    result,        \* result of the last cycle
    token,         \* Console.csrf with its cookies: "none" or "held"
    fresh,         \* Console.fresh: the token is from "this_cycle" or "earlier"
    loginAfter, requestsAfter, backoff, refusal,  \* fields of Console
    account,       \* the console's account
    alive,         \* the console's side of the session: "alive" or "ended"
    logins, reads, refusedReads,  \* requests sent, and refused, this cycle
    refusals,      \* refusals since this process last had a read accepted
    sinceRefusal,  \* ticks since the last of them
    quiet,         \* ticks left of the quiet a 429 asked this process for
    faults

clocks  == <<cycleWait, loginAfter, requestsAfter, sinceRefusal, quiet>>
client  == <<token, fresh, backoff, refusal>>
server  == <<account, alive>>
cycle   == <<pc, pages, result, logins, reads, refusedReads>>
vars == <<clocks, client, server, cycle, refusals, faults>>

Larger(a, b)  == IF a >= b THEN a ELSE b
Smaller(a, b) == IF a <= b THEN a ELSE b

\* Spacing, in closed form.
Doubling == [n \in 1 .. MaxRefusals |-> Smaller(Poll * 2^(n - 1), MaxBackoff)]

Init ==
    /\ pc = "idle" /\ cycleWait = 0 /\ pages = 0 /\ result = "none"
    /\ token = "none" /\ fresh = "earlier"
    /\ loginAfter = 0 /\ requestsAfter = 0 /\ backoff = 0
    /\ refusal = "auth_failed"
    /\ account = "good" /\ alive = "ended"
    /\ logins = 0 /\ reads = 0 /\ refusedReads = 0
    /\ refusals = 0 /\ sinceRefusal = MaxBackoff /\ quiet = 0
    /\ faults = 0

FaultyEvent == faults < MaxFaults /\ faults' = faults + 1

-----------------------------------------------------------------------------
(* The console, the clock and the kubelet.                                 *)

Less(t) == Larger(t - 1, 0)

Tick ==
    /\ cycleWait' = Less(cycleWait)
    /\ loginAfter' = Less(loginAfter)
    /\ requestsAfter' = Less(requestsAfter)
    /\ quiet' = Less(quiet)
    /\ sinceRefusal' = Smaller(sinceRefusal + 1, MaxBackoff)
    /\ UNCHANGED <<client, server, cycle, refusals, faults>>

\* "The console ends a session after about two hours, however busy it is":
\* any number of times, but one made within the running cycle only as a fault.
EndSession ==
    /\ alive = "alive"
    /\ alive' = "ended"
    /\ IF pc = "asking" /\ fresh = "this_cycle" THEN FaultyEvent ELSE UNCHANGED faults
    /\ UNCHANGED <<clocks, client, account, cycle, refusals>>

AccountBreaks ==
    /\ account = "good"
    /\ FaultyEvent
    /\ account' \in {"bad_password", "no_access"}
    /\ UNCHANGED <<clocks, client, alive, cycle, refusals>>

AccountRepaired ==
    /\ account # "good"
    /\ account' = "good"
    /\ UNCHANGED <<clocks, client, alive, cycle, refusals, faults>>

\* A new process knows of no session, refusal or 429.
Restart ==
    /\ FaultyEvent
    /\ pc' = "idle" /\ cycleWait' = 0 /\ pages' = 0 /\ result' = "none"
    /\ token' = "none" /\ fresh' = "earlier"
    /\ loginAfter' = 0 /\ requestsAfter' = 0 /\ backoff' = 0
    /\ refusal' = "auth_failed"
    /\ logins' = 0 /\ reads' = 0 /\ refusedReads' = 0
    /\ refusals' = 0 /\ sinceRefusal' = MaxBackoff /\ quiet' = 0
    /\ UNCHANGED server

-----------------------------------------------------------------------------
(* One cycle of Console.flows calls.                                       *)

\* Mutant: begin_cycle leaves fresh as it was.
FreshKept == fresh
FreshAtStart == "earlier"

BeginCycle ==
    /\ pc = "idle" /\ cycleWait = 0
    /\ pc' = "asking"
    /\ fresh' = FreshAtStart
    /\ pages' = MaxPages
    /\ logins' = 0 /\ reads' = 0 /\ refusedReads' = 0
    /\ UNCHANGED <<clocks, token, backoff, refusal, server, result, refusals,
                   faults>>

EndCycle(r) ==
    /\ pc' = "idle"
    /\ result' = r
    /\ cycleWait' = Poll

DropSession == token' = "none"

NoteRefusal ==
    /\ refusals' = Smaller(refusals + 1, MaxRefusals)
    /\ sinceRefusal' = 0

NextBackoff == Smaller(Larger(backoff * 2, Poll), MaxBackoff)

Refuse(class) ==
    /\ refusal' = class
    /\ backoff' = NextBackoff
    /\ loginAfter' = NextBackoff
    /\ NoteRefusal

Honoured(w) == Smaller(Larger(w, Poll), MaxBackoff)

RateLimited ==
    /\ \E w \in RetryAfters :
        /\ requestsAfter' = Honoured(w)
        /\ quiet' = Smaller(w, MaxBackoff)
    /\ EndCycle("rate_limited")

RequestsHeld ==
    /\ pc = "asking" /\ requestsAfter > 0
    /\ EndCycle("rate_limited")
    /\ UNCHANGED <<client, server, pages, logins, reads, refusedReads, refusals,
                   loginAfter, requestsAfter, sinceRefusal, quiet, faults>>

MayAsk == pc = "asking" /\ requestsAfter = 0

LoginHeld ==
    /\ MayAsk /\ token = "none" /\ loginAfter > 0
    /\ EndCycle(refusal)
    /\ UNCHANGED <<client, server, pages, logins, reads, refusedReads, refusals,
                   loginAfter, requestsAfter, sinceRefusal, quiet, faults>>

MayLogin == MayAsk /\ token = "none" /\ loginAfter = 0

\* VictoriaLogs has no answer for the checkpoint: the console is not asked.
StateUnavailable ==
    /\ pc = "asking" /\ logins + reads = 0
    /\ FaultyEvent
    /\ EndCycle("state_unavailable")
    /\ UNCHANGED <<client, server, pages, logins, reads, refusedReads, refusals,
                   loginAfter, requestsAfter, sinceRefusal, quiet>>

\* The password file cannot be read: no request is sent.
NoPassword ==
    /\ MayLogin
    /\ FaultyEvent
    /\ EndCycle("auth_failed")
    /\ UNCHANGED <<client, server, pages, logins, reads, refusedReads, refusals,
                   loginAfter, requestsAfter, sinceRefusal, quiet>>

\* Mutant: an accepted login clears the backoff of the refusals before it.
BackoffCleared == 0
BackoffAfterLogin == backoff

\* Mutant: login does not mark the session as made in this cycle.
FreshUnmarked == fresh
FreshAfterLogin == "this_cycle"

LoginAccepted ==
    /\ MayLogin
    /\ account # "bad_password"
    /\ token' = "held" /\ alive' = "alive"
    /\ fresh' = FreshAfterLogin
    /\ backoff' = BackoffAfterLogin
    /\ logins' = logins + 1
    /\ UNCHANGED <<clocks, refusal, account, pc, pages, result, reads,
                   refusedReads, refusals, faults>>

\* A bad password, or any other answer that is not a 200 with a token.
LoginRefused ==
    /\ MayLogin
    /\ IF account = "bad_password" THEN UNCHANGED faults ELSE FaultyEvent
    /\ Refuse("auth_failed")
    /\ DropSession
    /\ logins' = logins + 1
    /\ EndCycle("auth_failed")
    /\ UNCHANGED <<fresh, server, pages, reads, refusedReads, requestsAfter, quiet>>

LoginLost ==
    /\ MayLogin
    /\ FaultyEvent
    /\ logins' = logins + 1
    /\ EndCycle("read_failed")
    /\ UNCHANGED <<client, server, pages, reads, refusedReads, refusals,
                   loginAfter, requestsAfter, sinceRefusal, quiet>>

LoginLimited ==
    /\ MayLogin
    /\ FaultyEvent
    /\ logins' = logins + 1
    /\ RateLimited
    /\ UNCHANGED <<client, server, pages, reads, refusedReads, refusals,
                   loginAfter, sinceRefusal>>

MayRead == MayAsk /\ token = "held"
Admitted == alive = "alive" /\ account # "no_access"

\* A page is read; the cycle goes on while it wants and may have more.
ReadAnswered ==
    /\ MayRead /\ Admitted
    /\ reads' = reads + 1
    /\ pages' = pages - 1
    /\ backoff' = 0
    /\ refusals' = 0
    /\ sinceRefusal' = MaxBackoff
    /\ \/ EndCycle("ok")
       \/ pages > 1 /\ UNCHANGED <<pc, result, cycleWait>>
    /\ UNCHANGED <<token, fresh, refusal, server, logins, refusedReads,
                   loginAfter, requestsAfter, quiet, faults>>

\* A session kept from an earlier cycle is refused: the same read is asked again.
SessionEnded ==
    /\ MayRead /\ ~Admitted
    /\ fresh = "earlier"
    /\ DropSession
    /\ reads' = reads + 1
    /\ refusedReads' = refusedReads + 1
    /\ UNCHANGED <<clocks, fresh, backoff, refusal, server, pc, pages, result,
                   logins, refusals, faults>>

\* "A session made this cycle was refused, so logging in again cannot help."
AccessDenied ==
    /\ MayRead /\ ~Admitted
    /\ fresh = "this_cycle"
    /\ DropSession
    /\ reads' = reads + 1
    /\ refusedReads' = refusedReads + 1
    /\ Refuse("access_denied")
    /\ EndCycle("access_denied")
    /\ UNCHANGED <<fresh, server, pages, logins, requestsAfter, quiet, faults>>

ReadLimited ==
    /\ MayRead
    /\ FaultyEvent
    /\ reads' = reads + 1
    /\ RateLimited
    /\ UNCHANGED <<client, server, pages, logins, refusedReads, refusals,
                   loginAfter, sinceRefusal>>

ReadLost ==
    /\ MayRead
    /\ FaultyEvent
    /\ reads' = reads + 1
    /\ EndCycle("read_failed")
    /\ UNCHANGED <<client, server, pages, logins, refusedReads, refusals,
                   loginAfter, requestsAfter, sinceRefusal, quiet>>

-----------------------------------------------------------------------------
Login == NoPassword \/ LoginAccepted \/ LoginRefused \/ LoginLost \/ LoginLimited
Read  == ReadAnswered \/ SessionEnded \/ AccessDenied \/ ReadLimited \/ ReadLost
Collector == BeginCycle \/ StateUnavailable \/ RequestsHeld \/ LoginHeld \/ Login \/ Read

Environment == Tick \/ EndSession \/ AccountBreaks \/ AccountRepaired \/ Restart

Next == Collector \/ Environment

Spec == Init /\ [][Next]_vars

\* The thread keeps running and time passes.
FairSpec == Spec /\ WF_vars(Collector) /\ WF_vars(Tick)

-----------------------------------------------------------------------------
(* Properties.                                                             *)

TypeOK ==
    /\ pc \in {"idle", "asking"} /\ cycleWait \in 0 .. Poll
    /\ pages \in 0 .. MaxPages
    /\ result \in {"none", "ok", "auth_failed", "access_denied", "rate_limited",
                   "read_failed", "state_unavailable"}
    /\ token \in {"none", "held"} /\ fresh \in {"this_cycle", "earlier"}
    /\ loginAfter \in 0 .. MaxBackoff /\ requestsAfter \in 0 .. MaxBackoff
    /\ backoff \in 0 .. MaxBackoff
    /\ refusal \in {"auth_failed", "access_denied"}
    /\ account \in {"good", "bad_password", "no_access"}
    /\ alive \in {"alive", "ended"}
    /\ logins \in Nat /\ reads \in Nat /\ refusedReads \in Nat
    /\ refusals \in 0 .. MaxRefusals /\ sinceRefusal \in 0 .. MaxBackoff
    /\ quiet \in 0 .. MaxBackoff
    /\ faults \in Nat

\* However its requests are answered and whatever ends its session, one cycle
\* logs in at most once and is refused at most two reads: the retry of flows
\* cannot turn into a loop of logins against an account without access.
CycleIsBounded == logins <= 1 /\ refusedReads <= 2 /\ reads <= MaxPages + 2

\* The n-th refusal in a row, of a login or of a fresh session's read, is
\* followed by Spacing[n] without a login: a login that succeeds but whose
\* session is refused does not start the series again, only an accepted read.
SpacedLogin == logins' > logins => refusals = 0 \/ sinceRefusal >= Spacing[refusals]
LoginsSpaced == [][SpacedLogin]_vars

\* No request of any kind leaves before the time a 429 asked for, up to
\* MaxBackoff, whichever request it answered.
QuietRequest == logins' > logins \/ reads' > reads => quiet = 0
QuietWhenAsked == [][QuietRequest]_vars

\* Sessions ended between cycles are never an outage: once faults stop and the
\* account is in order for good, every cycle reads, although the console keeps
\* ending sessions and earlier refusals left a backoff.
KeepsReading == <>[](account = "good") => <>[](result = "ok")

\* The delays keep their bounds and the retry of a refused read never becomes a loop.
SessionSafe == TypeOK /\ CycleIsBounded

\* The console is asked sparingly: logins are spaced and a 429 is heeded.
SparesTheConsole == [][SpacedLogin /\ QuietRequest]_vars
=============================================================================
