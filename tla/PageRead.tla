------------------------------ MODULE PageRead ------------------------------
(***************************************************************************)
(* One call of Collector.read_window                                       *)
(* (kubernetes/apps/observability/unifi-flows/app/collector.py), request   *)
(* by request, against a console whose list changes between its pages.     *)
(* FlowCollector takes the call as one step; here is what that step rests  *)
(* on.                                                                     *)
(*                                                                         *)
(* The console lists the window's rows newest first, in one of three       *)
(* manners.  It "moves": between two pages a row may be inserted at its    *)
(* time, and the rows of the oldest time expire together.  It "swaps": the *)
(* same, and rows of one time change places.  It "replays": its list holds *)
(* still during a call, but a page may be answered with the rows of an     *)
(* earlier one.                                                            *)
(***************************************************************************)
EXTENDS Integers, FiniteSets, Sequences, SequencesExt

CONSTANTS
    Rows,        \* ids of the window's rows
    TimeOf,      \* TimeOf[r]: the row's time
    PageSize, QueryCap,
    ReportCaps   \* largest counts a console may report

ASSUME PageAssumption ==
    /\ IsFiniteSet(Rows)
    /\ TimeOf \in [Rows -> Int]
    /\ {PageSize, QueryCap} \subseteq Nat \ {0}
    /\ ReportCaps # {} /\ \A c \in ReportCaps : c \in Nat /\ c >= QueryCap

VARIABLES
    listing,    \* the console's rows, newest first
    expired,    \* rows it dropped
    reportCap,  \* largest count it reports
    manner,     \* how it behaves during a call
    pc,         \* "reading" or "done"
    granted, left,  \* Budget.pages when the call began, and now
    acceptCap,  \* the argument accept_cap, "yes" or "no"
    page, first, rows, problem, capped,  \* locals and the Window
    present     \* rows listed when the call began

server == <<listing, expired, reportCap, manner>>
call   == <<granted, acceptCap, present>>
locals == <<page, first, rows, problem, capped>>
vars   == <<server, pc, left, call, locals>>

Manners == {"moves", "swaps", "replays"}

Smaller(a, b) == IF a <= b THEN a ELSE b
CeilDiv(a, b) == (a + b - 1) \div b

Listed == ToSet(listing)
NewestFirst(s) == \A i, j \in DOMAIN s : i < j => TimeOf[s[i]] >= TimeOf[s[j]]

\* "Always room for a whole window, or a full one could never finish."
WholeWindow == QueryCap \div PageSize + 1

Called ==
    /\ pc' = "reading"
    /\ granted' \in {1, WholeWindow} /\ left' = granted'
    /\ acceptCap' \in {"yes", "no"}
    /\ page' = 0 /\ first' = 0 /\ rows' = {}
    /\ problem' = "none" /\ capped' = "no"
    /\ present' = Listed

Init ==
    /\ listing = <<>> /\ expired = {}
    /\ reportCap \in ReportCaps /\ manner \in Manners
    /\ pc = "done"
    /\ granted = 0 /\ left = 0 /\ acceptCap = "no" /\ present = {}
    /\ page = 0 /\ first = 0 /\ rows = {} /\ problem = "none" /\ capped = "no"

-----------------------------------------------------------------------------
(* The console.                                                            *)

MayChange == manner = "replays" => pc = "done"

RowInserted(r) ==
    /\ MayChange
    /\ r \notin Listed \cup expired
    /\ \E i \in 1 .. Len(listing) + 1 :
        /\ NewestFirst(InsertAt(listing, i, r))
        /\ listing' = InsertAt(listing, i, r)
    /\ UNCHANGED <<expired, reportCap, manner, pc, left, call, locals>>

OldestExpire ==
    /\ MayChange
    /\ listing # <<>>
    /\ \E k \in 0 .. Len(listing) - 1 :
        /\ \A i \in DOMAIN listing : i <= k <=> TimeOf[listing[i]] > TimeOf[Last(listing)]
        /\ listing' = SubSeq(listing, 1, k)
        /\ expired' = expired \cup {listing[i] : i \in k + 1 .. Len(listing)}
    /\ UNCHANGED <<reportCap, manner, pc, left, call, locals>>

TiesSwap(i) ==
    /\ manner = "swaps"
    /\ {i, i + 1} \subseteq DOMAIN listing
    /\ TimeOf[listing[i]] = TimeOf[listing[i + 1]]
    /\ listing' = [listing EXCEPT ![i] = listing[i + 1], ![i + 1] = listing[i]]
    /\ UNCHANGED <<expired, reportCap, manner, pc, left, call, locals>>

Total == Smaller(Len(listing), reportCap)
RowsOf(p) == {listing[i] : i \in p * PageSize + 1 .. Smaller((p + 1) * PageSize, Total)}

-----------------------------------------------------------------------------
(* read_window.                                                            *)

Begin == pc = "done" /\ Called /\ UNCHANGED server

Return(p) == pc' = "done" /\ problem' = p

\* The budget is spent, the deadline has passed or the stop event is set.
Interrupted ==
    /\ pc = "reading"
    /\ Return("cycle_budget")
    /\ UNCHANGED <<server, left, call, page, first, rows, capped>>

Asked == pc = "reading" /\ left > 0 /\ left' = left - 1

\* A document whose shape, row times or page number are wrong.
BadPage ==
    /\ Asked
    /\ Return("unexpected")
    /\ UNCHANGED <<server, call, page, first, rows, capped>>

TotalMoved == page > 0 /\ Total # first

\* The count moved since the first page: some row may have crossed a boundary.
ChangedTotal ==
    /\ Asked /\ TotalMoved
    /\ Return("changing_total")
    /\ UNCHANGED <<server, call, page, first, rows, capped>>

OverCap == page = 0 /\ (Total >= QueryCap \/ Len(listing) > Total)

\* A capped window is given up at once unless the caller accepts it.
GiveUp ==
    /\ Asked /\ OverCap /\ acceptCap = "no"
    /\ capped' = "yes" /\ first' = Total
    /\ Return("none")
    /\ UNCHANGED <<server, call, page, rows>>

Repeats(ids) == page > 0 /\ ids # {} /\ ids \subseteq rows

CapReached(p) == p * PageSize >= QueryCap

\* Mutant: the rows read are not counted against the total.
AnyCount(R, t) == "none"
CountProblem(R, t) == IF Cardinality(R) # t THEN "short_count" ELSE "none"

\* The rows of page p, of the length expected, stand for the page that was asked
\* for: that page itself, or an earlier one the console answers with again.
TakePage(p) ==
    /\ Asked /\ ~TotalMoved
    /\ p = page \/ (manner = "replays" /\ p < page)
    /\ OverCap => acceptCap = "yes"
    /\ Cardinality(RowsOf(p)) = Cardinality(RowsOf(page))
    /\ LET ids  == RowsOf(p)
           atCap == (OverCap \/ capped = "yes")
           next == page + 1
       IN IF Repeats(ids)
          THEN Return("repeated_page") /\ UNCHANGED <<page, first, rows, capped>>
          ELSE /\ rows' = rows \cup ids
               /\ first' = Total
               /\ \/ /\ next >= CeilDiv(Total, PageSize)
                     /\ capped' = (IF atCap THEN "yes" ELSE "no")
                     /\ Return(IF atCap THEN "none" ELSE CountProblem(rows', Total))
                     /\ UNCHANGED page
                  \/ /\ next < CeilDiv(Total, PageSize) /\ CapReached(next)
                     /\ capped' = "yes"
                     /\ Return("none")
                     /\ page' = next
                  \/ /\ next < CeilDiv(Total, PageSize) /\ ~CapReached(next)
                     /\ capped' = (IF atCap THEN "yes" ELSE "no")
                     /\ page' = next
                     /\ UNCHANGED <<pc, problem>>
    /\ UNCHANGED <<server, call>>

ReadWindow ==
    \/ Begin \/ Interrupted \/ BadPage \/ ChangedTotal \/ GiveUp
    \/ \E p \in 0 .. page : TakePage(p)

Console ==
    \/ \E r \in Rows : RowInserted(r)
    \/ OldestExpire
    \/ \E i \in DOMAIN listing : TiesSwap(i)

Next == ReadWindow \/ Console
Spec == Init /\ [][Next]_vars

-----------------------------------------------------------------------------
(* Properties.                                                             *)

TypeOK ==
    /\ Listed \subseteq Rows \ expired /\ expired \subseteq Rows
    /\ reportCap \in ReportCaps /\ manner \in Manners
    /\ pc \in {"reading", "done"}
    /\ granted \in 0 .. WholeWindow /\ left \in 0 .. granted
    /\ acceptCap \in {"yes", "no"} /\ capped \in {"yes", "no"}
    /\ page \in 0 .. CeilDiv(QueryCap, PageSize)
    /\ pc = "reading" => page < CeilDiv(QueryCap, PageSize)
    /\ first \in Nat
    /\ rows \subseteq Rows /\ present \subseteq Rows
    /\ problem \in {"none", "cycle_budget", "unexpected", "changing_total",
                    "repeated_page", "short_count"}

\* A read that reports no problem missed no row that was there throughout: it
\* returned the row, or it was capped and the row is no newer than the oldest
\* row returned, which is where the caller's gap ends.  This holds although
\* rows move between the pages, and although a count at the cap cannot move;
\* a capped read is not counted, so it needs the order of equal times stable.
NothingMissed ==
    pc = "done" /\ problem = "none" =>
        \A r \in present \cap Listed :
            \/ r \in rows
            \/ /\ capped = "yes"
               /\ acceptCap = "yes" /\ manner # "swaps" =>
                     rows # {} /\ \A q \in rows : TimeOf[r] <= TimeOf[q]

\* One call never needs more pages than a cycle that starts with it has.
WindowFits == pc = "reading" /\ granted = WholeWindow => left > 0

\* A read is whole or says why not, and a cycle's budget holds one whole window.
ReadIsWhole == TypeOK /\ NothingMissed /\ WindowFits
=============================================================================
