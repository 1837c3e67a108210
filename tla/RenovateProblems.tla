--------------------------- MODULE RenovateProblems ---------------------------
(***************************************************************************)
(* The daily check of the Renovate Dashboard:                              *)
(* scripts/ci/check-renovate-problems.py.                                  *)
(*                                                                         *)
(* The dashboard is an issue whose text Renovate writes and anyone with    *)
(* access can close or replace.  A line is a heading, an item of a list or *)
(* some other text; what an item says is left out, so an item is named by  *)
(* its line number.                                                        *)
(***************************************************************************)
EXTENDS Integers, Sequences

CONSTANT MaxLines

\* The bundled body has three lines.
ASSUME DashboardAssumption == MaxLines \in Nat /\ MaxLines >= 3

LineKinds == {"problems", "dependencies", "heading", "item"}
Headings == {"problems", "dependencies", "heading"}
Bodies == UNION {[1 .. n -> LineKinds] : n \in 0 .. MaxLines}

VARIABLES
    dashboard,  \* [state, body]
    fetched,    \* what the check read, or Nothing, or NoAnswer
    exit,       \* its exit status, -1 while it has none
    annotated   \* the lines it annotated, 0 for a section without items

rvars == <<dashboard, fetched, exit, annotated>>

-----------------------------------------------------------------------------
Nothing == [state |-> "nothing", body |-> <<>>]
NoAnswer == [state |-> "unreadable", body |-> <<>>]

\* A section reaches from its heading to the next one or to the end.
InSection(body, h, i) == i > h /\ \A j \in h + 1 .. i : body[j] \notin Headings
Sections(body) == {h \in DOMAIN body : body[h] = "problems"}

ItemsOf(body, h) == {i \in DOMAIN body : InSection(body, h, i) /\ body[i] = "item"}
ProblemsOf(body, h) == IF ItemsOf(body, h) = {} THEN {0} ELSE ItemsOf(body, h)

ProblemsIn(body) == UNION {ProblemsOf(body, h) : h \in Sections(body)}

\* Mutant: any open issue is a dashboard.
OpenIssue(d) == d.state = "open"
Recognised(d) == d.state = "open" /\ \E i \in DOMAIN d.body : d.body[i] = "dependencies"

RenovateWrites(body) ==
    /\ dashboard' = [dashboard EXCEPT !.body = body]
    /\ UNCHANGED <<fetched, exit, annotated>>

SomeoneCloses ==
    /\ dashboard' = [dashboard EXCEPT !.state = IF @ = "open" THEN "closed" ELSE "open"]
    /\ UNCHANGED <<fetched, exit, annotated>>

\* gh runs and its answer parses, or it does not; a drill reads the bundled body.
Fetch ==
    /\ fetched = Nothing
    /\ \/ fetched' = dashboard
       \/ fetched' = NoAnswer
       \/ fetched' = [state |-> "open", body |-> <<"problems", "item", "dependencies">>]
    /\ UNCHANGED <<dashboard, exit, annotated>>

Unreadable ==
    /\ fetched # Nothing /\ exit = -1
    /\ ~Recognised(fetched)
    /\ exit' = 2
    /\ UNCHANGED <<dashboard, fetched, annotated>>

Reports ==
    /\ exit = -1
    /\ Recognised(fetched)
    /\ annotated' = ProblemsIn(fetched.body)
    /\ exit' = IF annotated' = {} THEN 0 ELSE 1
    /\ UNCHANGED <<dashboard, fetched>>

NextRun ==
    /\ exit # -1
    /\ fetched' = Nothing /\ exit' = -1 /\ annotated' = {}
    /\ UNCHANGED dashboard

DashboardInit ==
    /\ dashboard \in [state : {"open"}, body : Bodies]
    /\ fetched = Nothing /\ exit = -1 /\ annotated = {}

DashboardNext ==
    \/ \E body \in Bodies : RenovateWrites(body)
    \/ SomeoneCloses \/ Fetch \/ Unreadable \/ Reports \/ NextRun

DashboardSpec == DashboardInit /\ [][DashboardNext]_rvars

-----------------------------------------------------------------------------
(* Properties.                                                             *)

DashboardTypeOK ==
    /\ dashboard.state \in {"open", "closed"} /\ dashboard.body \in Bodies
    /\ exit \in -1 .. 2 /\ annotated \subseteq 0 .. MaxLines
    /\ exit = 1 <=> annotated # {}

\* "Exits 0 when no problem is listed, 1 when one is": a run is clean only of an open
\* dashboard that looks like one and has no section of problems, and a section without a
\* list Renovate is known to write is still a problem.
CleanHasNoProblem ==
    exit = 0 => /\ fetched.state = "open"
                /\ \E i \in DOMAIN fetched.body : fetched.body[i] = "dependencies"
                /\ \A i \in DOMAIN fetched.body : fetched.body[i] # "problems"

\* A failing run names every item below such a heading and nothing from another section.
EveryProblemIsSaid ==
    exit = 1 => \A i \in DOMAIN fetched.body : fetched.body[i] = "item" =>
        LET above == {h \in 1 .. i : fetched.body[h] \in Headings}
        IN i \in annotated <=> \E h \in above : fetched.body[h] = "problems" /\ \A g \in above : g <= h

\* The check's answer is the dashboard's: clean without a problem, else every one of them.
DashboardSafe == DashboardTypeOK /\ CleanHasNoProblem /\ EveryProblemIsSaid
=============================================================================
