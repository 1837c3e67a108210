---------------------------- MODULE HomeDashboard ----------------------------
(***************************************************************************)
(* The generator of the Home dashboard: scripts/grafana/render-home.py     *)
(* with the panel builders of home/schema.py.                              *)
(*                                                                         *)
(* Python's panels are mutable objects, so a panel here has an identity:   *)
(* its place in "heap".  The rows of the pages are objects too, and one of *)
(* them, GO, is on every page.  A step is one call of everything(),        *)
(* system(c) or of what home() and the script do after them.  The sources  *)
(* may be edited between two runs.                                         *)
(*                                                                         *)
(* A panel keeps what its widget was declared with (key, of, vars, and the *)
(* number of queries), the systems its title still names, the links added  *)
(* to its System column and its id.  Wording, queries and styles are left  *)
(* out.                                                                    *)
(***************************************************************************)
EXTENDS Integers, Sequences, SequencesExt, TLC

CONSTANTS
    Systems,     \* w.SYSTEMS, in order
    Sources,     \* states of the sources: [library, rows, pages]
    Builders,    \* BUILDERS: the panel a widget builds, but for its platform or system
    Allowed      \* VARIABLES, with no variables where it has no entry

NoText == ""
Strays == {"$gpu", "$model", "$ups", "$probe"}

\* "widget@arg" is the element "widget-arg".
NameOf(cell) == IF cell.arg = NoText THEN cell.src ELSE cell.src \o "-" \o cell.arg
CellsOf(s) == UNION {ToSet(s.rows[r].cells) : r \in DOMAIN s.rows}

\* Elements: of the first tab, and with a system's prefix of its own.
OverviewKeys ==
    <<"board", "strip", "reach", "inventory",
      "watch-1", "watch-2", "watch-3", "watch-4", "watch-5", "watch-6">>
OfFirst == ToSet(OverviewKeys) \cup {"attention", "quiet"}
Called(s) == {NameOf(cell) : cell \in CellsOf(s)} \cup {"attention", "quiet"}
Prefix(c, name) == c \o "-" \o name

Widgets == [kind : STRING, key : STRING, of : STRING, vars : SUBSET Strays, queries : Nat]
Cells == [src : STRING, arg : STRING]
Blanks ==
    [key : STRING, of : STRING, names : SUBSET STRING, vars : SUBSET Strays, queries : Nat,
     links : {{}}, id : {0}, arg : {NoText}]

ASSUME HomeAssumption ==
    /\ Systems \in Seq(STRING) /\ {"none", "Everything"} \cap ToSet(Systems) = {}
    /\ \A i, j \in DOMAIN Systems : Systems[i] = Systems[j] => i = j
    /\ Allowed \in [ToSet(Systems) -> SUBSET Strays]
    /\ \A s \in Sources : s.library \in Seq(Widgets)
    /\ \A s \in Sources : \A r \in DOMAIN s.rows : s.rows[r].cells \in Seq(Cells)
    /\ \A s \in Sources : \A c \in ToSet(Systems) : s.pages[c] \in Seq(DOMAIN s.rows)
    \* what an "@" names is built, with its own system in the title
    /\ Builders \in [DOMAIN Builders -> Blanks]
    /\ \A k \in DOMAIN Builders : Builders[k].names = {Builders[k].of}
    /\ \A s \in Sources : \A cell \in CellsOf(s) : cell.arg # NoText => cell.src \in DOMAIN Builders
    \* series past the fourth are dropped without a word; no widget has five
    /\ \A s \in Sources : \A i \in DOMAIN s.library :
          s.library[i].kind = "trend" => s.library[i].queries <= 4

\* No two cells, and no two elements of a dashboard, are called the same.
ASSUME NamesAssumption ==
    \A s \in Sources :
        /\ \A a, b \in CellsOf(s) : NameOf(a) = NameOf(b) => a = b
        /\ \A a \in CellsOf(s) : "deeper" \in {a.src, NameOf(a)} => a.arg = NoText
        /\ \A c, d \in ToSet(Systems) : \A n, m \in Called(s) :
              /\ Prefix(c, n) = Prefix(d, m) => c = d /\ n = m
              /\ Prefix(c, n) \notin OfFirst

VARIABLES
    sources,     \* the sources as they stand
    stage,       \* "idle", "systems", "number", "checks"
    checkSays,   \* of the last run: "none", "failed", "written", "fresh" or "outdated"
    heap,        \* every panel object of the run
    library,     \* w.W.elements: key -> object
    elements,    \* els: a sequence of <<name, object>>, a dict in order
    shared,      \* the rows PAGES refers to
    tabs,
    committed    \* the file in the repository

build == <<heap, library, elements, shared, tabs>>
dvars == <<sources, stage, checkSays, build, committed>>

-----------------------------------------------------------------------------
(* schema.py: panels, and the rows that place them.                        *)

\* Panels.add; "of" is the system the title names after its dot.
PanelOf(w, key, n) ==
    [key |-> key, of |-> w.of, names |-> {w.of}, vars |-> w.vars, queries |-> n,
     links |-> {}, id |-> 0, arg |-> NoText]

\* Panels.table has twelve refs, one taken by the labels; the next one raises.
ColumnsFit(w) == w.kind = "table" => w.queries <= 12
Drawn(w) == IF w.kind = "trend" /\ w.queries > 4 THEN 4 ELSE w.queries

MemberKey(w, n) == w.key \o "-" \o ToString(n)

\* The panels a declaration adds: tiles are untitled panels of one query each.
PanelsOf(w) ==
    IF w.kind = "tiles"
    THEN [n \in 1 .. w.queries |->
            [PanelOf(w, MemberKey(w, n), 1) EXCEPT !.names = {"none"}]]
    ELSE <<PanelOf(w, w.key, Drawn(w))>>

Chained(parts) ==
    LET upTo[n \in 0 .. Len(parts)] == IF n = 0 THEN <<>> ELSE upTo[n - 1] \o parts[n]
    IN upTo[Len(parts)]

Declared(lib) == Chained([i \in DOMAIN lib |-> PanelsOf(lib[i])])
ByKey(panels) == [k \in {panels[i].key : i \in DOMAIN panels} |->
                    CHOOSE i \in DOMAIN panels :
                        panels[i].key = k /\ \A j \in i + 1 .. Len(panels) : panels[j].key # k]

RowNames(r) == [i \in DOMAIN r.cells |-> NameOf(r.cells[i])]

\* SOURCE[name], as the last page to name it left it.
SourceOf(name) == CHOOSE c \in CellsOf(sources) : NameOf(c) = name

Put(dict, name, object) ==
    IF \E i \in DOMAIN dict : dict[i][1] = name
    THEN [i \in DOMAIN dict |-> IF dict[i][1] = name THEN <<name, object>> ELSE dict[i]]
    ELSE Append(dict, <<name, object>>)

Update(dict, more) ==
    LET upTo[n \in 0 .. Len(more)] ==
            IF n = 0 THEN dict ELSE Put(upTo[n - 1], more[n][1], more[n][2])
    IN upTo[Len(more)]

-----------------------------------------------------------------------------
(* render-home.py.                                                         *)

Fresh(key, of) == [key |-> key, of |-> of, names |-> {of}, vars |-> {}, queries |-> 1,
                    links |-> {}, id |-> 0, arg |-> NoText]
NeedsAttention == <<Fresh("attention", "none"), Fresh("quiet", "none")>>

HomeInit ==
    /\ sources \in Sources /\ stage = "idle" /\ checkSays = "none"
    /\ heap = <<>> /\ library = <<>> /\ elements = <<>> /\ shared = <<>> /\ tabs = <<>>
    /\ committed = <<>>

\* An import that raises ends the run.
ImportFails ==
    /\ stage = "idle" /\ \E i \in DOMAIN sources.library : ~ColumnsFit(sources.library[i])
    /\ checkSays' = "failed"
    /\ UNCHANGED <<sources, stage, build, committed>>

Watch == SubSeq(OverviewKeys, 5, 10)

\* row, grid and autogrid: references side by side, under a title, once per value of
\* the variable "repeat" names.
RowOf(names, title, repeat) == [names |-> names, title |-> title, repeat |-> repeat]
TabOf(c, rows) == [of |-> c, rows |-> rows]

FirstTab ==
    TabOf("Everything", <<RowOf(<<"board", "strip">>, "none", NoText),
                          RowOf(<<"attention", "quiet">>, "none", NoText),
                          RowOf(<<"reach">>, "none", "$probe"),
                          RowOf(Watch, "none", NoText), RowOf(<<"inventory">>, "none", NoText)>>)

\* everything(): copies of the overview's panels, links on the System column of the two
\* tables, and the rows of the first tab.
Everything ==
    /\ stage = "idle" /\ \A i \in DOMAIN sources.library : ColumnsFit(sources.library[i])
    /\ LET declared == Declared(sources.library)
           overview == [i \in DOMAIN OverviewKeys |->
                          Fresh(OverviewKeys[i], "none")] \o NeedsAttention
           linked == [i \in DOMAIN overview |->
                        IF overview[i].key \in {"board", "attention"}
                        THEN [overview[i] EXCEPT !.links = {"open system"}] ELSE overview[i]]
       IN /\ heap' = declared \o linked
          /\ library' = ByKey(declared)
          /\ elements' = [i \in DOMAIN linked |-> <<linked[i].key, Len(declared) + i>>]
    /\ shared' = sources.rows
    /\ tabs' = <<FirstTab>>
    /\ stage' = "systems" /\ checkSays' = "none"
    /\ UNCHANGED <<sources, committed>>

\* BUILDERS[src](arg) makes a new panel.
Built(cell) == [Builders[cell.src] EXCEPT !.arg = cell.arg]

\* stamp and deeper: a panel of the tab's own.
Stamp(name, h, lib) ==
    [heap |-> Append(h, CASE name = "deeper" -> Fresh(name, "none")
                          [] SourceOf(name).arg # NoText -> Built(SourceOf(name))
                          [] OTHER -> h[lib[name]]),
     object |-> Len(h) + 1]

PageNames(c) == Chained([i \in DOMAIN sources.pages[c] |-> RowNames(shared[sources.pages[c][i]])])

\* A name no widget has raises KeyError.
Known(name) ==
    name = "deeper" \/ SourceOf(name).arg # NoText \/ name \in DOMAIN library

\* The panels of a tab, by name, before they are renamed.
Stamped(c) ==
    LET names == PageNames(c)
        first == [heap |-> heap \o NeedsAttention,
                  els |-> <<<<"attention", Len(heap) + 1>>, <<"quiet", Len(heap) + 2>>>>]
        With(s, name) == LET one == Stamp(name, s.heap, library)
                         IN [heap |-> one.heap, els |-> Put(s.els, name, one.object)]
        upTo[n \in 0 .. Len(names)] == IF n = 0 THEN first ELSE With(upTo[n - 1], names[n])
    IN upTo[Len(names)]

Untitled(c, title) == IF title = c THEN "none" ELSE title

\* prefixed(): a copy of a row for one tab, its title without the system's name.
RowFor(c, r) ==
    RowOf([i \in DOMAIN r.cells |-> Prefix(c, NameOf(r.cells[i]))],
          Untitled(c, r.title), r.repeat)

MayUse(c, v) == v \in Allowed[c]

ThisSystem == Systems[Len(tabs)]

System(c) ==
    /\ stage = "systems" /\ Len(tabs) <= Len(Systems) /\ c = ThisSystem
    /\ \A i \in DOMAIN PageNames(c) : Known(PageNames(c)[i])
    /\ LET stamped == Stamped(c)
           own == {stamped.els[i][2] : i \in DOMAIN stamped.els}
           titled == [o \in DOMAIN stamped.heap |->
                        IF o \in own THEN [stamped.heap[o] EXCEPT !.names = @ \ {c}]
                                     ELSE stamped.heap[o]]
       IN /\ \A o \in own : \A v \in titled[o].vars : MayUse(c, v)
          /\ heap' = titled
          /\ elements' = Update(elements, [i \in DOMAIN stamped.els |->
                            <<Prefix(c, stamped.els[i][1]), stamped.els[i][2]>>])
    /\ tabs' = Append(tabs, TabOf(c,
          <<RowOf(<<Prefix(c, "attention"), Prefix(c, "quiet")>>, "none", NoText)>>
              \o [i \in DOMAIN sources.pages[c] |-> RowFor(c, shared[sources.pages[c][i]])]))
    /\ stage' = IF Len(tabs') > Len(Systems) THEN "number" ELSE "systems"
    /\ UNCHANGED <<sources, checkSays, library, shared, committed>>

\* The assertion on stray variables, or a KeyError.
SystemFails(c) ==
    /\ stage = "systems" /\ Len(tabs) <= Len(Systems) /\ c = ThisSystem
    /\ \/ \E i \in DOMAIN PageNames(c) : ~Known(PageNames(c)[i])
       \/ /\ \A i \in DOMAIN PageNames(c) : Known(PageNames(c)[i])
          /\ LET stamped == Stamped(c)
             IN \E i \in DOMAIN stamped.els :
                   \E v \in stamped.heap[stamped.els[i][2]].vars : ~MayUse(c, v)
    /\ checkSays' = "failed" /\ stage' = "idle"
    /\ UNCHANGED <<sources, build, committed>>

\* home(): ids in the order of the elements.
Number ==
    /\ stage = "number"
    /\ heap' = [o \in DOMAIN heap |->
                   LET places == {i \in DOMAIN elements : elements[i][2] = o}
                   IN IF places = {} THEN heap[o]
                      ELSE [heap[o] EXCEPT !.id = CHOOSE i \in places : \A j \in places : j <= i]]
    /\ stage' = "checks"
    /\ UNCHANGED <<sources, checkSays, library, elements, shared, tabs, committed>>

Rendered == [elements |-> [i \in DOMAIN elements |-> <<elements[i][1], heap[elements[i][2]]>>],
             tabs |-> tabs]

TooLarge ==
    /\ stage = "checks"
    /\ checkSays' = "failed" /\ stage' = "idle"
    /\ UNCHANGED <<sources, build, committed>>

WriteFile ==
    /\ stage = "checks"
    /\ committed' = Rendered
    /\ checkSays' = "written" /\ stage' = "idle"
    /\ UNCHANGED <<sources, build>>

CheckFile ==
    /\ stage = "checks"
    /\ checkSays' = IF committed = Rendered THEN "fresh" ELSE "outdated"
    /\ stage' = "idle"
    /\ UNCHANGED <<sources, build, committed>>

EditSources(s) ==
    /\ stage = "idle" /\ s # sources
    /\ sources' = s /\ checkSays' = "none"
    /\ UNCHANGED <<stage, build, committed>>

HomeNext ==
    \/ ImportFails \/ Everything \/ Number \/ TooLarge \/ WriteFile \/ CheckFile
    \/ \E c \in ToSet(Systems) : System(c) \/ SystemFails(c)
    \/ \E s \in Sources : EditSources(s)

HomeSpec == HomeInit /\ [][HomeNext]_dvars

-----------------------------------------------------------------------------
(* Properties.                                                             *)

HomeTypeOK ==
    /\ sources \in Sources
    /\ stage \in {"idle", "systems", "number", "checks"}
    /\ checkSays \in {"none", "failed", "written", "fresh", "outdated"}
    /\ \A i, j \in DOMAIN elements : elements[i][1] = elements[j][1] => i = j
    /\ \A i \in DOMAIN elements : elements[i][2] \in DOMAIN heap
    /\ Len(tabs) <= Len(Systems) + 1

Done == checkSays \in {"written", "fresh", "outdated"}

Element(name) == {heap[elements[i][2]] : i \in {j \in DOMAIN elements : elements[j][1] = name}}
References(t) == UNION {ToSet(tabs[t].rows[r].names) : r \in DOMAIN tabs[t].rows}

\* What a cell of a page asks for: the widget of its name, or the builder's.
NamedIn(cell) ==
    IF cell.src = "deeper" THEN Fresh("deeper", "none")
    ELSE IF cell.arg # NoText THEN Built(cell)
    ELSE LET declared == Declared(sources.library) IN declared[ByKey(declared)[cell.src]]

Alike(p, q) == p.key = q.key /\ p.of = q.of /\ p.vars = q.vars
               /\ p.queries = q.queries /\ p.arg = q.arg

\* "Named panel elements and a layout that places them by name": a dashboard that was
\* rendered has a tab for each system and, for each row of its page, one row on it, whose
\* references lead to panels of the widgets the page names, and no reference leads nowhere.
ReferencesResolve ==
    Done =>
        /\ \A t \in DOMAIN tabs : \A name \in References(t) : Element(name) # {}
        /\ Len(tabs) = Len(Systems) + 1
        /\ \A t \in 2 .. Len(tabs) :
              LET page == sources.pages[tabs[t].of]
              IN /\ Len(tabs[t].rows) = Len(page) + 1
                 /\ \A i \in DOMAIN page : \A j \in DOMAIN sources.rows[page[i]].cells :
                       \E p \in Element(tabs[t].rows[i + 1].names[j]) :
                           Alike(p, NamedIn(sources.rows[page[i]].cells[j]))

\* "So every tab keeps its own panels": no two tabs refer to one element, and no two
\* elements are one object: ids run from 1 without a repeat.
TabsKeepTheirOwn ==
    Done =>
        /\ \A t, u \in DOMAIN tabs : t # u => References(t) \cap References(u) = {}
        /\ \A i \in DOMAIN elements : heap[elements[i][2]].id = i

\* "The tab already says which system this is": a title loses the name of its own tab's
\* system and of no other, on panels and rows alike, although pages share rows and
\* widgets; only the first tab's tables link to the systems.
EditsStayOnTheirTab ==
    Done => \A t \in DOMAIN tabs :
        /\ \A name \in References(t) : \A p \in Element(name) :
              /\ p.names \in {{}, {"none"}, {p.of}} /\ tabs[t].of \notin p.names
              /\ p.names = {} => p.of = tabs[t].of
              /\ p.links # {} => t = 1
        /\ t > 1 => \A i \in DOMAIN sources.pages[tabs[t].of] :
              tabs[t].rows[i + 1].title =
                  Untitled(tabs[t].of, sources.rows[sources.pages[tabs[t].of][i]].title)

\* "Anything else would be a widget on the wrong tab": no system's panel follows a repeat
\* variable the system does not have.
NoWidgetOnTheWrongTab ==
    Done => \A t \in 2 .. Len(tabs) : \A name \in References(t) : \A p \in Element(name) :
        p.vars \subseteq Allowed[tabs[t].of]

\* The rendered tabs show each panel as its widget and tab say, and no other tab's.
HomeSafe == HomeTypeOK /\ ReferencesResolve /\ TabsKeepTheirOwn /\ EditsStayOnTheirTab /\ NoWidgetOnTheWrongTab
=============================================================================
