---------------------------- MODULE HomeOverview ----------------------------
(***************************************************************************)
(* What the Home dashboard says of the lab: the rules of                   *)
(* scripts/grafana/home/overview.py, and in home/widgets.py which system a *)
(* series belongs to.                                                      *)
(*                                                                         *)
(* The metrics change as they like.  The queries are functions of them,    *)
(* with the meaning MetricsQL gives their operators: label_replace sets a  *)
(* label where its pattern matches, the last to match wins; "or" drops a   *)
(* series whose labels the left side has, whatever its value; topk keeps   *)
(* one row of the greatest value; min_over_time skips what was absent.     *)
(*                                                                         *)
(* Rules of one shape stand for each other: an alert of each severity, a   *)
(* silent collector, a disk, a machine's room and a count of the cluster.  *)
(***************************************************************************)
EXTENDS HomeDashboard

CONSTANTS
    AlertSeries,   \* [labels, name, thing, severity, detail]
    Collectors,    \* labels of up
    Disks,         \* [labels, thing, imageCache]
    Hosts,         \* [labels, thing]
    HealthCounts,  \* the cluster's counts: names
    Used, DaysLeft, Rooms,  \* readings of a disk and a machine
    SampleWindow   \* samples in ten minutes

SYSTEMS == <<"k8s-prod", "pve-sbx", "spark", "athena", "network", "power", "devices">>

\* With "_" for a blank.
RuleWords == {"Collectors_silent", "Disk_filling_up", "Disk_nearly_full", "Running_hot"}

ASSUME OverviewAssumption ==
    /\ Used \cup DaysLeft \cup Rooms \subseteq Int
    /\ SampleWindow \in Nat \ {0}
    \* an alert's name is none of the rules' words, nor a count's
    /\ \A a \in AlertSeries : a.name \notin HealthCounts \cup RuleWords
    /\ HealthCounts \cap RuleWords = {}
    \* the probe of the gateway is not read over NUT
    /\ \A l \in Collectors \cup {a.labels : a \in AlertSeries} : l.job = "nut" => l.probe # "unifi-gateway"

VARIABLES
    firing,      \* alerts that fire
    unheard,     \* collectors with up = 0
    disk,        \* [used, days] of each disk
    room,        \* degrees each machine is from its limit
    samples      \* the counts' last readings, "absent" where there was none

mvars == <<firing, unheard, disk, room, samples>>

-----------------------------------------------------------------------------
(* widgets.py: the system of a series.                                     *)

PLATFORMS == [k8s |-> "k8s-prod", pve |-> "pve-sbx", spark |-> "spark", synology |-> "athena",
              unifi |-> "network", starlink |-> "network", tmobile |-> "network",
              pi |-> "devices", glkvm |-> "devices"]
ALERT_FAMILIES == [UniFi |-> "network", Starlink |-> "network", TMobile |-> "network",
                   NAS |-> "athena", GLKVM |-> "devices", UPS |-> "power", Probe |-> "k8s-prod"]

Lookup(f, x, otherwise) == IF x \in DOMAIN f THEN f[x] ELSE otherwise

\* The jobs are those of the Pis: pi-nut and pi-blackbox.
S(l) ==
    LET byCluster == IF l.cluster \in {"k8s-prod", "pve-sbx"} THEN l.cluster ELSE ""
        byPlatform == Lookup(PLATFORMS, l.platform, byCluster)
        byFamily == Lookup(ALERT_FAMILIES, l.family, byPlatform)
        byJob == Lookup([nut |-> "power", blackbox |-> "k8s-prod"], l.job, byFamily)
        byProbe == IF l.probe = "unifi-gateway" THEN "network" ELSE byJob
    IN IF byProbe = "" THEN "unassigned" ELSE byProbe

-----------------------------------------------------------------------------
(* overview.py: the rules.                                                 *)

Row(system, thing, what, detail, level) ==
    [system |-> system, thing |-> thing, what |-> what, detail |-> detail, level |-> level]

\* "r": the greatest level of rows that say the same.
Said(row) == [row EXCEPT !.level = 0]
Rule(rows) == {r \in rows : \A q \in rows : Said(q) = Said(r) => q.level <= r.level}

Level(severity) ==
    CASE severity = "critical" -> 3
      [] severity = "warning" -> 2
      [] OTHER -> 1

Alerts(level) ==
    Rule({Row(S(a.labels), a.thing, a.name, a.detail, level) : a \in {x \in firing : Level(x.severity) = level}})

CollectorsSilent == Rule({Row(S(l), "", "Collectors_silent", "affected", 2) : l \in unheard})

\* "The trend counts only on a disk already 70% full", and not on the image cache.
Growing == {d \in Disks : disk[d].used > 70 /\ ~d.imageCache}
FillingUp(level, from, below) ==
    Rule({Row(S(d.labels), d.thing, "Disk_filling_up", "days", level) :
            d \in {x \in Growing : disk[x].days >= from /\ disk[x].days < below}})
NearlyFull ==
    Rule({Row(S(d.labels), d.thing, "Disk_nearly_full", "used", 2) :
            d \in {x \in Disks : disk[x].used >= 85}})

RunningHot(level, from, below) ==
    Rule({Row(S(h.labels), h.thing, "Running_hot", "C", level) :
            h \in {x \in Hosts : room[x] >= from /\ room[x] < below}})

MinOverTime(s) == (\E i \in DOMAIN s : s[i] = "some") /\ \A i \in DOMAIN s : s[i] # "zero"
K8s == Rule({Row("k8s-prod", "", n, "affected", 2) : n \in {c \in HealthCounts : MinOverTime(samples[c])}})

-----------------------------------------------------------------------------
(* The queries over them.                                                  *)

\* Mutant: the quieter rules stand first.
QuieterFirst ==
    <<Alerts(1), Alerts(2), Alerts(3), CollectorsSilent, FillingUp(1, 7, 30), FillingUp(2, 0, 7),
      NearlyFull, RunningHot(1, 5, 15), RunningHot(2, -273, 5), K8s>>
R == <<Alerts(3), Alerts(2), Alerts(1), CollectorsSilent, FillingUp(2, 0, 7), FillingUp(1, 7, 30),
       NearlyFull, RunningHot(2, -273, 5), RunningHot(1, 5, 15), K8s>>

Or(left, right) == left \cup {r \in right : \A l \in left : Said(l) # Said(r)}
Joined(rules) ==
    LET upTo[i \in 0 .. Len(rules)] == IF i = 0 THEN {} ELSE Or(upTo[i - 1], rules[i])
    IN upTo[Len(rules)]
crossed == Joined(R)

\* needs_attention: the list of one tab, "" for the first, and the line in its place.
Listed(tab, rows) == IF tab = "" THEN rows ELSE {r \in rows : r.system = tab}
Attention(tab) == Listed(tab, crossed)
QuietShown(its) == its = {}

\* topk by (system) (1, seen), and a row for each system with nothing to say.
Top(its) == {r \in its : \A q \in its : q.level <= r.level}
Board(system, its) == LET top == Top(its) IN IF top # {} THEN top ELSE {Row(system, "", "", "", 0)}

-----------------------------------------------------------------------------
Readings == {"zero", "some", "absent"}

OverviewInit ==
    /\ firing = {} /\ unheard = {}
    /\ disk \in [Disks -> [used : Used, days : DaysLeft]]
    /\ room \in [Hosts -> Rooms]
    /\ samples = [c \in HealthCounts |-> <<>>]

AlertChanges(a) ==
    /\ firing' = IF a \in firing THEN firing \ {a} ELSE firing \cup {a}
    /\ UNCHANGED <<unheard, disk, room, samples>>

CollectorChanges(l) ==
    /\ unheard' = IF l \in unheard THEN unheard \ {l} ELSE unheard \cup {l}
    /\ UNCHANGED <<firing, disk, room, samples>>

DiskChanges(d) ==
    /\ disk' \in {[disk EXCEPT ![d] = r] : r \in [used : Used, days : DaysLeft]}
    /\ UNCHANGED <<firing, unheard, room, samples>>

RoomChanges(h) ==
    /\ room' \in {[room EXCEPT ![h] = r] : r \in Rooms}
    /\ UNCHANGED <<firing, unheard, disk, samples>>

InWindow(s) == IF Len(s) > SampleWindow THEN Tail(s) ELSE s

Sampled ==
    /\ \E reading \in [HealthCounts -> Readings] :
          samples' = [c \in HealthCounts |-> InWindow(Append(samples[c], reading[c]))]
    /\ UNCHANGED <<firing, unheard, disk, room>>

OverviewNext ==
    \/ \E a \in AlertSeries : AlertChanges(a)
    \/ \E l \in Collectors : CollectorChanges(l)
    \/ \E d \in Disks : DiskChanges(d)
    \/ \E h \in Hosts : RoomChanges(h)
    \/ Sampled

OverviewSpec == OverviewInit /\ [][OverviewNext]_mvars

-----------------------------------------------------------------------------
(* Properties.                                                             *)

OverviewTypeOK ==
    /\ firing \subseteq AlertSeries /\ unheard \subseteq Collectors
    /\ disk \in [Disks -> [used : Used, days : DaysLeft]]
    /\ room \in [Hosts -> Rooms]
    /\ \A c \in HealthCounts :
          Len(samples[c]) <= SampleWindow /\ \A i \in DOMAIN samples[c] : samples[c][i] \in Readings

\* "Only what must be seen", but all of it: an alert that fires is in the first tab's
\* list, and in its system's, at its own level or a higher one, although "or" drops rows
\* that say the same.
AlertsAreListed ==
    LET first == Attention("")
        listOf == [c \in ToSet(SYSTEMS) |-> Attention(c)]
    IN \A a \in firing : \E r \in first :
          /\ r.thing = a.thing /\ r.what = a.name /\ r.level >= Level(a.severity)
          /\ \A c \in ToSet(SYSTEMS) : r \in listOf[c] <=> c = S(a.labels)

\* "One row for every system, saying the worst thing true of it right now": the board's
\* row is of the greatest level any rule gives the system, and of level 0 exactly where
\* the system's tab shows the line that nothing needs attention.
BoardShowsTheWorst ==
    LET seen == crossed
        rules == UNION ToSet(R)
    IN \A c \in ToSet(SYSTEMS) :
        LET its == Listed(c, seen)
        IN /\ Board(c, its) # {}
           /\ \A b \in Board(c, its) :
                 (\A r \in Listed(c, rules) : r.level <= b.level) /\ (b.level = 0 <=> QuietShown(its))

\* "A count has to stay above zero for ten minutes before it is listed": of the readings
\* of the last ten minutes none is zero, and a count above zero in all of them is listed.
CountsHaveToStay ==
    \A c \in HealthCounts :
        LET listed == \E r \in crossed : r.what = c
            inTime == {i \in DOMAIN samples[c] : i > Len(samples[c]) - SampleWindow}
        IN /\ listed => \A i \in inTime : samples[c][i] # "zero"
           /\ inTime # {} /\ (\A i \in inTime : samples[c][i] = "some") => listed

\* "A UPS belongs to power whichever machine reads it, and the probes run from a Pi belong
\* to what they probe": what fires or falls silent stands in that system's list, whatever
\* the labels of the machine that reports it.
ListedUnder(labels, rows) ==
    /\ labels.probe = "unifi-gateway" => \E r \in rows : r \in Attention("network")
    /\ labels.job = "blackbox" /\ labels.probe # "unifi-gateway" => \E r \in rows : r \in Attention("k8s-prod")
    /\ labels.job = "nut" \/ (labels.family = "UPS" /\ labels.job = "" /\ labels.probe = "") =>
           \E r \in rows : r \in Attention("power")

PlacedByWhatItIsAbout ==
    /\ \A a \in firing : ListedUnder(a.labels, {r \in crossed : r.what = a.name})
    /\ \A l \in unheard : ListedUnder(l, {r \in crossed : r.what = "Collectors_silent"})

\* The board and the lists show what Prometheus has, the loudest first, and the counts of
\* the header have to stay to be shown.
OverviewSafe ==
    OverviewTypeOK /\ AlertsAreListed /\ BoardShowsTheWorst /\ CountsHaveToStay /\ PlacedByWhatItIsAbout

\* The home dashboard is what its source says and shows what is true.
HomePageSafe == HomeSafe /\ OverviewSafe
=============================================================================
