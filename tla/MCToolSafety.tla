----------------------------- MODULE MCToolSafety -----------------------------
\* What the lab's tools may never do, and how the SN770 qualification ends: one component
\* runs, the others stand at one initial state.  Their small instances are below, each beside the component it is for.
EXTENDS McpProbe, CaddyPromote, PolicyDelta, MediaIsolation, DeliveryDrill,
        HidScripts, HomeOverview, GlkvmExport, RenovateProblems,
        Qualification, CeilingPublish, TLC

VARIABLE part
Parts == {"probe", "caddy", "policy", "media", "drill", "scripts", "home", "overview", "export", "renovate", "qualification", "ceiling"}

(* CaddyPromote: a release that moves its plugin, and its builder before its runtime. *)
MCInputs ==
    {[builder |-> "2.1", runtime |-> "2.1", plugin |-> "1"], [builder |-> "2.1", runtime |-> "2.1", plugin |-> "2"],
     [builder |-> "2.2", runtime |-> "2.1", plugin |-> "2"]}
CaddyStands == branch = <<[builder |-> "2.1", runtime |-> "2.1", plugin |-> "1"]>>

(* PolicyDelta: the returns of two forwards.  The counters of one forward and of one policy
   the edit does not touch move. *)
MCReturns == [f \in Forwards |-> IF f = "f1" THEN "r1" ELSE "r2"]
PolicyRuns == PolicyNext /\ \A i \in DOMAIN live' : live'[i].hits = 1 => i \in {"f1", "o1"}

MediaStands == beingWatched = "none" /\ browser = CHOOSE g \in DOMAIN Gestures : TRUE

(* HidScripts: every character and name once, repeats, shifts and chords, and what the
   programs refuse; holds of each kind of key, shorter and longer than a round. *)
Typed(characters) == [kind |-> "type", arg |-> characters]
Key(name) == [kind |-> "name", arg |-> name]
Every ==
    Letters \o Capitals \o Digits \o DigitMarks
        \o <<"blank", "-", "=", "[", "]", "\\", "semicolon", "'", "backtick", "comma", ".", "/">>
        \o <<"underscore", "+", "lbrace", "rbrace", "|", ":", "dquote", "~", "<", ">", "?">>
MCTypings ==
    {<<>>, <<Typed(Every)>>, <<Typed(<<"a", "a", "A", "1", "!">>), Key("enter"), Key("enter")>>,
     <<Key("esc"), [kind |-> "sleep", arg |-> 4], [kind |-> "ctrl-alt-", arg |-> "del"],
       [kind |-> "ctrl-alt-", arg |-> "d"], Key("space"), Typed(<<"blank">>)>>,
     <<Typed(<<"b", "eacute", "c">>), Key("tab")>>, <<Key("f12"), Key("hyper"), Key("up")>>,
     <<Key("left"), [kind |-> "ctrl-alt-", arg |-> "!"]>>,
     <<Key("right"), [kind |-> "sleep", arg |-> -1], Key("up")>>}
MCHolds ==
    {[key |-> 66, span |-> 45], [key |-> 41, span |-> 21], [key |-> 256, span |-> 10],
     [key |-> 69, span |-> 0], [key |-> 0, span |-> 10]}
MCLeftovers == {Off, [mod |-> 0, key |-> 4], [mod |-> 1, key |-> 0]}
ScriptsStand == command = (CHOOSE c \in Commands : TRUE) /\ down = Off

(* HomeDashboard: tiles, a trend, a table that grows past its limit and a note, in rows of
   their own, shared, repeated, unknown or used twice. *)
Widget(sort, key, of, vars, n) == [kind |-> sort, key |-> key, of |-> of, vars |-> vars, queries |-> n]
Cell(src, arg) == [src |-> src, arg |-> arg]
HomeRow(cells, title, repeat) == [cells |-> cells, title |-> title, repeat |-> repeat]
Lib(n) ==
    <<Widget("tiles", "gpu", "none", {"$gpu"}, 2), Widget("trend", "load", "spark", {}, 4),
      Widget("table", "drives", "none", {}, n), Widget("note", "about", "none", {}, 0)>>
HomeRows ==
    [go |-> HomeRow(<<Cell("deeper", "")>>, "none", ""),
     tiles |-> HomeRow(<<Cell("gpu-1", ""), Cell("gpu-2", "")>>, "spark", "$gpu"),
     both |-> HomeRow(<<Cell("load", ""), Cell("drives", "")>>, "spark", ""),
     feed |-> HomeRow(<<Cell("feed", "spark")>>, "none", ""),
     feedN |-> HomeRow(<<Cell("feed", "nas"), Cell("about", "")>>, "none", ""),
     lost |-> HomeRow(<<Cell("nothing", "")>>, "none", "")]
Pages(n, spark, nas) == [library |-> Lib(n), rows |-> HomeRows, pages |-> [spark |-> spark, nas |-> nas]]
MCHomes ==
    {Pages(12, <<"tiles", "both", "feed", "go">>, <<"feedN", "both", "go">>), Pages(11, <<"tiles", "go">>, <<"feedN", "go">>),
     Pages(13, <<"tiles", "go">>, <<"go">>), Pages(3, <<"feed", "go">>, <<"tiles", "go">>),
     Pages(3, <<"feed", "feed", "go">>, <<"feedN", "go">>), Pages(3, <<"feed", "go">>, <<"lost", "go">>)}
MCBuilders ==
    [feed |-> [key |-> "feed", of |-> "none", names |-> {"none"}, vars |-> {}, queries |-> 1, links |-> {}, id |-> 0, arg |-> ""]]
MCSystems == <<"spark", "nas">>
MCAllowed == [spark |-> {"$gpu", "$model"}, nas |-> {}]
HomeStands == sources = CHOOSE s \in Sources : TRUE

(* HomeOverview: the same alert at two levels, a UPS and probes read from other machines,
   and a series that nothing places. *)
Labelled(cluster, platform, job, probed, family) ==
    [cluster |-> cluster, platform |-> platform, job |-> job, probe |-> probed, family |-> family]
Alert(labels, name, thing, severity) ==
    [labels |-> labels, name |-> name, thing |-> thing, severity |-> severity, detail |-> "1 h"]
UpsOnPi == Labelled("", "pi", "nut", "", "UPS")
MCAlerts ==
    {Alert(UpsOnPi, "UPSLow", "ups", "warning"), Alert(UpsOnPi, "UPSLow", "ups", "critical"),
     Alert(Labelled("", "pi", "blackbox", "unifi-gateway", "Probe"), "ProbeFailed", "gw", "critical"),
     Alert(Labelled("", "", "", "", ""), "Lost", "x", "info")}
MCCollectors == {Labelled("", "synology", "", "", "UPS"), Labelled("", "pi", "blackbox", "web", "")}
MCDisks == {[labels |-> Labelled("", "pve", "", "", ""), thing |-> "root", imageCache |-> FALSE]}
MCMachines == {[labels |-> Labelled("k8s-prod", "spark", "", "", ""), thing |-> "spark1"]}
OverviewStands ==
    /\ disk = [d \in Disks |-> [used |-> 60, days |-> 7]]
    /\ room = [h \in Hosts |-> 5]

(* GlkvmExport: an input and an output of one name, a hidden channel, parsed flags. *)
MCAtxs == {[enabled |-> 0, power |-> 1]}
MCInfos ==
    {(<<"health", "temp", "cpu">> :> 60) @@ (<<"health", "throttling", "parsed_flags", "now">> :> 0)
        @@ (<<"health", "throttling", "raw">> :> 3) @@ (<<"health", "name">> :> NoNumber) @@ (<<"fan", "speed">> :> 9)}
MCGpios == {(<<"input", "shared">> :> 1) @@ (<<"output", "shared">> :> 0) @@ (<<"input", "__h">> :> 1)}

(* RenovateProblems: no step reads what Renovate writes while a check has its answer. *)
RenovateRuns == DashboardNext /\ (dashboard'.body # dashboard.body => fetched = Nothing)
RenovateStands == dashboard = [state |-> "open", body |-> <<>>]

(* CeilingPublish: main is one release behind at first; others commit work once, and
   nothing else but the branch's first commit. *)
MCCeiling == [p \in Pins |-> p]
CeilingStarts == trunk = <<[pin |-> "p2", ceiling |-> "p1", rest |-> "r1"]>>
CeilingRuns ==
    /\ PublishNext
    /\ commits' # commits /\ publishStep' = publishStep =>
          othersWork = {} /\ (commits = 0 \/ othersWork' # othersWork)

-----------------------------------------------------------------------------
MCInit ==
    /\ part \in Parts
    /\ IF part = "caddy" THEN TRUE ELSE CaddyStands
    /\ IF part = "media" THEN TRUE ELSE MediaStands
    /\ IF part = "scripts" THEN TRUE ELSE ScriptsStand
    /\ IF part = "home" THEN TRUE ELSE HomeStands
    /\ IF part = "overview" THEN TRUE ELSE OverviewStands
    /\ IF part = "renovate" THEN TRUE ELSE RenovateStands
    /\ CeilingStarts
    /\ ProbeInit /\ CaddyInit /\ PolicyInit /\ MediaInit /\ DrillInit
    /\ HsInit /\ HomeInit /\ OverviewInit /\ ExportInit /\ DashboardInit /\ QualInit /\ PublishInit

MCNext ==
    \/ part = "probe" /\ ProbeNext
         /\ UNCHANGED <<part, caddyVars, policyVars, mediaVars, drillVars, svars, dvars, mvars, evars, rvars, qualVars, publishVars>>
    \/ part = "caddy" /\ CaddyNext
         /\ UNCHANGED <<part, probeVars, policyVars, mediaVars, drillVars, svars, dvars, mvars, evars, rvars, qualVars, publishVars>>
    \/ part = "policy" /\ PolicyRuns
         /\ UNCHANGED <<part, probeVars, caddyVars, mediaVars, drillVars, svars, dvars, mvars, evars, rvars, qualVars, publishVars>>
    \/ part = "media" /\ MediaNext
         /\ UNCHANGED <<part, probeVars, caddyVars, policyVars, drillVars, svars, dvars, mvars, evars, rvars, qualVars, publishVars>>
    \/ part = "drill" /\ DrillNext
         /\ UNCHANGED <<part, probeVars, caddyVars, policyVars, mediaVars, svars, dvars, mvars, evars, rvars, qualVars, publishVars>>
    \/ part = "scripts" /\ HsNext
         /\ UNCHANGED <<part, probeVars, caddyVars, policyVars, mediaVars, drillVars, dvars, mvars, evars, rvars, qualVars, publishVars>>
    \/ part = "home" /\ HomeNext
         /\ UNCHANGED <<part, probeVars, caddyVars, policyVars, mediaVars, drillVars, svars, mvars, evars, rvars, qualVars, publishVars>>
    \/ part = "overview" /\ OverviewNext
         /\ UNCHANGED <<part, probeVars, caddyVars, policyVars, mediaVars, drillVars, svars, dvars, evars, rvars, qualVars, publishVars>>
    \/ part = "export" /\ ExportNext
         /\ UNCHANGED <<part, probeVars, caddyVars, policyVars, mediaVars, drillVars, svars, dvars, mvars, rvars, qualVars, publishVars>>
    \/ part = "renovate" /\ RenovateRuns
         /\ UNCHANGED <<part, probeVars, caddyVars, policyVars, mediaVars, drillVars, svars, dvars, mvars, evars, qualVars, publishVars>>
    \/ part = "qualification" /\ QualNext
         /\ UNCHANGED <<part, probeVars, caddyVars, policyVars, mediaVars, drillVars, svars, dvars, mvars, evars, rvars, publishVars>>
    \/ part = "ceiling" /\ CeilingRuns
         /\ UNCHANGED <<part, probeVars, caddyVars, policyVars, mediaVars, drillVars, svars, dvars, mvars, evars, rvars, qualVars>>

Fair ==
    /\ WF_qualVars(part = "qualification" /\ MainSteps) /\ WF_qualVars(part = "qualification" /\ Elapse)
    /\ \A w \in Workers : WF_qualVars(part = "qualification" /\ WorkerSteps(w))

MCSpec ==
    /\ MCInit
    /\ [][MCNext]_<<part, probeVars, caddyVars, policyVars, mediaVars, drillVars,
                     svars, dvars, mvars, evars, rvars, qualVars, publishVars>>
    /\ Fair

\* A qualification ends; candidate never goes back, and a scrape fails only with an answer
\* of the manager that no exporter could use.
RunsEndAndTagsAdvance ==
    /\ part = "qualification" => RunEnds
    /\ NeverBackwards /\ FailsOnlyWithAManager
=============================================================================
