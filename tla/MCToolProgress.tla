---------------------------- MODULE MCToolProgress ----------------------------
\* What the lab's programs must get to: one component runs, the others stand at one
\* initial state.  Their small instances are below, each beside the component it is for.
EXTENDS Readiness, LongSessions, SiteFixes, EngineStart, AthenaCertificate, Healthchecks,
        SendScreen, Playback, FlowRows

VARIABLE part
Parts == {"gate", "suite", "fixes", "start", "athena", "checks", "screen", "playback", "rows"}

(* Readiness: engines that differ from a sound one in one fact, and engines that render
   any mixture of two prompts and none. *)
CONSTANTS high, medium, small, p1, p2, m1, m2
MCOrder == <<high, medium, small>>
Sound ==
    [format |-> "zig", state |-> "ok", model |-> m1, context |-> 1, lanes |-> 2, pool |-> 2, spill |-> TRUE,
     answers |-> {1, 2}, efforts |-> <<high, small>>,
     renders |-> [l \in Standard \cup {Default} |-> IF l \in {high, medium} THEN p1 ELSE p2]]
Declared == {<<high, small>>, <<medium, NoReply>>, <<NoReply>>, <<small>>}
RenderEngines ==
    {[Sound EXCEPT !.efforts = es, !.renders = r] :
        es \in Declared, r \in [Standard \cup {Default} -> Prompts \cup {Missing}]}
OneWrong ==
    {[Sound EXCEPT !.state = "down"], [Sound EXCEPT !.state = "warming"], [Sound EXCEPT !.model = m2],
     [Sound EXCEPT !.context = 2], [Sound EXCEPT !.lanes = 1], [Sound EXCEPT !.spill = FALSE],
     [Sound EXCEPT !.answers = {}], [Sound EXCEPT !.answers = {2}]}
FactEngines ==
    {Sound, [Sound EXCEPT !.efforts = <<>>], [Sound EXCEPT !.format = "mia", !.pool = 1]}
        \cup OneWrong \cup {[e EXCEPT !.format = "mia"] : e \in {Sound} \cup OneWrong}
MCEngines == RenderEngines \cup FactEngines
Asked == [model |-> m1, context |-> 1, lanes |-> 2, pool |-> 2, spill |-> FALSE, efforts |-> <<high, small>>]
MCProfiles ==
    {[Asked EXCEPT !.spill = s] : s \in BOOLEAN} \cup {[Asked EXCEPT !.efforts = es] : es \in Declared \cup {<<>>}}
GateStands == engine = Sound /\ profile = Asked
\* The renderings vary where nothing else is asked for.
GateStarts == engine \in FactEngines \/ (profile.efforts = engine.efforts /\ ~profile.spill)

MCHosts == <<"head", "worker">>  \* LongSessions

(* SiteFixes. *)
MCFixed == <<"reasoning", "health">>
MCImages == [Patched -> {"upstream", "drifted"}] \cup {[n \in Patched |-> "site"]}
FixesStand == shipped = [n \in Patched |-> "site"]

(* EngineStart: settings vary with everything staged, devices with one engine's, staging
   and kills with one setting. *)
Plain ==
    [model_path |-> "weights", context |-> "c1", served_model_name |-> "name", host |-> Unset, port |-> Unset,
     drafter |-> Unset, max_tokens |-> "m1", extra_args |-> [v \in {} |-> 0], mtp_drafts |-> Unset, no_drafts |-> Unset]
Drafting == [Plain EXCEPT !.drafter = "d", !.no_drafts = "yes", !.host = "h", !.port = "p"]
MCConfigs ==
    {Plain, Drafting, [Plain EXCEPT !.drafter = "d"], [Plain EXCEPT !.max_tokens = Unset], [Plain EXCEPT !.context = Unset],
     [Plain EXCEPT !.drafter = "d", !.mtp_drafts = "3"],
     [Plain EXCEPT !.no_drafts = "off"], [Plain EXCEPT !.no_drafts = "1"],
     [Plain EXCEPT !.drafter = "d", !.extra_args = [v \in {"CONTEXT"} |-> "c2"]],
     [Plain EXCEPT !.extra_args = [v \in {"MAX_TOKENS"} |-> "m2"]]}
MCSkips == {{}, {"port"}, {"no_drafts", "context"}}
Cards(except, items) == [except |-> except, items |-> items]
Item(name, port) == [name |-> name, port |-> port]
BothHcas == Cards(FALSE, <<Item("d0", Unset), Item("d1", 1)>>)
Good == [tf |-> Unset, nccl |-> BothHcas]
MCRdma ==
    {Good, [tf |-> Unset, nccl |-> Cards(TRUE, <<Item("d0", Unset)>>)], [tf |-> Unset, nccl |-> Cards(FALSE, <<Item("d1", 2)>>)],
     [tf |-> Unset, nccl |-> Cards(FALSE, <<Item("d", Unset)>>)],
     [tf |-> Cards(FALSE, <<Item("d1", Unset)>>), nccl |-> Cards(TRUE, <<Item("d0", Unset)>>)]}
Staged == hub = [r \in {0, 1} |-> [s \in Shards |-> "locked"]] /\ weights = [r \in {0, 1} |-> "locked"]
OneSetting == served = "deepseek" /\ config = Plain /\ skip = {} /\ rdma = Good
StartVaries ==
    \/ served = "deepseek" /\ config = Plain /\ skip = {} /\ rdma = Good
         /\ weights \in [{0, 1} -> {"locked", "other"}] /\ weights[1] = "locked"
         /\ hub \in [{0, 1} -> [Shards -> {"missing", "locked", "other"}]] /\ hub[1] = [s \in Shards |-> "locked"]
    \/ served \in EnginesServed /\ config \in Configs /\ skip \in Skips /\ rdma = Good /\ Staged
         /\ (skip = {} \/ config \in {Plain, Drafting})
    \/ served = "deepseek" /\ config = Plain /\ skip = {} /\ rdma \in Rdma /\ Staged
StartStands == OneSetting /\ Staged

(* Healthchecks: an apply that has to create, to change and to pause, and one whose file
   names a check twice. *)
CONSTANTS watchdog, backup, other, t1, t2, x1, x2, c1
Entry(slug, timing, text) == [slug |-> slug, timing |-> timing, text |-> text]
MCFiles == {<<Entry(watchdog, t1, x1), Entry(backup, t1, x1)>>, <<Entry(backup, t1, x1), Entry(backup, t2, x1)>>}
Check(slug, timing, text, shows) ==
    [slug |-> slug, timing |-> timing, text |-> text, assigned |-> {c1}, status |-> shows]
MCProjects ==
    {<<Check(watchdog, t1, x2, "up"), Check(backup, t2, x1, "up")>>,
     <<Check(watchdog, t1, x1, "up"), Check(other, t1, x1, "down")>>}
ChecksStand == project = CHOOSE p \in Projects : TRUE

MCWorkload == {"send", "scrub"}  \* SendScreen
PlayStands == live = None

(* FlowRows: rows with an id and without, two derived ids that meet, a row that cannot
   become a record and one that cannot get an id. *)
FlowRow(id, key, time, shape, inNet, srcZone, outNet, dstZone) ==
    [id |-> id, key |-> key, time |-> time, shape |-> shape, inNet |-> inNet, srcZone |-> srcZone,
     outNet |-> outNet, dstZone |-> dstZone]
RowA == FlowRow("a", "k1", 1, "good", "Default", NoTime, "IoT", "Internal")
RowB == FlowRow("b", "k2", 2, "good", NoTime, "External", "Default", "Internal")
RowC == FlowRow(NoTime, "k5", 1, "good", "Default", "Internal", NoTime, "External")
RowE == FlowRow(NoTime, "k6", 2, "good", "IoT", "Internal", "IoT", "Gateway")
Broken == FlowRow("x", "k3", 1, "broken", "Default", NoTime, NoTime, "External")
Unreadable == FlowRow(NoTime, "k4", 1, "unreadable", NoTime, NoTime, NoTime, NoTime)
MCRowsets == {{RowA, RowB, Broken}, {RowA, Unreadable}, {RowC, [RowC EXCEPT !.inNet = "IoT"], RowB}, {RowA, RowE, RowC}}
RowsStand == flows = {RowA, Unreadable}
-----------------------------------------------------------------------------
MCInit ==
    /\ part \in Parts
    /\ IF part = "gate" THEN TRUE ELSE GateStands
    /\ IF part = "fixes" THEN TRUE ELSE FixesStand
    /\ IF part = "start" THEN StartVaries ELSE StartStands
    /\ IF part = "checks" THEN TRUE ELSE ChecksStand
    /\ IF part = "playback" THEN TRUE ELSE PlayStands
    /\ IF part = "rows" THEN TRUE ELSE RowsStand
    /\ ReadinessInit /\ GateStarts /\ LsInit /\ FixInit /\ StartInit /\ AthenaInit /\ HcInit
    /\ ScreenInit /\ PlayInit /\ FlowRowsInit

\* What may take the engine's place: it down, in another condition, with another model.
Swapped == {Sound, [Sound EXCEPT !.format = "mia"]} \cup OneWrong
GateRuns == ReadinessNext /\ (swaps' > swaps => engine' \in Swapped)
StartRuns == StartNext /\ (kills' > kills => OneSetting)

MCNext ==
    \/ part = "gate" /\ GateRuns
         /\ UNCHANGED <<part, lsVars, fixVars, startVars, athenaVars, hcVars, screenVars, playVars, rowsVars>>
    \/ part = "suite" /\ LsNext
         /\ UNCHANGED <<part, readinessVars, fixVars, startVars, athenaVars, hcVars, screenVars, playVars, rowsVars>>
    \/ part = "fixes" /\ FixNext
         /\ UNCHANGED <<part, readinessVars, lsVars, startVars, athenaVars, hcVars, screenVars, playVars, rowsVars>>
    \/ part = "start" /\ StartRuns
         /\ UNCHANGED <<part, readinessVars, lsVars, fixVars, athenaVars, hcVars, screenVars, playVars, rowsVars>>
    \/ part = "athena" /\ AthenaNext
         /\ UNCHANGED <<part, readinessVars, lsVars, fixVars, startVars, hcVars, screenVars, playVars, rowsVars>>
    \/ part = "checks" /\ HcNext
         /\ UNCHANGED <<part, readinessVars, lsVars, fixVars, startVars, athenaVars, screenVars, playVars, rowsVars>>
    \/ part = "screen" /\ ScreenNext
         /\ UNCHANGED <<part, readinessVars, lsVars, fixVars, startVars, athenaVars, hcVars, playVars, rowsVars>>
    \/ part = "playback" /\ PlayNext
         /\ UNCHANGED <<part, readinessVars, lsVars, fixVars, startVars, athenaVars, hcVars, screenVars, rowsVars>>
    \/ part = "rows" /\ FlowRowsNext
         /\ UNCHANGED <<part, readinessVars, lsVars, fixVars, startVars, athenaVars, hcVars, screenVars, playVars>>

\* The fairness of each module, for the part that runs.
Fair ==
    /\ WF_readinessVars(part = "gate" /\ GateSteps)
    /\ WF_lsVars(part = "suite" /\ PhaseEnds) /\ WF_lsVars(part = "suite" /\ Finish)
    /\ WF_lsVars(part = "suite" /\ Tick) /\ WF_lsVars(part = "suite" /\ MonitorSteps)
    /\ \A r \in Requests :
          /\ WF_lsVars(part = "suite" /\ Start(r)) /\ WF_lsVars(part = "suite" /\ Headers(r))
          /\ WF_lsVars(part = "suite" /\ Leave(r)) /\ WF_lsVars(part = "suite" /\ Settle(r))
          /\ WF_lsVars(part = "suite" /\ WatcherActs(r)) /\ WF_lsVars(part = "suite" /\ shut[r] /\ StreamEnds(r))
    /\ WF_fixVars(part = "fixes" /\ FixerSteps) /\ WF_fixVars(part = "fixes" /\ NewContainer)
    /\ \A r \in {0, 1} :
          /\ WF_startVars(part = "start" /\ r \in Ranks /\ Entrypoint(r))
          /\ WF_startVars(part = "start" /\ r \in Ranks /\ Relaunch(r))
          /\ WF_startVars(part = "start" /\ r \in Ranks /\ StageShard(r))
          /\ WF_startVars(part = "start" /\ r \in Ranks /\ StageInputs(r))
    /\ WF_athenaVars(part = "athena" /\ (LegoSaves \/ LegoEnds)) /\ WF_athenaVars(part = "athena" /\ RestoreBinding)
    /\ WF_athenaVars(part = "athena" /\ RunByHand("hand"))
    /\ \A h \in Hooks : WF_athenaVars(part = "athena" /\ HookSteps(h))
    /\ WF_hcVars(part = "checks" /\ GoesOn) /\ SF_hcVars(part = "checks" /\ RunAgain) /\ SF_hcVars(part = "checks" /\ Confirm)
    /\ WF_screenVars(part = "screen" /\ ScreenSteps)
    /\ \A w \in Workload : WF_screenVars(part = "screen" /\ WorkloadEnds(w))
    /\ WF_playVars(part = "playback" /\ \E p \in promises : Resolves(p) \/ Rejects(p))
    /\ WF_rowsVars(part = "rows" /\ ClockTicks) /\ WF_rowsVars(part = "rows" /\ RowsThread)
    /\ WF_rowsVars(part = "rows" /\ Restart)

MCSpec ==
    /\ MCInit
    /\ [][MCNext]_<<part, readinessVars, lsVars, fixVars, startVars, athenaVars, hcVars, screenVars, playVars, rowsVars>>
    /\ Fair

\* Each program gets there, the progress of a part asked of the behaviours in which it runs:
\* the gate decides, a cancel ends, images come to start patched, the engine serves, what
\* was issued is installed, a sync converges, the screen ends, a pending text goes, a
\* hung collector is restarted and a window that cannot be stored is given up.  On the
\* way a pass is of a healthy engine, the watchdog's check is not created and only a hung
\* collector is restarted.
ProgramsGetThere ==
    /\ part = "gate" => GateEnds
    /\ part = "suite" => CancelEnds
    /\ part = "fixes" => FixConverges
    /\ part = "start" => EverServes
    /\ part = "athena" => IssuedIsInstalled
    /\ part = "checks" => Converges
    /\ part = "screen" => ScreenEnds
    /\ part = "playback" => PendingEnds
    /\ part = "rows" => HungIsRestarted
    /\ part = "rows" => HeldWindowEnds
    /\ PassesHealthy /\ WatchdogNotCreated /\ RestartsOnlyHung
=============================================================================
