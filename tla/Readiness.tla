------------------------------- MODULE Readiness -------------------------------
(***************************************************************************)
(* The readiness gate of the Spark profiles:                               *)
(* sparks/inference/sparkrun/mods/tensorfold-readiness-v2/readiness.py and *)
(* the version before it, which some profiles still select.  The gate asks *)
(* a running engine for its health, its model list, warm-up and smoke      *)
(* replies on every stream at once, a tool call and the prompts of the     *)
(* reasoning levels, and last for its health again.  The engine may be     *)
(* replaced by another one, or stop serving, between any two requests.     *)
(*                                                                         *)
(* An engine is a record of what its answers are made of.  A request that  *)
(* it answers wrongly and one that it does not answer at all, in time or   *)
(* with usable JSON, end the gate the same way.                            *)
(***************************************************************************)
EXTENDS Integers, Sequences, FiniteSets

CONSTANTS
    EffortOrder,   \* EFFORT_ORDER, highest first
    NoReply, Default, \* the level "none"; a request that names no level
    Missing,       \* the 404 of a prompt that is not rendered
    Prompts,       \* rendered prompts
    Engines,       \* engines that may be running
    Profiles,      \* what recipes ask the gate for
    Warmups,       \* rounds of warm-up prompts
    MaxSwaps       \* bound on changes of the engine under one gate

Levels   == {EffortOrder[i] : i \in DOMAIN EffortOrder}
Standard == Levels \cup {NoReply}                    \* STANDARD_EFFORTS

ASSUME ReadinessAssumption ==
    /\ EffortOrder \in Seq(Levels) /\ \A i, j \in DOMAIN EffortOrder : EffortOrder[i] = EffortOrder[j] => i = j
    /\ NoReply \notin Levels /\ Default \notin Standard /\ Missing \notin Prompts
    /\ \A e \in Engines : e.renders \in [Standard \cup {Default} -> Prompts \cup {Missing}]
    /\ \A p \in Profiles : p.efforts \in Seq(Standard) /\ p.lanes \in Nat \ {0}
    /\ Warmups \in Nat /\ MaxSwaps \in Nat

VARIABLES
    engine,     \* the engine that answers now
    gateStep,       \* the request of the gate that comes next
    version,    \* 1 or 2
    profile,    \* the arguments
    round,      \* warm-up rounds done
    lanes,      \* the replies of the running round, by stream
    askNext,       \* levels still to render
    rendered,   \* prompts of the levels rendered
    missing,    \* advertised levels that were not found
    route,      \* "unknown", "some" or, as the gate concludes, "none"
    swaps       \* changes of the engine since the gate began
readinessVars == <<engine, gateStep, version, profile, round, lanes, askNext, rendered, missing,
                   route, swaps>>

ReadinessInit ==
    /\ engine \in Engines /\ gateStep = "idle" /\ version = 2 /\ profile \in Profiles
    /\ round = 0 /\ lanes = <<>> /\ askNext = <<>> /\ rendered = <<>> /\ missing = {}
    /\ route = "unknown" /\ swaps = 0

GateEnded == gateStep \in {"passed", "failed"}

\* A restart, another engine on the port, or the same one in another condition.
EngineChanges ==
    /\ gateStep # "idle" /\ ~GateEnded /\ swaps < MaxSwaps
    /\ swaps' = swaps + 1
    /\ engine' \in Engines \ {engine}
    /\ UNCHANGED <<gateStep, version, profile, round, lanes, askNext, rendered, missing, route>>
-----------------------------------------------------------------------------
(* What the gate makes of an answer.                                       *)

Position(level) == CHOOSE i \in DOMAIN EffortOrder : EffortOrder[i] = level
Distance(a, b) == IF Position(a) >= Position(b) THEN Position(a) - Position(b)
                                                ELSE Position(b) - Position(a)
Advertised == {profile.efforts[i] : i \in DOMAIN profile.efforts}

\* nearest: min by the distance in EFFORT_ORDER, then by the position in it.
NearestNamed(effort) ==
    CHOOSE l \in Advertised \cap Levels :
       \A m \in Advertised \cap Levels :
          \/ Distance(l, effort) < Distance(m, effort)
          \/ Distance(l, effort) = Distance(m, effort) /\ Position(l) <= Position(m)
Nearest(effort) == IF Advertised = {NoReply} THEN NoReply ELSE NearestNamed(effort)

\* check_health.  A Zig server's body names the model but no window, and that
\* of Mia's Python server the window and pool but no model.
ZigHealth == engine.state = "ok" /\ engine.model = profile.model /\ engine.lanes = profile.lanes
MiaHealth ==
    /\ engine.state = "ok" /\ engine.lanes = profile.lanes
    /\ engine.context = profile.context
    /\ engine.pool >= profile.pool
EngineHealthy ==
    /\ IF engine.format = "mia" THEN MiaHealth ELSE ZigHealth
    /\ version = 2 /\ profile.spill => engine.spill

\* check_models.
ListedEfforts == engine.state # "down" /\ engine.model = profile.model /\ engine.context = profile.context
          /\ engine.efforts = profile.efforts

\* chat, with what smoke, warmup and tool_call want of the reply.  An engine may
\* answer only on some of its streams (engine.answers).
Answers(stream) == engine.state = "ok" /\ stream \in engine.answers
-----------------------------------------------------------------------------
(* The gate, in the order of main.                                         *)

Keep == UNCHANGED <<engine, version, profile, swaps>>
Fail == gateStep' = "failed" /\ UNCHANGED <<round, lanes, askNext, rendered, missing, route>>

\* Only version 2 has --require-spill.
BeginGate(v) ==
    /\ gateStep = "idle"
    /\ v = 1 => ~profile.spill
    /\ version' = v /\ gateStep' = "health"
    /\ UNCHANGED <<engine, profile, round, lanes, askNext, rendered, missing, route, swaps>>

CheckHealth ==
    /\ gateStep = "health"
    /\ IF EngineHealthy THEN gateStep' = "models" /\ UNCHANGED <<round, lanes, askNext, rendered, missing, route>>
                  ELSE Fail
    /\ Keep

Streams == [1 .. profile.lanes -> {"waiting"}]

CheckModels ==
    /\ gateStep = "models"
    /\ IF ~ListedEfforts THEN Fail
       ELSE gateStep' = "chats" /\ lanes' \in Streams /\ UNCHANGED <<round, askNext, rendered, missing, route>>
    /\ Keep

\* One stream's reply; they come in any order.
LaneReplies ==
    /\ gateStep = "chats"
    /\ \E i \in DOMAIN lanes :
          /\ lanes[i] = "waiting"
          /\ lanes' = [lanes EXCEPT ![i] = IF Answers(i) THEN "good" ELSE "bad"]
    /\ UNCHANGED <<gateStep, round, askNext, rendered, missing, route>>
    /\ Keep

\* Mutant: the last stream decides.
LastGood == lanes[profile.lanes] = "good"
\* list(pool.map(...)) raises what any stream raised.
RoundGood == \A i \in DOMAIN lanes : lanes[i] = "good"

BadRound == Fail

\* Leaving the pool waits for every stream; the smoke round follows the warm-ups.
RoundEnds ==
    /\ gateStep = "chats"
    /\ \A i \in DOMAIN lanes : lanes[i] # "waiting"
    /\ IF ~RoundGood THEN BadRound
       ELSE /\ UNCHANGED <<askNext, rendered, missing, route>>
            /\ IF round < Warmups
               THEN round' = round + 1 /\ lanes' \in Streams /\ UNCHANGED gateStep
               ELSE gateStep' = "tool" /\ UNCHANGED <<round, lanes>>
    /\ Keep

ToolCall ==
    /\ gateStep = "tool"
    /\ IF \A stream \in 1 .. profile.lanes : ~Answers(stream) THEN Fail
       ELSE /\ gateStep' = IF profile.efforts = <<>> THEN "health_again" ELSE "levels"
            /\ askNext' = profile.efforts
            /\ UNCHANGED <<round, lanes, rendered, missing, route>>
    /\ Keep

Render(level) == engine.renders[level]
FoundEngine(level) == Render(level) # Missing

\* An advertised level renders, is not found, or - the engine being down - raises.
RenderLevel ==
    /\ gateStep = "levels" /\ askNext # <<>>
    /\ IF engine.state = "down" THEN Fail
       ELSE /\ askNext' = Tail(askNext)
            /\ IF FoundEngine(Head(askNext))
               THEN /\ rendered' = [l \in DOMAIN rendered \cup {Head(askNext)} |->
                                      IF l = Head(askNext) THEN Render(l) ELSE rendered[l]]
                    /\ UNCHANGED missing
               ELSE missing' = missing \cup {Head(askNext)} /\ UNCHANGED rendered
            /\ UNCHANGED <<gateStep, round, lanes, route>>
    /\ Keep

Distinct == \A l, m \in DOMAIN rendered : rendered[l] = rendered[m] => l = m

\* STANDARD_EFFORTS, lowest first, without the "none" that the loop passes over.
Others == [i \in DOMAIN EffortOrder |-> EffortOrder[Len(EffortOrder) + 1 - i]]

\* Version 1 takes the route for missing; version 2 asks once more, for the
\* default prompt.
SkipAtOnce == gateStep' = "health_again" /\ route' = "none"
NothingRendered ==
    IF version = 2 THEN gateStep' = "default" /\ UNCHANGED route ELSE SkipAtOnce

\* nearest of version 1 has no level to choose for a profile of "none" alone.
MinOfNothing == version = 1 /\ Advertised = {NoReply}

LevelsRendered ==
    /\ gateStep = "levels" /\ askNext = <<>>
    /\ \/ /\ missing # {} /\ rendered = <<>>
          /\ NothingRendered
          /\ UNCHANGED <<round, lanes, askNext, rendered, missing>>
       \/ /\ rendered # <<>> /\ (missing # {} \/ ~Distinct)
          /\ Fail
       \/ /\ missing = {} /\ Distinct
          /\ IF MinOfNothing THEN Fail
             ELSE gateStep' = "others" /\ route' = "some" /\ askNext' = Others
                  /\ UNCHANGED <<round, lanes, rendered, missing>>
    /\ Keep

RenderDefault ==
    /\ gateStep = "default"
    /\ IF engine.state = "down" \/ Render(Default) # Missing THEN Fail
       ELSE gateStep' = "health_again" /\ route' = "none"
            /\ UNCHANGED <<round, lanes, askNext, rendered, missing>>
    /\ Keep

\* An unlisted name renders; the advertised ones have been rendered already.
RenderOther ==
    /\ gateStep = "others" /\ askNext # <<>>
    /\ IF /\ Head(askNext) \notin DOMAIN rendered
          /\ engine.state = "down" \/ Render(Head(askNext)) # rendered[Nearest(Head(askNext))]
       THEN Fail
       ELSE askNext' = Tail(askNext) /\ UNCHANGED <<gateStep, round, lanes, rendered, missing, route>>
    /\ Keep

OthersRendered ==
    /\ gateStep = "others" /\ askNext = <<>>
    /\ gateStep' = "health_again"
    /\ UNCHANGED <<round, lanes, askNext, rendered, missing, route>>
    /\ Keep

StillHealthy == EngineHealthy

CheckHealthAgain ==
    /\ gateStep = "health_again"
    /\ IF StillHealthy THEN gateStep' = "passed" /\ UNCHANGED <<round, lanes, askNext, rendered, missing, route>>
                  ELSE Fail
    /\ Keep

GateSteps ==
    \/ \E v \in {1, 2} : BeginGate(v)
    \/ CheckHealth \/ CheckModels \/ LaneReplies \/ RoundEnds \/ ToolCall
    \/ RenderLevel \/ LevelsRendered \/ RenderDefault \/ RenderOther \/ OthersRendered
    \/ CheckHealthAgain

ReadinessNext == GateSteps \/ EngineChanges

ReadinessSpec == ReadinessInit /\ [][ReadinessNext]_readinessVars
-----------------------------------------------------------------------------
(* Properties.                                                             *)

ReadinessTypeOK ==
    /\ engine \in Engines /\ profile \in Profiles /\ version \in {1, 2}
    /\ gateStep \in {"idle", "health", "models", "chats", "tool", "levels", "default", "others",
                 "health_again", "passed", "failed"}
    /\ round \in 0 .. Warmups /\ swaps \in 0 .. MaxSwaps
    /\ lanes \in [DOMAIN lanes -> {"waiting", "good", "bad"}]
    /\ askNext \in Seq(Standard)
    /\ DOMAIN rendered \subseteq Advertised /\ rendered \in [DOMAIN rendered -> Prompts]
    /\ missing \subseteq Advertised
    /\ route \in {"unknown", "some", "none"}

\* The level an unlisted name stands for, found by walking outwards from it:
\* the first advertised one met, the higher side looked at first.
Outwards(effort, d) == <<Position(effort) - d, Position(effort) + d>>
StandsFor(effort) ==
    LET Met(d) == {i \in {1, 2} : Outwards(effort, d)[i] \in DOMAIN EffortOrder
                                  /\ EffortOrder[Outwards(effort, d)[i]] \in Advertised}
        d == CHOOSE d \in 0 .. Len(EffortOrder) :
                Met(d) # {} /\ \A c \in 0 .. d - 1 : Met(c) = {}
    IN EffortOrder[Outwards(effort, d)[IF 1 \in Met(d) THEN 1 ELSE 2]]

\* "each advertised reasoning level reaches the prompt differently and every
\* other standard level name renders as its nearest advertised level".
LevelsKept(e) ==
    /\ \A l \in Advertised : e.renders[l] # Missing
    /\ \A l, m \in Advertised : l # m => e.renders[l] # e.renders[m]
    /\ \A l \in Levels \ Advertised :
          e.renders[l] = e.renders[IF Advertised = {NoReply} THEN NoReply ELSE StandsFor(l)]

\* The profile's promise, whatever format the engine's health has.
Promised(e) ==
    /\ e.state = "ok" /\ 1 .. profile.lanes \subseteq e.answers
    /\ e.model = profile.model /\ e.context = profile.context /\ e.lanes = profile.lanes
    /\ e.efforts = profile.efforts
    /\ e.format = "mia" => e.pool >= profile.pool
    /\ profile.spill => e.spill
    /\ profile.efforts # <<>> =>
          LevelsKept(e) \/ \A l \in Advertised \cup {Default} : e.renders[l] = Missing

\* Fail closed: an engine that stayed the same while the gate ran and passed it
\* keeps the whole promise, also the parts its own health format leaves out.
PassedIsPromised == gateStep = "passed" /\ swaps = 0 /\ version = 2 => Promised(engine)

\* And no closer than that: an engine that keeps the promise is never refused.
PromisedPasses == gateStep = "failed" /\ swaps = 0 /\ version = 2 => ~Promised(engine)

\* The gate cannot tell a restart it slept through, but whatever happened
\* before, the engine it passes is healthy as it passes, and what it is known
\* to be: no earlier answer can make up for the last one.
PassesHealthy ==
    [][gateStep' = "passed" /\ gateStep # "passed" => EngineHealthy /\ engine' = engine]_readinessVars

\* "no /tokenize route at all" (the first version, at the return that skips the
\* levels) and "no /tokenize route" in what both print: levels are only skipped
\* for an engine that renders nothing.
SkippedMeansNoRoute == route = "none" /\ swaps = 0 => engine.renders[Default] = Missing

\* The second version keeps that.
V2SkipsOnlyNoRoute == version = 2 => SkippedMeansNoRoute

\* The gate always comes to an end: every request has a timeout, and nothing is
\* retried.
GateEnds == (gateStep # "idle") ~> GateEnded

\* The gate passes engines that keep every promise of the profile, and only those.
GateSafe == ReadinessTypeOK /\ PassedIsPromised /\ PromisedPasses /\ V2SkipsOnlyNoRoute
=============================================================================
