------------------------------ MODULE EngineStart ------------------------------
(***************************************************************************)
(* From the settings of a recipe to a running engine: the environment the  *)
(* TensorFold adapter gives each rank, and what the serve.py of each mod   *)
(* makes of it in the container.  The DeepSeek entrypoint links a view of  *)
(* the weights, the kit and the Engram shards under /tmp first, while the  *)
(* operator may still be staging files on that host, and the container may *)
(* be killed and started again at any point, with or without its /tmp.     *)
(*                                                                         *)
(* A setting is a value or Unset; extra_args is a function from the        *)
(* variables whose flags it repeats, the empty one when there are none.    *)
(* Paths, and the address the ranks meet at, are TensorFoldLaunch's.       *)
(***************************************************************************)
EXTENDS Integers, Sequences, FiniteSets, Functions

CONSTANTS
    Configs,    \* settings of a recipe under the overrides of a launch
    Skips,      \* sets of settings the recipe's own command already carries
    Rdma,       \* [tf, nccl]: TF_RDMA_DEVICES and NCCL_IB_HCA
    Devices,    \* the host's RDMA devices
    Weights, Shards, KitFiles, VisionFiles,  \* names of files
    Template, Bias, Index,                   \* chat_template.jinja, gate_bias_vl, model.safetensors.index.json
    Unset, MaxKills

Always == {"model_path", "context", "served_model_name", "host", "port"}
SettingKeys == Always \cup {"drafter", "max_tokens", "extra_args", "mtp_drafts", "no_drafts"}

ASSUME StartAssumption ==
    /\ \A c \in Configs : DOMAIN c = SettingKeys /\ c["model_path"] # Unset /\ c["extra_args"] # Unset
    /\ Unset # 2 /\ Unset \notin Devices /\ Template \in Weights /\ Bias \in VisionFiles /\ Index \notin Shards
    /\ MaxKills \in Nat

VARIABLES
    served, config, skip, rdma,   \* fixed once launched
    weights,   \* by rank: the weights are the "locked" ones, or "other"
    hub,       \* by rank and shard: "missing", "locked", or "other" content
    inputs,    \* by rank: the rank cache and token map are staged
    stage,     \* by rank: where its entrypoint is
    linksLeft,      \* by rank: links the current loop has still to make
    views,     \* by rank: the links under /tmp/dsv41, [at, to]
    kills
startVars == <<served, config, skip, rdma, weights, hub, inputs, stage, linksLeft, views, kills>>
given == <<served, config, skip, rdma, weights>>

EnginesServed == {"glm", "qwen_tp1", "qwen_tp2", "deepseek"}
Ranks == IF served = "qwen_tp1" THEN {0} ELSE {0, 1}
-----------------------------------------------------------------------------
(* The environment of a rank.                                              *)

\* skip_env, and the upper case of what it does not name.
VariableOf == [model_path |-> "MODEL_PATH", context |-> "CONTEXT", served_model_name |-> "SERVED_NAME",
    host |-> "HOST", port |-> "PORT", drafter |-> "DRAFTER", max_tokens |-> "MAX_TOKENS",
    extra_args |-> "EXTRA_ARGS", mtp_drafts |-> "MTP_DRAFTS", no_drafts |-> "NO_DRAFTS"]

Truthy == {"1", "true", "yes", "on"}
DefaultOf(setting) ==
    CASE setting = "host" -> "0.0.0.0" [] setting = "port" -> "8888" [] OTHER -> "None"

Value(setting) ==
    IF setting = "no_drafts" THEN "1"
    ELSE IF config[setting] = Unset THEN DefaultOf(setting) ELSE config[setting]

\* What the environment carries; an empty setting that is always written has
\* its default, or the text of None.
Carried ==
    (Always \cup {s \in SettingKeys : config[s] # Unset /\ (s = "no_drafts" => config[s] \in Truthy)}) \ skip

EngineEnv == [v \in {VariableOf[s] : s \in Carried} |->
                 Value(CHOOSE s \in SettingKeys : VariableOf[s] = v)]

-----------------------------------------------------------------------------
(* The command of a rank's engine.                                         *)

Api == {"SERVED_NAME", "HOST", "PORT"}

\* Variables an entrypoint reads with env[...]: a missing one is a KeyError.
Needed(rank) ==
    {"MODEL_PATH", "CONTEXT"} \cup
    CASE served = "glm" -> {"DRAFTER", "MAX_TOKENS"} \cup (IF rank = 0 THEN Api ELSE {})
      [] served \in {"qwen_tp1", "qwen_tp2"} -> Api \cup {"MAX_TOKENS"}
      [] served = "deepseek" -> IF rank = 0 THEN Api \cup {"MAX_TOKENS"} ELSE {}

\* Variables it turns into a flag when they are there.
Optional == CASE served = "glm" -> {"NO_DRAFTS", "MTP_DRAFTS"}
              [] served \in {"qwen_tp1", "qwen_tp2"} -> {"NO_DRAFTS"}
              [] served = "deepseek" -> {}

\* Variables it refuses.
RefusedVariables == IF served = "qwen_tp1" THEN {"DRAFTER", "MTP_DRAFTS"} ELSE {}

\* EXTRA_ARGS go last, and the last flag wins; the DeepSeek lanes take none.
Args(rank) ==
    LET flags == Restrict(EngineEnv, (Needed(rank) \cup Optional) \cap DOMAIN EngineEnv)
        extra == IF "EXTRA_ARGS" \notin DOMAIN EngineEnv \/ (served = "deepseek" /\ rank = 1) THEN {}
                 ELSE DOMAIN config["extra_args"]
    IN [v \in extra \cup DOMAIN flags |-> IF v \in extra THEN config["extra_args"][v] ELSE flags[v]]

EnvAccepted(rank) ==
    Needed(rank) \subseteq DOMAIN EngineEnv /\ RefusedVariables \cap DOMAIN EngineEnv = {}

\* rdma_devices: exact names on port 1, TF_RDMA_DEVICES before NCCL_IB_HCA.
Hca == IF rdma.tf # Unset THEN rdma.tf ELSE rdma.nccl
DeviceOk(item) == item.port \in {Unset, 1} /\ item.name \in Devices
RdmaAccepted == Hca = Unset \/ (~Hca.except /\ \A i \in DOMAIN Hca.items : DeviceOk(Hca.items[i]))
RdmaDevices == IF Hca = Unset THEN <<>> ELSE [i \in DOMAIN Hca.items |-> Hca.items[i].name]
-----------------------------------------------------------------------------
(* The entrypoint in its container.                                        *)

Link(view, name, to) == [at |-> <<view, name>>, to |-> to]

ModelLinks == {Link("model", n, "snapshot") : n \in Weights \ {Template}} \cup {Link("model", Template, "site")}
KitLinks == {Link("kit", n, "snapshot") : n \in KitFiles} \cup {Link("vision", n, "snapshot") : n \in VisionFiles \ {Bias}}
EngramLinks == {Link("engram", n, "snapshot") : n \in Shards}

LinksOf(s) == CASE s = "model" -> ModelLinks [] s = "kit" -> KitLinks [] s = "engram" -> EngramLinks [] OTHER -> {}
After(s) == CASE s = "model" -> "kit" [] s = "kit" -> "bias" [] s = "bias" -> "engram" [] s = "engram" -> "command"

Goto(r, s) == stage' = [stage EXCEPT ![r] = s] /\ linksLeft' = [linksLeft EXCEPT ![r] = LinksOf(s)]
Exits(r) == Goto(r, "failed")

StartInit ==
    /\ served \in EnginesServed /\ config \in Configs /\ skip \in Skips /\ rdma \in Rdma
    /\ weights \in [{0, 1} -> {"locked", "other"}]
    /\ hub \in [{0, 1} -> [Shards -> {"missing", "locked", "other"}]]
    /\ inputs = [r \in {0, 1} |-> FALSE]
    /\ stage = [r \in {0, 1} |-> "down"] /\ linksLeft = [r \in {0, 1} |-> {}] /\ views = [r \in {0, 1} |-> {}]
    /\ kills = 0

\* main of the DeepSeek entrypoint begins with rmtree of the views.
Removed(r) == [views EXCEPT ![r] = {}]
BeginStart(r) ==
    /\ r \in Ranks /\ stage[r] = "down"
    /\ IF "MODEL_PATH" \notin DOMAIN EngineEnv THEN Exits(r) /\ UNCHANGED views
       ELSE IF served = "deepseek" THEN Goto(r, "model") /\ views' = Removed(r)
       ELSE Goto(r, "command") /\ UNCHANGED views
    /\ UNCHANGED <<given, hub, inputs, kills>>

\* A shard must be there and be the locked blob.
ShardOk(r, shard) == hub[r][shard] = "locked"
LinkOne(r) ==
    /\ linksLeft[r] # {}
    /\ \E l \in linksLeft[r] :
          IF (\E old \in views[r] : old.at = l.at) \/ (stage[r] = "engram" /\ ~ShardOk(r, l.at[2]))
          THEN Exits(r) /\ UNCHANGED views
          ELSE /\ views' = [views EXCEPT ![r] = @ \cup {l}] /\ linksLeft' = [linksLeft EXCEPT ![r] = @ \ {l}]
               /\ UNCHANGED stage
    /\ UNCHANGED <<given, hub, inputs, kills>>

EndLoop(r) ==
    /\ stage[r] \in {"model", "kit", "engram"} /\ linksLeft[r] = {}
    /\ views' = IF stage[r] = "engram" THEN [views EXCEPT ![r] = @ \cup {Link("engram", Index, "site")}] ELSE views
    /\ Goto(r, After(stage[r]))
    /\ UNCHANGED <<given, hub, inputs, kills>>

\* Mutant: whatever bias file is there is used.
AnyBias(r) == TRUE
\* make_bias_vl.py writes the routing bias from the weights of the view; it must
\* hash to the lock's.
BiasOk(r) == weights[r] = "locked"
MakeBias(r) ==
    /\ stage[r] = "bias"
    /\ views' = [views EXCEPT ![r] = {l \in @ : l.at # <<"vision", Bias>>} \cup {Link("vision", Bias, weights[r])}]
    /\ IF BiasOk(r) THEN Goto(r, After("bias")) ELSE Exits(r)
    /\ UNCHANGED <<given, hub, inputs, kills>>

\* command() and exec.
CommandOk(r) == EnvAccepted(r) /\ (served = "deepseek" => RdmaAccepted /\ inputs[r])
Exec(r) ==
    /\ stage[r] = "command"
    /\ Goto(r, IF CommandOk(r) THEN "running" ELSE "failed")
    /\ UNCHANGED <<given, hub, inputs, views, kills>>

Entrypoint(r) == BeginStart(r) \/ LinkOne(r) \/ EndLoop(r) \/ MakeBias(r) \/ Exec(r)

\* The operator stages what a rank reads, and launches again what failed.
StageShard(r) ==
    /\ \E s \in Shards : hub[r][s] # "locked" /\ hub' = [hub EXCEPT ![r][s] = "locked"]
    /\ UNCHANGED <<given, inputs, stage, linksLeft, views, kills>>
StageInputs(r) ==
    /\ ~inputs[r] /\ inputs' = [inputs EXCEPT ![r] = TRUE]
    /\ UNCHANGED <<given, hub, stage, linksLeft, views, kills>>
Relaunch(r) ==
    /\ stage[r] = "failed" /\ Goto(r, "down")
    /\ UNCHANGED <<given, hub, inputs, views, kills>>

\* The container is killed; it is started again, or made anew without its /tmp.
ContainerKilled(r) ==
    /\ kills < MaxKills /\ stage[r] \notin {"down", "failed"} /\ kills' = kills + 1
    /\ Goto(r, "down") /\ \E kept \in {views[r], {}} : views' = [views EXCEPT ![r] = kept]
    /\ UNCHANGED <<given, hub, inputs>>

StartNext == \E r \in Ranks : Entrypoint(r) \/ StageShard(r) \/ StageInputs(r) \/ Relaunch(r) \/ ContainerKilled(r)

\* A running entrypoint goes on, and the operator stages everything and tries again.
StartFairness == \A r \in {0, 1} :
    /\ WF_startVars(r \in Ranks /\ Entrypoint(r)) /\ WF_startVars(r \in Ranks /\ Relaunch(r))
    /\ WF_startVars(r \in Ranks /\ StageShard(r)) /\ WF_startVars(r \in Ranks /\ StageInputs(r))
StartSpec == StartInit /\ [][StartNext]_startVars /\ StartFairness
-----------------------------------------------------------------------------
(* Properties.                                                             *)

Stages == {"down", "model", "kit", "bias", "engram", "command", "running", "failed"}

\* One link per name under /tmp/dsv41, in an order the entrypoint can be in.
StartTypeOK ==
    /\ stage \in [{0, 1} -> Stages] /\ kills \in 0 .. MaxKills
    /\ \A r \in {0, 1} : /\ linksLeft[r] \subseteq LinksOf(stage[r])
                         /\ \A l, m \in views[r] : l.at = m.at => l = m

\* A DeepSeek engine runs on exactly what the lock names, whatever an earlier
\* attempt in this container left and whatever is being staged: the site's chat
\* template over the locked weights, the bias made from them, every shard with
\* its locked content and the index, and nothing else.
ViewsAreLocked ==
    \A r \in Ranks : served = "deepseek" /\ stage[r] = "running" =>
       /\ weights[r] = "locked" /\ \A s \in Shards : hub[r][s] = "locked"
       /\ {l.at : l \in views[r]} =
             ({"model"} \X Weights) \cup ({"kit"} \X KitFiles) \cup ({"vision"} \X VisionFiles)
             \cup ({"engram"} \X (Shards \cup {Index}))
       /\ \A l \in views[r] : l.to # "snapshot" <=> l.at \in {<<"model", Template>>, <<"vision", Bias>>, <<"engram", Index>>}

\* What the operator sets is never silently dropped by the engines that have a
\* flag for it: a rank 0 of GLM or of the one-Spark engine runs with every
\* setting, except where the recipe's extra arguments repeat the flag or its
\* command already carries it.
NothingIgnored ==
    served \in {"glm", "qwen_tp1"} /\ stage[0] = "running" =>
       \A s \in SettingKeys \ (skip \cup {"extra_args"}) :
          config[s] # Unset /\ (s = "no_drafts" => config[s] \in Truthy) =>
             LET v == VariableOf[s] IN
             /\ v \in DOMAIN Args(0)
             /\ v \notin DOMAIN config["extra_args"] => Args(0)[v] = Value(s)

\* "a recipe's own serve flags win over the kit's defaults".
ExtraWins ==
    \A r \in Ranks : stage[r] = "running" /\ "extra_args" \notin skip /\ ~(served = "deepseek" /\ r = 1) =>
       \A v \in DOMAIN config["extra_args"] : Args(r)[v] = config["extra_args"][v]

\* Two ranks that both run hold the same weights and window, except where extra
\* arguments give the DeepSeek server another than its lanes.
RanksAgree ==
    stage[0] = "running" /\ stage[1] = "running" =>
       \A v \in {"MODEL_PATH", "CONTEXT"} :
          (served = "deepseek" => v \notin DOMAIN config["extra_args"]) => Args(0)[v] = Args(1)[v]

\* The engine opens each named device, all of its ports being port 1, and an
\* exclusion list never starts it.
RdmaExact ==
    \A r \in Ranks : served = "deepseek" /\ stage[r] = "running" /\ Hca # Unset =>
       /\ ~Hca.except /\ \A i \in DOMAIN Hca.items : Hca.items[i].port # 2
       /\ Range(RdmaDevices) \subseteq Devices

\* With settings the entrypoint accepts and the right weights, every rank runs
\* in the end, whatever was killed half way through making the views.
Servable == (served = "deepseek" => RdmaAccepted) /\ \A r \in Ranks : EnvAccepted(r) /\ weights[r] = "locked"
EverServes == Servable => <>[](\A r \in Ranks : stage[r] = "running")

\* An engine that runs serves the locked files with every setting it was given, alike on
\* both ranks and on the devices named.
StartSafe == StartTypeOK /\ ViewsAreLocked /\ NothingIgnored /\ ExtraWins /\ RanksAgree /\ RdmaExact
=============================================================================
