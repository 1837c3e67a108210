--------------------------- MODULE TensorFoldLaunch ---------------------------
(***************************************************************************)
(* How a recipe becomes running ranks: the runtime plugin                  *)
(* (sparks/inference/sparkrun/plugins/tensorfold), which SparkRun calls    *)
(* for the command of each rank, and the entrypoint serve.py of each mod,  *)
(* which turns the environment of that command into an engine.             *)
(*                                                                         *)
(* SparkRun launches from several contexts at once and may launch from     *)
(* inside a launch; the head's fabric address travels in a ContextVar      *)
(* beside its calls.  A recipe is a record.  Where a model is read from is *)
(* <<"hub", repository, revision>>, a snapshot of the hub cache, or        *)
(* <<"path", p>>; a drafter may also be <<"repo", r>>, a name with an      *)
(* owner, or <<"bare", n>>, one without.                                   *)
(***************************************************************************)
EXTENDS Integers, Sequences, FiniteSets

CONSTANTS
    Recipes,    \* recipes that are launched
    Overrides,  \* what a launch may set: functions from some of Keys
    Contexts,   \* execution contexts of SparkRun
    Fabrics,    \* CX7 addresses of heads
    Heads,      \* management addresses of heads
    Unset,      \* a key without a value
    MaxLaunches, MaxDepth  \* bounds: launches in all, launches inside one another

Keys == {"model_path", "model_revision", "drafter", "drafter_revision",
         "tensor_parallel", "other_parallel", "entrypoint", "served_model_name", "context"}

ASSUME LaunchAssumption ==
    /\ \A o \in Overrides : DOMAIN o \subseteq Keys /\ \A key \in DOMAIN o : o[key] # Unset
    /\ Unset \notin Fabrics \cup Heads
    /\ MaxLaunches \in Nat /\ MaxDepth \in Nat

VARIABLES
    stack,         \* launches under way, by context, the innermost last
    fabricMaster,  \* _FABRIC_MASTER, by context
    launched,      \* launches begun
    commands       \* history: the commands generated, each with its launch
launchVars == <<stack, fabricMaster, launched, commands>>

LaunchInit ==
    /\ stack = [c \in Contexts |-> <<>>] /\ fabricMaster = [c \in Contexts |-> Unset]
    /\ launched = 0 /\ commands = {}
-----------------------------------------------------------------------------
(* A recipe under the overrides of a launch.                               *)

\* An override, else the recipe's default; _config_get takes empty for unset.
Config(recipe, overrides, key) ==
    IF key \in DOMAIN overrides THEN overrides[key]
    ELSE IF key \in DOMAIN recipe.defaults THEN recipe.defaults[key] ELSE Unset

\* TOPOLOGIES: the tensor parallelism of one node, and of two.
Topologies == <<1, 2>>

\* _topology_issues and _parallelism_issues; other_parallel stands for the
\* pipeline, data, expert and context dimensions, 1 in every recipe.
FitsTopology(recipe, overrides) ==
    /\ recipe.min_nodes \in DOMAIN Topologies
    /\ recipe.max_nodes \in {Unset, recipe.min_nodes}
    /\ Config(recipe, overrides, "tensor_parallel") = Topologies[recipe.min_nodes]
    /\ Config(recipe, overrides, "other_parallel") \in {Unset, 1}

\* _launch_issues: the declared nodes must match the launch.
LaunchFits(recipe, overrides, nodes) ==
    recipe.min_nodes = nodes /\ FitsTopology(recipe, overrides)

\* hf_snapshot_path: where the hub cache keeps a revision, and parse_hf_snapshot,
\* which recognises such a place and gives both back.
Snapshot(repository, revision) == <<"hub", repository, revision>>
InSnapshot(place) == place[1] = "hub"

AbsolutePath(place) == place # Unset /\ place[1] = "path"

\* _model_path, Unset where it raises.
ModelPath(recipe, overrides) ==
    LET explicit == Config(recipe, overrides, "model_path")
        revision == IF Config(recipe, overrides, "model_revision") # Unset
                    THEN Config(recipe, overrides, "model_revision") ELSE recipe.revision
    IN IF explicit # Unset THEN explicit
       ELSE IF AbsolutePath(recipe.model) THEN recipe.model
       ELSE IF recipe.model # Unset /\ revision # Unset THEN Snapshot(recipe.model[2], revision)
       ELSE Unset

\* _drafter_path: what the engine reads.
DrafterPath(recipe, overrides) ==
    LET drafter == Config(recipe, overrides, "drafter")
        revision == Config(recipe, overrides, "drafter_revision")
    IN IF drafter # Unset /\ drafter[1] \in {"repo", "bare"} /\ revision # Unset
       THEN Snapshot(drafter[2], revision) ELSE drafter

\* _drafter_repo, added by prepare to what SparkRun distributes.
DrafterRepo(recipe, overrides) ==
    LET drafter == Config(recipe, overrides, "drafter")
    IN IF drafter = Unset \/ drafter[1] \in {"path", "bare"} THEN {}
       ELSE IF InSnapshot(drafter) THEN {<<drafter[2], drafter[3]>>}
       ELSE {<<drafter[2], Config(recipe, overrides, "drafter_revision")>>}

Distributed(recipe, overrides) == recipe.entries \cup DrafterRepo(recipe, overrides)

\* validate_recipe, as SparkRun calls it without overrides.
ValidForRuntime(recipe) ==
    /\ FitsTopology(recipe, <<>>)
    /\ \A key \in {"entrypoint", "served_model_name", "context"} : Config(recipe, <<>>, key) # Unset
    /\ ModelPath(recipe, <<>>) # Unset
-----------------------------------------------------------------------------
(* Launching.                                                              *)

Ranks == {0, 1}

Top(c) == stack[c][Len(stack[c])]

\* _run_cluster sets the address of this launch, or that there is none, whatever
\* the launch around it had.
RunCluster(c, recipe) ==
    /\ launched < MaxLaunches /\ Len(stack[c]) < MaxDepth
    /\ launched' = launched + 1
    /\ ValidForRuntime(recipe)
    /\ \E overrides \in Overrides, address \in Fabrics \cup {Unset}, head \in Heads :
          /\ stack' = [stack EXCEPT ![c] = Append(@,
                [id |-> launched', recipe |-> recipe, overrides |-> overrides, address |-> address,
                 head |-> head, token |-> fabricMaster[c]])]
          /\ fabricMaster' = [fabricMaster EXCEPT ![c] = address]
    /\ UNCHANGED commands

\* The finally: however the launch ends.
LaunchEnds(c) ==
    /\ stack[c] # <<>>
    /\ fabricMaster' = [fabricMaster EXCEPT ![c] = Top(c).token]
    /\ stack' = [stack EXCEPT ![c] = SubSeq(@, 1, Len(@) - 1)]
    /\ UNCHANGED <<launched, commands>>

\* generate_node_command, for the nodes and rank SparkRun has placed; it raises
\* for another shape.
NodeCommand(c, nodes, rank) ==
    /\ stack[c] # <<>>
    /\ LET l == Top(c)
       IN IF nodes = 2 /\ rank \in Ranks /\ LaunchFits(l.recipe, l.overrides, 2)
             /\ ModelPath(l.recipe, l.overrides) # Unset
          THEN /\ commands' = commands \cup {[launch |-> l, nodes |-> nodes, rank |-> rank,
                                              master |-> l.head, fabric |-> fabricMaster[c]]}
               /\ UNCHANGED <<stack, fabricMaster, launched>>
          ELSE LaunchEnds(c)

\* generate_command outside a cluster: no rendezvous variables at all.
OneNodeCommand(recipe) ==
    /\ launched < MaxLaunches /\ launched' = launched + 1
    /\ ValidForRuntime(recipe)
    /\ \E overrides \in Overrides :
          /\ LaunchFits(recipe, overrides, 1) /\ ModelPath(recipe, overrides) # Unset
          /\ commands' = commands \cup
                {[launch |-> [id |-> launched', recipe |-> recipe, overrides |-> overrides,
                              address |-> Unset, head |-> Unset, token |-> Unset],
                  nodes |-> 1, rank |-> 0, master |-> Unset, fabric |-> Unset]}
    /\ UNCHANGED <<stack, fabricMaster>>

LaunchOf(recipes) ==
    \/ \E recipe \in recipes : OneNodeCommand(recipe) \/ \E c \in Contexts : RunCluster(c, recipe)
    \/ \E c \in Contexts : LaunchEnds(c) \/ \E nodes \in 1 .. 2, rank \in 0 .. 2 : NodeCommand(c, nodes, rank)
LaunchNext == LaunchOf(Recipes)
LaunchSpec == LaunchInit /\ [][LaunchNext]_launchVars
-----------------------------------------------------------------------------
(* The entrypoints, on the environment of a command.                       *)

\* The address a rank's engine meets the other one at.
MeetsAt(command) == IF command.fabric # Unset THEN command.fabric ELSE command.master

\* GLM falls back to SparkRun's address, the two-rank Zig engines refuse to start
\* without the fabric's, and the one-rank engine refuses a rank and a drafter.
Starts(command) ==
    LET recipe == command.launch.recipe
    IN CASE recipe.engine = "glm" -> command.nodes = 2 /\
                                     DrafterPath(recipe, command.launch.overrides) # Unset
         [] recipe.engine \in {"deepseek", "qwen_tp2"} -> command.nodes = 2 /\ command.fabric # Unset
         [] recipe.engine = "qwen_tp1" -> command.nodes = 1 /\
                                     DrafterPath(recipe, command.launch.overrides) = Unset
-----------------------------------------------------------------------------
(* Properties.                                                             *)

LaunchTypeOK ==
    /\ \A c \in Contexts : /\ Len(stack[c]) <= MaxDepth
                           /\ \A i \in DOMAIN stack[c] : stack[c][i].id \in 1 .. launched
    /\ fabricMaster \in [Contexts -> Fabrics \cup {Unset}]
    /\ launched \in 0 .. MaxLaunches
    /\ \A k \in commands : k.launch.id \in 1 .. launched /\ k.rank \in {0, 1}

\* "per context so nested or concurrent launches keep their own": whatever
\* launches run beside it or inside it, raise or return, every command carries
\* the address of the launch it was generated for, and none if it has none.
OwnFabric == \A k \in commands : k.fabric = k.launch.address

\* The two ranks of a launch meet each other: when both engines start they use
\* one address, the one this launch was given.
RanksMeet ==
    \A k, l \in {k \in commands : k.nodes = 2 /\ Starts(k)} :
       k.launch.id = l.launch.id =>
          /\ MeetsAt(k) = MeetsAt(l)
          /\ MeetsAt(k) \in {k.launch.address, k.launch.head}

\* "A launch override cannot move a recipe to the other shape": what is launched
\* has as many ranks as the recipe declares nodes, and that tensor parallelism.
ShapeKept ==
    \A k \in commands :
       /\ k.nodes = k.launch.recipe.min_nodes
       /\ Config(k.launch.recipe, k.launch.overrides, "tensor_parallel") = k.nodes
       /\ k.rank < k.nodes
=============================================================================
