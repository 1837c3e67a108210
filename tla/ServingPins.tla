----------------------------- MODULE ServingPins ------------------------------
(***************************************************************************)
(* The review of the pins together with the launch: a checkout is reviewed *)
(* (LockReview), and the recipes of an accepted one are launched           *)
(* (TensorFoldLaunch).  The two programs read the same recipe with code of *)
(* their own; nothing but the fields they both know makes them agree.      *)
(***************************************************************************)
EXTENDS LockReview, TensorFoldLaunch

\* The snapshots SparkRun distributes for a recipe.
Snapshots(recipe) == {<<"hub", entry[1], entry[2]>> : entry \in recipe.entries}

\* A default that is there has a value; the engine of a recipe is the serve.py of its
\* mod, whose kind a lock that is right says.
ASSUME PinsAssumption ==
    \A t \in Trees : \A stem \in DOMAIN t.recipes :
       LET recipe == t.recipes[stem]
       IN /\ \A key \in DOMAIN recipe.defaults : recipe.defaults[key] # Unset
          /\ Unset \notin Snapshots(recipe)
          /\ \A i \in DOMAIN recipe.mods :
                LET name == recipe.mods[i]
                IN name \in DOMAIN t.mods \ Readiness =>
                      t.mods[name].lock = Absent \/ ~LockOk(name, t.mods[name]) \/ recipe.engine = Shape(name, t.mods[name].lock)

servingVars == <<reviewVars, launchVars>>

LaunchReviewed ==
    /\ review = "accepted"
    /\ LaunchOf({tree.recipes[stem] : stem \in DOMAIN tree.recipes})
    /\ UNCHANGED reviewVars

ServingInit == ReviewInit /\ LaunchInit
ServingNext == LaunchReviewed \/ (ReviewNext /\ UNCHANGED launchVars)
ServingSpec == ServingInit /\ [][ServingNext]_servingVars
-----------------------------------------------------------------------------
(* Properties.                                                             *)

\* A launch that names no other model of its own, of a recipe whose defaults do not
\* redirect the model (which the review does not look at).
Redirects == {"model_path", "model_revision", "drafter", "drafter_revision"}
ByTheRecipe(launch) ==
    /\ DOMAIN launch.overrides \cap Redirects = {}
    /\ DOMAIN launch.recipe.defaults \cap {"model_path", "model_revision"} = {}

\* What was reviewed is what is served: the engine of such a launch reads its model
\* and drafter from pinned snapshots that are distributed to the nodes, nothing
\* unreviewed is added to the distribution, GLM gets the drafter it
\* cannot start without, and the readiness gate asks for the window and the name
\* the engine is told to serve.
ReviewedIsServed ==
    \A k \in commands :
       LET recipe == k.launch.recipe
           overrides == k.launch.overrides
       IN ByTheRecipe(k.launch) =>
             /\ ModelPath(recipe, overrides) \in Snapshots(recipe)
             /\ DrafterPath(recipe, overrides) \in Snapshots(recipe) \cup {Unset}
             /\ recipe.engine = "glm" => DrafterPath(recipe, overrides) # Unset
             /\ Distributed(recipe, overrides) = recipe.entries
             /\ \A entry \in recipe.entries : Pin(entry[2], 40)
             /\ DOMAIN overrides \cap {"context", "served_model_name"} = {} =>
                   /\ recipe.gates[1].context = Config(recipe, overrides, "context")
                   /\ recipe.gates[1].model = Config(recipe, overrides, "served_model_name")

\* A tree the review accepts is consistent, the reviewed one is accepted, and a launch by its
\* recipes serves exactly its pins, on meeting ranks with a fabric each.
PinsSafe ==
    /\ ReviewTypeOK /\ AcceptedIsConsistent /\ ReviewedTreePasses
    /\ LaunchTypeOK /\ OwnFabric /\ RanksMeet /\ ShapeKept
    /\ ReviewedIsServed
=============================================================================
