------------------------------- MODULE MCServing ------------------------------
\* What the engines on the Sparks are served from: the review of the pins with the launch of
\* what it accepted, or the bundle of one mod; the other stands at one initial state.
EXTENDS ServingPins, ModBundle, TLC

VARIABLE part
Parts == {"pins", "bundle"}

P(digits) == <<digits, 1>>
Changed(digits) == <<digits, 2>>
Zero(digits) == <<digits, 0>>
Tag(name, tag) == [name |-> name, tag |-> tag, digest |-> Absent]
Registry(name) == [name |-> name, tag |-> <<>>, digest |-> P(64)]
Base == Registry("base")
Patch == [file |-> "p", base |-> P(40), commit |-> P(40)]
Files == [p |-> P(64), q |-> P(64)]

GlmLock ==
  [engine_repository |-> "e", engine_revision |-> P(40), image |-> Registry("glm"), image_id |-> P(64),
   mod_files |-> Files, kit_repository |-> "k", kit_revision |-> P(40), upstream_patch_count |-> 2,
   upstream_patch_hash |-> P(12), engine_version |-> "1", launcher_env |-> [v |-> "1"],
   installed_files |-> [f |-> [upstream |-> P(64), site |-> Changed(64)]]]
OneLock ==
  [engine_repository |-> "e", engine_revision |-> P(40), image |-> Tag("qwen", <<P(40), P(12)>>), image_id |-> Changed(64),
   mod_files |-> Files, kit_repository |-> "k", kit_revision |-> P(40), engine_branch |-> "b",
   weights |-> [repository |-> "o/qwen", revision |-> P(40)], server_patches |-> <<Patch>>,
   build |-> [base_image |-> Base, zig_sha256 |-> P(64)], kit_patch_count |-> 2, kit_patches_sha256 |-> P(64)]
TwoLock ==
  [engine_repository |-> "e", engine_revision |-> P(40), image |-> Registry("two"), image_id |-> P(64),
   mod_files |-> Files, kit_repository |-> "k", kit_revision |-> P(40), engine_branch |-> "b",
   weights |-> [repository |-> "o/qwen", revision |-> P(40)], server_patches |-> <<Patch>>,
   build |-> [base_image |-> Base, zig_sha256 |-> P(64), kit_patches_sha256 |-> P(64),
              published_binary_sha256 |-> P(64), fatbin_layer |-> P(64)],
   upstream_patch_count |-> 2, upstream_patch_hash |-> P(12),
   site_patches |-> <<[file |-> "q", sha256 |-> P(64)]>>, binary_sha256 |-> P(64)]
SeekLock ==
  [engine_repository |-> "e", engine_revision |-> P(40), image |-> Tag("seek", <<P(40), P(40), 1>>), image_id |-> <<64, 3>>,
   mod_files |-> Files, engine_branch |-> "b", inputs_branch |-> "b", inputs_revision |-> P(40), patches |-> {"p"},
   kit |-> [repository |-> "o/kit", revision |-> P(40), bias_vl_sha256 |-> P(64)],
   engram |-> [repository |-> "o/engram", revision |-> P(40), files |-> [s1 |-> P(64)] @@ ("config.json" :> P(40))]]
GateLock == [mod_files |-> Files]

Mod(lock, froms) == [lock |-> lock, froms |-> froms, shards |-> {"s1"}, patchFiles |-> {"p"}, patchBytes |-> 1]
Mods == [glm |-> Mod(GlmLock, Absent), one |-> Mod(OneLock, {BaseImage}), two |-> Mod(TwoLock, {BaseImage}),
         seek |-> Mod(SeekLock, {Base})]
        @@ ("tensorfold-readiness" :> Mod(GateLock, Absent)) @@ ("tensorfold-readiness-v2" :> Mod(GateLock, Absent))

Defaults(nodes) == [tensor_parallel |-> nodes, entrypoint |-> "tensorfold-entrypoint", served_model_name |-> "m", context |-> 1]
Gate == <<[context |-> 1, model |-> "m", spill |-> FALSE]>>
Meta(stem) == [profile |-> stem, target_model_revision |-> P(40), engine_revision |-> P(40)]
QwenMeta(stem, count) == Meta(stem) @@ [kit_revision |-> P(40), upstream_patch_count |-> 2, server_patch_count |-> count]
Recipe(engine, gate, nodes, model, container, meta) ==
  [mods |-> <<engine, gate>>, engine |-> CASE engine = "one" -> "qwen_tp1" [] engine = "two" -> "qwen_tp2"
                                           [] engine = "seek" -> "deepseek" [] OTHER -> "glm",
   min_nodes |-> nodes, max_nodes |-> nodes, model |-> <<"repo", model>>, revision |-> P(40), container |-> container,
   metadata |-> meta, defaults |-> Defaults(nodes), entries |-> {<<model, P(40)>>}, env |-> <<>>, gates |-> Gate]
Drafter == [drafter |-> <<"repo", "o/draft">>, drafter_revision |-> P(40)]
V1 == "tensorfold-readiness"
V2 == "tensorfold-readiness-v2"
GlmRecipe ==
  [Recipe("glm", V2, 2, "o/glm", <<"image", Registry("glm")>>,
          Meta("g") @@ [kit_revision |-> P(40), upstream_patch_count |-> 2, upstream_patch_hash |-> P(12),
                        draft_model_revision |-> P(40), serving_profile |-> "durable"])
     EXCEPT !.defaults = @ @@ Drafter, !.entries = @ \cup {<<"o/draft", P(40)>>}, !.env = [v |-> "1", w |-> "2"],
            !.gates[1].spill = TRUE]
OneRecipe == Recipe("one", V1, 1, "o/qwen", <<"id", Changed(64)>>, QwenMeta("o", 1))
TwoRecipe == Recipe("two", V1, 2, "o/qwen", <<"image", Registry("two")>>, QwenMeta("t", 2) @@ [upstream_patch_hash |-> P(12)])
SeekRecipe == [Recipe("seek", V2, 2, "o/seek", <<"id", <<64, 3>>>>, Meta("s") @@ [image |-> SeekLock.image])
                 EXCEPT !.entries = @ \cup {<<"o/kit", P(40)>>}]

Checkout == [mods |-> Mods, recipes |-> [g |-> GlmRecipe, o |-> OneRecipe, t |-> TwoRecipe, s |-> SeekRecipe]]

\* Edits the review need not refuse: an alias of an image, no durable serving, a
\* revision moved in lock and recipe alike.
Harmless == {Checkout,
  [Checkout EXCEPT !.mods["two"].lock.image = Registry("glm"), !.recipes["t"].container = <<"image", Registry("glm")>>,
                   !.recipes["g"].metadata.serving_profile = "quick", !.recipes["g"].gates[1].spill = FALSE,
                   !.mods["glm"].lock.engine_revision = Changed(40), !.recipes["g"].metadata.engine_revision = Changed(40)]}

\* One field of a lock or a file of a mod is not what it was.
EditedLocks ==
  {[Checkout EXCEPT !.mods[m].lock.image_id = Zero(64)] : m \in {"glm", "one", "two", "seek"}}
  \cup {[Checkout EXCEPT !.mods[m].lock.engine_revision = Changed(40)] : m \in {"glm", "one", "two", "seek"}}
  \cup {[Checkout EXCEPT !.mods[V1].lock = Absent],
        [Checkout EXCEPT !.mods["one"].lock.kit_revision = Changed(40)],
        [Checkout EXCEPT !.mods["one"].froms = {Tag("base", <<>>)}],
        [Checkout EXCEPT !.mods["seek"].patchBytes = 2],
        [Checkout EXCEPT !.mods["two"].lock.site_patches[1].sha256 = Changed(64)],
        [Checkout EXCEPT !.mods["two"].lock = OneLock @@ [binary_sha256 |-> P(64)]],
        [Checkout EXCEPT !.mods["glm"].lock.installed_files = [f |-> [upstream |-> P(64), site |-> Zero(64)]]],
        [Checkout EXCEPT !.mods["glm"].lock = [x \in DOMAIN GlmLock \ {"kit_revision"} |-> GlmLock[x]]],
        [Checkout EXCEPT !.mods["two"].lock.image = Registry("glm"), !.mods["two"].lock.image_id = Changed(64),
                         !.recipes["t"].container = <<"image", Registry("glm")>>]}

\* One field of a recipe is not.
EditedRecipes ==
  {[Checkout EXCEPT !.recipes[r].gates[1].context = 2] : r \in {"g", "o"}}
  \cup {[Checkout EXCEPT !.recipes[r].revision = Changed(40)] : r \in {"o", "s"}}
  \cup {[Checkout EXCEPT !.recipes["g"].entries = {<<"o/glm", P(40)>>}],
        [Checkout EXCEPT !.recipes["g"].defaults.drafter_revision = Changed(40)],
        [Checkout EXCEPT !.recipes["g"].defaults = Defaults(2)],
        [Checkout EXCEPT !.recipes["g"].gates[1].spill = FALSE],
        [Checkout EXCEPT !.recipes["g"].gates = @ \o Gate],
        [Checkout EXCEPT !.recipes["g"].env = [v |-> "2"]],
        [Checkout EXCEPT !.recipes["s"].entries = @ \ {<<"o/kit", P(40)>>}],
        [Checkout EXCEPT !.recipes["s"].defaults = @ @@ [model_path |-> <<"path", "x">>]],
        [Checkout EXCEPT !.recipes["t"].mods = <<"one", V1>>, !.recipes["t"].engine = "qwen_tp1"],
        [Checkout EXCEPT !.recipes["t"].mods = <<"two", V1, V2>>],
        [Checkout EXCEPT !.recipes = [g |-> GlmRecipe, o |-> OneRecipe, s |-> SeekRecipe]]}
MCTrees == Harmless \cup EditedLocks \cup EditedRecipes
MCRecipes == UNION {{t.recipes[r] : r \in DOMAIN t.recipes} : t \in MCTrees}

\* The trees that must pass are right however they are read.
ASSUME RightAssumption == \A t \in Reviewed : Right(t)

MCOverrides == {<<>>, [context |-> 2], [tensor_parallel |-> 1], Drafter}
Twins == Permutations(Contexts)

BundleStands == kind = "fixed" /\ out = None
PinsStand == tree = Checkout
-----------------------------------------------------------------------------
MCInit ==
    /\ part \in Parts
    /\ IF part = "bundle" THEN PinsStand ELSE BundleStands
    /\ ServingInit /\ BundleInit
MCNext ==
    \/ part = "pins" /\ ServingNext /\ UNCHANGED <<part, bundleVars>>
    \/ part = "bundle" /\ BundleNext /\ UNCHANGED <<part, servingVars>>
MCSpec == MCInit /\ [][MCNext]_<<part, servingVars, bundleVars>>
===============================================================================
