------------------------------ MODULE LockReview ------------------------------
(***************************************************************************)
(* sparks/inference/sparkrun/validate_locks.py: the review of the pins of  *)
(* the inference profiles.  It reads the lock of every mod, then every     *)
(* recipe, stops at the first disagreement, and last asks that no lock is  *)
(* left over.                                                              *)
(*                                                                         *)
(* A lock is a record with the fields of its JSON object.  A pin is        *)
(* <<digits, value>>, value 0 being all zeros; what has no pin in it       *)
(* (names, branches, versions) is reviewed data and its format left out.   *)
(***************************************************************************)
EXTENDS Integers, Sequences, FiniteSets

CONSTANTS
    Trees,      \* the source trees that may be reviewed
    Reviewed,   \* those of them that were reviewed by hand and found right
    BaseImage,  \* ${BASE_IMAGE} in a FROM line
    Absent      \* a field or file that is not there
ASSUME ReviewAssumption ==
    /\ Reviewed \subseteq Trees
    /\ \A t \in Trees : DOMAIN t.mods # {} /\ \A name \in DOMAIN t.recipes : t.recipes[name].mods \in Seq(STRING)

VARIABLES
    tree,       \* under review
    review,     \* "mods", "locks", "recipes", "accepted" or "rejected"
    manifests,  \* mods whose lock is still to read
    pages,      \* recipes still to read
    images,     \* config ID by image reference, of the engine locks read
    used        \* mods of the recipes read
reviewVars == <<tree, review, manifests, pages, images, used>>

Readiness == {"tensorfold-readiness", "tensorfold-readiness-v2"}  \* READINESS_MODS

\* SHAPES.
Common == {"engine_repository", "engine_revision", "image", "image_id", "mod_files"}
Kit    == {"kit_repository", "kit_revision"}
Qwen   == {"engine_branch", "weights", "server_patches", "build"}
Patched == {"upstream_patch_count", "upstream_patch_hash"}
Shapes ==
    [ glm |-> Common \cup Kit \cup Patched \cup {"engine_version", "launcher_env", "installed_files"},
      qwen_tp1 |-> Common \cup Kit \cup Qwen \cup {"kit_patch_count", "kit_patches_sha256"},
      qwen_tp2 |-> Common \cup Kit \cup Qwen \cup Patched \cup {"site_patches", "binary_sha256"},
      deepseek |-> Common \cup {"engine_branch", "inputs_branch", "inputs_revision", "patches", "kit", "engram"},
      readiness |-> {"mod_files"} ]

\* shape: the fields decide, in this order, and must then be exactly those.
Shape(name, lock) ==
    LET has == DOMAIN lock
    IN IF name \in Readiness THEN "readiness"
       ELSE IF has \cap {"launcher_env", "installed_files", "engine_version"} # {} THEN "glm"
       ELSE IF has \cap {"kit", "engram", "inputs_revision", "inputs_branch"} # {} THEN "deepseek"
       ELSE IF has \cap {"binary_sha256", "site_patches"} # {} THEN "qwen_tp2"
       ELSE IF has \cap {"weights", "kit_patch_count", "kit_patches_sha256"} # {} THEN "qwen_tp1"
       ELSE "unsupported"

\* hash_value: a full pin, and not zero.
Pin(value, digits) == value[1] = digits /\ value[2] # 0

\* The digits of the pins that are fields of their own.
PinDigits == [engine_revision |-> 40, kit_revision |-> 40, inputs_revision |-> 40, image_id |-> 64,
              upstream_patch_hash |-> 12, kit_patches_sha256 |-> 64, binary_sha256 |-> 64]
SourcePinned(source) == Pin(source.revision, 40)

\* An image is named with a digest (published) or with a local tag.
Published(image) == image.digest # Absent /\ Pin(image.digest, 64)

\* validate_dockerfile: a literal base or the declared one, and always immutable.
BaseOf(from, lock) == IF from = BaseImage THEN lock.build.base_image ELSE from
DockerfileOk(mod) ==
    mod.froms # Absent =>
       /\ mod.froms # {}
       /\ \A from \in mod.froms :
             /\ from = BaseImage => "build" \in DOMAIN mod.lock
             /\ Published(BaseOf(from, mod.lock))
             /\ "build" \in DOMAIN mod.lock => BaseOf(from, mod.lock) = mod.lock.build.base_image

GlmOk(lock) ==
    /\ Published(lock.image) /\ lock.upstream_patch_count > 0
    /\ \A file \in DOMAIN lock.installed_files :
          Pin(lock.installed_files[file].upstream, 64) /\ Pin(lock.installed_files[file].site, 64)

QwenOk(lock) ==
    /\ SourcePinned(lock.weights)
    /\ lock.server_patches # <<>>
    /\ \A i \in DOMAIN lock.server_patches :
          /\ lock.server_patches[i].file \in DOMAIN lock.mod_files
          /\ Pin(lock.server_patches[i].base, 40) /\ Pin(lock.server_patches[i].commit, 40)
    /\ Published(lock.build.base_image) /\ Pin(lock.build.zig_sha256, 64)

\* The local tag holds the kit's revision and a patch identifier.
QwenOneOk(lock) ==
    /\ QwenOk(lock)
    /\ lock.image.digest = Absent /\ lock.kit_patch_count > 0
    /\ lock.image.tag[1] = lock.kit_revision /\ Pin(lock.image.tag[2], 12)

QwenTwoOk(lock) ==
    /\ QwenOk(lock)
    /\ Published(lock.image) /\ lock.upstream_patch_count > 0
    /\ Pin(lock.build.kit_patches_sha256, 64) /\ Pin(lock.build.published_binary_sha256, 64)
    /\ Pin(lock.build.fatbin_layer, 64)
    /\ lock.site_patches # <<>>
    /\ \A i \in DOMAIN lock.site_patches :
          LET patch == lock.site_patches[i]
          IN Pin(patch.sha256, 64) /\ patch.file \in DOMAIN lock.mod_files
                                   /\ lock.mod_files[patch.file] = patch.sha256

\* The local tag holds the engine's and the inputs' revisions and the hash of the
\* patches as they are in the mod; the Engram files are the index's shards.
DeepseekOk(mod) ==
    LET lock == mod.lock
    IN /\ lock.image.digest = Absent
       /\ SourcePinned(lock.kit) /\ Pin(lock.kit.bias_vl_sha256, 64)
       /\ SourcePinned(lock.engram)
       /\ DOMAIN lock.engram.files = {"config.json"} \cup mod.shards
       /\ \A name \in DOMAIN lock.engram.files :
             Pin(lock.engram.files[name], IF name = "config.json" THEN 40 ELSE 64)
       /\ lock.patches # {} /\ lock.patches = DOMAIN lock.mod_files \cap mod.patchFiles
       /\ lock.image.tag = <<lock.engine_revision, lock.inputs_revision, mod.patchBytes>>

\* validate_lock.
LockOk(name, mod) ==
    LET lock == mod.lock
        kind == Shape(name, lock)
    IN /\ kind # "unsupported" /\ DOMAIN lock = Shapes[kind]
       /\ lock.mod_files # <<>> /\ \A file \in DOMAIN lock.mod_files : Pin(lock.mod_files[file], 64)
       /\ \A field \in DOMAIN lock \cap DOMAIN PinDigits : Pin(lock[field], PinDigits[field])
       /\ CASE kind = "glm" -> GlmOk(lock)
            [] kind = "qwen_tp1" -> QwenOneOk(lock)
            [] kind = "qwen_tp2" -> QwenTwoOk(lock)
            [] kind = "deepseek" -> DeepseekOk(mod)
            [] kind = "readiness" -> TRUE
       /\ kind # "readiness" => DockerfileOk(mod)
-----------------------------------------------------------------------------
(* A recipe, against the locks of its mods.                                *)

\* A field that may be missing.
Field(record, name) == IF name \in DOMAIN record THEN record[name] ELSE Absent

\* Sources of a recipe: the target, DeepSeek's kit, the drafter if there is one.
HasDrafter(kind, recipe) ==
    kind = "glm" \/ "drafter" \in DOMAIN recipe.defaults \/ "draft_model_revision" \in DOMAIN recipe.metadata
DrafterOk(recipe) ==
    /\ {"drafter", "drafter_revision"} \subseteq DOMAIN recipe.defaults
    /\ recipe.defaults.drafter[1] = "repo" /\ Pin(recipe.defaults.drafter_revision, 40)
    /\ Field(recipe.metadata, "draft_model_revision") = recipe.defaults.drafter_revision
ExpectedSources(kind, lock, recipe) ==
    {<<recipe.model[2], recipe.revision>>}
    \cup (IF kind = "deepseek" THEN {<<lock.kit.repository, lock.kit.revision>>} ELSE {})
    \cup (IF HasDrafter(kind, recipe)
          THEN {<<recipe.defaults.drafter[2], recipe.defaults.drafter_revision>>} ELSE {})

\* The recipe repeats what its lock says.
Container(kind, lock) ==
    IF kind \in {"qwen_tp1", "deepseek"} THEN <<"id", lock.image_id>> ELSE <<"image", lock.image>>
RepeatsLock(kind, lock, recipe) ==
    /\ recipe.container = Container(kind, lock)
    /\ \A key \in {"engine_revision", "kit_revision", "upstream_patch_count", "upstream_patch_hash"} \cap DOMAIN lock :
          Field(recipe.metadata, key) = lock[key]
    /\ kind = "qwen_tp1" => Field(recipe.metadata, "upstream_patch_count") = lock.kit_patch_count
    /\ kind \in {"qwen_tp1", "qwen_tp2"} =>
          /\ Field(recipe.metadata, "server_patch_count") =
                Len(lock.server_patches) + (IF kind = "qwen_tp2" THEN Len(lock.site_patches) ELSE 0)
          /\ lock.weights = [repository |-> recipe.model[2], revision |-> recipe.revision]
    /\ kind = "deepseek" \/ "image" \in DOMAIN recipe.metadata => Field(recipe.metadata, "image") = lock.image
    /\ kind = "glm" => \A name \in DOMAIN lock.launcher_env : Field(recipe.env, name) = lock.launcher_env[name]

\* One gate, that asks for what is served; it asks for the spill pool only of a
\* gate that can, and must for a durable profile.
GateOk(recipe, bundle) ==
    /\ Len(recipe.gates) = 1
    /\ LET gate == recipe.gates[1]
       IN /\ gate.spill => bundle = "tensorfold-readiness-v2"
          /\ bundle = "tensorfold-readiness-v2" /\ Field(recipe.metadata, "serving_profile") = "durable" => gate.spill
          /\ gate.context = recipe.defaults.context /\ gate.model = recipe.defaults.served_model_name

\* validate_recipe, against the locks of all mods.
RecipeOk(mods, stem, recipe) ==
    LET gateMods == {i \in DOMAIN recipe.mods : recipe.mods[i] \in Readiness}
        engines == DOMAIN recipe.mods \ gateMods
    IN /\ \A i \in DOMAIN recipe.mods : recipe.mods[i] \in DOMAIN mods
       /\ Cardinality(engines) = 1 /\ Cardinality(gateMods) = 1
       /\ \A e \in engines, g \in gateMods :
             LET lock == mods[recipe.mods[e]].lock
                 kind == Shape(recipe.mods[e], lock)
             IN /\ recipe.metadata.profile = stem
                /\ RepeatsLock(kind, lock, recipe)
                /\ recipe.model[1] = "repo" /\ Pin(recipe.revision, 40)
                /\ recipe.metadata.target_model_revision = recipe.revision
                /\ HasDrafter(kind, recipe) => DrafterOk(recipe)
                /\ \A entry \in recipe.entries : Pin(entry[2], 40)
                /\ recipe.entries = ExpectedSources(kind, lock, recipe)
                /\ recipe.defaults.entrypoint = "tensorfold-entrypoint"
                /\ recipe.defaults.context \in Nat \ {0}
                /\ GateOk(recipe, recipe.mods[g])
-----------------------------------------------------------------------------
(* The review.                                                             *)

ReviewInit ==
    /\ tree \in Trees /\ review = "mods"
    /\ manifests = DOMAIN tree.mods /\ pages = DOMAIN tree.recipes
    /\ images = <<>> /\ used = {}

Reject ==
    /\ review' = "rejected" /\ UNCHANGED <<tree, manifests, pages, images, used>>

\* Every mod has a lock, and there are some.
CheckMods ==
    /\ review = "mods"
    /\ IF \A name \in DOMAIN tree.mods : tree.mods[name].lock # Absent
       THEN review' = "locks" /\ UNCHANGED <<tree, manifests, pages, images, used>>
       ELSE Reject

\* Mutant: any image ID goes with a reference.
AnyReference(lock) == TRUE
\* A reference that was read before must have had this config ID.
SameConfig(lock) == lock.image \in DOMAIN images => images[lock.image] = lock.image_id

Learned(name, lock) ==
    IF name \in Readiness THEN images
    ELSE [reference \in {lock.image} \cup DOMAIN images |->
             IF reference = lock.image THEN lock.image_id ELSE images[reference]]

ReadLock(name) ==
    /\ review = "locks" /\ name \in manifests
    /\ LET lock == tree.mods[name].lock
       IN IF ~LockOk(name, tree.mods[name]) \/ (name \notin Readiness /\ ~SameConfig(lock)) THEN Reject
          ELSE /\ manifests' = manifests \ {name}
               /\ images' = Learned(name, lock)
               /\ review' = IF manifests' = {} THEN "recipes" ELSE review
               /\ UNCHANGED <<tree, pages, used>>

ReadRecipe(stem) ==
    /\ review = "recipes" /\ stem \in pages
    /\ IF ~RecipeOk(tree.mods, stem, tree.recipes[stem]) THEN Reject
       ELSE /\ pages' = pages \ {stem}
            /\ used' = used \cup {tree.recipes[stem].mods[i] : i \in DOMAIN tree.recipes[stem].mods}
            /\ UNCHANGED <<tree, review, manifests, images>>

\* There are recipes, and none of the locks is left over.
CheckUsed ==
    /\ review = "recipes" /\ pages = {}
    /\ review' = IF tree.recipes # <<>> /\ DOMAIN tree.mods \subseteq used THEN "accepted" ELSE "rejected"
    /\ UNCHANGED <<tree, manifests, pages, images, used>>

ReviewNext ==
    \/ CheckMods \/ CheckUsed
    \/ \E name \in manifests : ReadLock(name)
    \/ \E stem \in pages : ReadRecipe(stem)
ReviewSpec == ReviewInit /\ [][ReviewNext]_reviewVars
-----------------------------------------------------------------------------
(* Properties.                                                             *)

EngineMods == {name \in DOMAIN tree.mods : name \notin Readiness}

ReviewTypeOK ==
    /\ tree \in Trees /\ review \in {"mods", "locks", "recipes", "accepted", "rejected"}
    /\ manifests \subseteq DOMAIN tree.mods /\ pages \subseteq DOMAIN tree.recipes
    /\ \A name \in EngineMods \ manifests : tree.mods[name].lock.image \in DOMAIN images
    /\ used \subseteq DOMAIN tree.mods

\* A right tree, said without an order: every lock and recipe is right by itself, an
\* image reference means one image, and every mod has a recipe.
SomeRecipeUses(t, name) == \E stem \in DOMAIN t.recipes : \E i \in DOMAIN t.recipes[stem].mods : t.recipes[stem].mods[i] = name
OneImageEach(mods) ==
    \A a, b \in DOMAIN mods \ Readiness :
       mods[a].lock.image = mods[b].lock.image => mods[a].lock.image_id = mods[b].lock.image_id
Right(t) ==
    /\ \A name \in DOMAIN t.mods :
          t.mods[name].lock # Absent /\ LockOk(name, t.mods[name]) /\ SomeRecipeUses(t, name)
    /\ OneImageEach(t.mods)
    /\ \A stem \in DOMAIN t.recipes : RecipeOk(t.mods, stem, t.recipes[stem])

\* "validated before use": in an accepted tree an image reference means one image
\* whichever lock or recipe names it, and no mod is there that no recipe
\* was reviewed with; the order the locks are read in does not matter.
AcceptedIsConsistent ==
    review = "accepted" =>
       /\ OneImageEach(tree.mods)
       /\ \A name \in DOMAIN tree.mods : SomeRecipeUses(tree, name)

\* "Same ID under several aliases is valid", a durable profile may be turned off
\* and a pin moved in lock and recipe alike: no reading order refuses a right tree.
ReviewedTreePasses == tree \in Reviewed => review # "rejected"
=============================================================================
