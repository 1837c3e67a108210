SPECIFICATION MCSpec
CHECK_DEADLOCK FALSE
SYMMETRY Twins
CONSTANTS
 Absent = Absent
 BaseImage = BaseImage
 Reviewed <- Harmless
 Unset = Unset
 Trees <- MCTrees
 Recipes <- MCRecipes
 Overrides <- MCOverrides
 Contexts = {c1, c2}
 Fabrics = {"cx7"}
 Heads = {"lan"}
 MaxLaunches = 2
 MaxDepth = 2
    Frozen = {"serve"}
    Entry = "serve"
    Patches = {"p1", "p2"}
    Strangers = {}
    Contents = {"a", "b"}
    Original = "a"
    Gone = Gone
    Linked = Linked
    None = None
    Torn = Torn
    MaxEdits = 1
INVARIANTS
    PinsSafe
    BundleSafe
