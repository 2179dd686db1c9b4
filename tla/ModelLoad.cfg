\* Two layers: a failure at any piece of any layer, and after the layers.
CONSTANT Layers = 2
SPECIFICATION LoadSpec
INVARIANTS NoLeak FreedOnce
CHECK_DEADLOCK FALSE
