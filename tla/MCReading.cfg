SPECIFICATION Spec
CONSTANT Inputs <- MCInputs
INVARIANTS Reads NothingHidden Balanced CommentsVanish
