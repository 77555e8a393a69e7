SPECIFICATION Spec
INVARIANTS
    ActiveMatchesSpec
