SPECIFICATION Spec
CONSTANTS
    Whats = {"New", "ErrUnsupported", "Renamed", "Linked", "Built", "ByHand", "Value", "Println", "Errforge"}
    MaxUses = 3
INVARIANT FixedFileCompiles
PROPERTY FixesConverge
CHECK_DEADLOCK FALSE
