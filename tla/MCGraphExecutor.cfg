CONSTANTS
    Shape <- Tiles
    Tile <- Tiles
    Call <- AnyCalls
    PathB = TRUE
    MaxInputs = 1
    MaxNodes = 3
    MaxOutputs = 2
    MaxRuns = 2
SPECIFICATION Spec
INVARIANTS
    PlanConsistent
    KahnRight
    ResultsRightInOrder
    FalseOnlyOnFault
    ProgramsOwned
PROPERTIES
    Returns
