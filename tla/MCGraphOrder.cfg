CONSTANTS
    Shape <- Tiles
    Tile <- Tiles
    Call <- AnyCalls
    PathB = FALSE
    MaxInputs = 2
    MaxNodes = 2
    MaxOutputs = 1
    MaxRuns = 1
SPECIFICATION Spec
INVARIANT
    ResultsRight
