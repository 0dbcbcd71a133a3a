CONSTANTS
    Shape <- ValidShapes
    Call <- Calls
    MaxInputs = 1
    MaxNodes = 1
    MaxOutputs = 1
    SeqAlign = 2
    MaxSeq = 8
    MaxC = 8
    Sample <- Table
    PathB = TRUE
    Lane = 4
    MinAlloc = 8
    MaxIter = 3
    ExpBits = 3
    ManBits = 3
    WideExpBits = 5
    WideManBits = 5
    Graphs <- Single
SPECIFICATION Spec
INVARIANT
    ConcatTypesRight
