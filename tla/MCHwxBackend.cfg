CONSTANTS
    t1 = t1
    t2 = t2
    s1 = s1
    s2 = s2
    n1 = n1
    n2 = n2
    Thread = {t1, t2}
    Op = {"RELU", "TANH", "SIGMOID"}
    Shape = {s1, s2}
    ConfigOf <- Configs
    Compiled <- Binaries
    NoHwx = NoHwx
    NoConfig = NoConfig
    Names = {n1, n2}
    Requests <- SplitNames
    MaxCalls = 3
SPECIFICATION Spec
INVARIANTS
    Additive
    NoStubLeft
