\* Copies of functions that derive after they were copied.
CONSTANTS
    MaxExp = 3
    PowfAsPowiMax = 2
    ExactPowiMax = 3
    ReverseMin = 2
    MaxDegree = 4
    ExpLimit <- MCExpLimit
    LnFloor <- MCLnFloor
    Cases <- MCCopyCases
    Over <- MCNothing
    Maps <- MCMaps
    Pins <- MCPins
    Wrt <- MCWrt
    Points <- MCPoints
SPECIFICATION Spec
INVARIANTS RewrittenExactly
