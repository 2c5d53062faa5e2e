\* One expression through two calls of the graph, from every kind of body.
CONSTANTS
    MaxExp = 3
    PowfAsPowiMax = 2
    ExactPowiMax = 3
    ReverseMin = 2
    MaxDegree = 4
    ExpLimit <- MCExpLimit
    LnFloor <- MCLnFloor
    Cases <- MCCases
    Over <- MCOver
    Maps <- MCMaps
    Pins <- MCPins
    Wrt <- MCWrt
    Points <- MCPoints
SPECIFICATION Spec
INVARIANTS BuildExact ExponentsFit RewritesExact TangentsExact AdjointsExact JacobianComplete AffineExact DegreesExact DerivativesNamed ImportsExact
