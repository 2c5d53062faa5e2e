\* The body itself and a program build at once.
CONSTANTS
    t1 = t1  t2 = t2  own = own  interp = interp  native = native  other = other
    pa = pa  pb = pb  b1 = b1  b2 = b2
    Threads = {t1, t2}
    Worker = Worker
    Forms = {own, interp}
    Default = own
    Compiles = {}
    Submits = {interp}
    Specializing = {own, interp}
    Wants = {own, interp}
    Limit <- KeepTwo
    Key <- MCKey
    Keys <- MCKeys
    Program <- MCProgram
    Programs <- MCPrograms
    Bindings = {b1, b2}
    Patterns = {pa, pb}
    PatternOf <- MCPatternOf
    Shorter = {pa, pb}
    Compilable = {Full, pa, pb}
    MaxCalls = 4
    Full = Full
    Building = Building
    Garbage = Garbage
    None = None
SPECIFICATION Spec
SYMMETRY Symmetry
INVARIANTS BodiesBounded
