\* Two fair callers: a tape in the body's own form and as code compiled as it goes, each on the states of both, and a program compiled in the background.
CONSTANTS
    t1 = t1  t2 = t2  own = own  interp = interp  native = native  other = other
    pa = pa  pb = pb  b1 = b1  b2 = b2
    Threads = {t1, t2}
    Worker = Worker
    Forms = {own, native, other}
    Default = own
    Compiles = {native, other}
    Submits = {native}
    Specializing = {native, other}
    Wants = {native, other}
    Limit <- KeepUnlike
    Key <- MCKey
    Keys <- MCKeys
    Program <- MCProgram
    Programs <- MCPrograms
    Bindings = {b1, b2}
    Patterns = {pa, pb}
    PatternOf <- MCPatternOf
    Shorter = {pa, pb}
    Compilable = {Full, pa}
    MaxCalls = 3
    Full = Full
    Building = Building
    Garbage = Garbage
    None = None
SPECIFICATION FairSpec
INVARIANTS ResultsExact OneBodyPerPattern LandingsTold SharedForms
PROPERTIES SlotsSettle ServesInstances
