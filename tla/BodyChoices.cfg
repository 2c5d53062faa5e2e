\* Two fair callers, one form in the background and one that does all as it goes.
CONSTANTS
    t1 = t1  t2 = t2  interp = interp  native = native  x = x  y = y  z = z
    Threads = {t1, t2}
    Worker = Worker
    Forms = {interp, native}
    Compiles = {interp, native}
    Submits = {native}
    Compilable <- SomePins
    Selects <- MCSelects
    Instances = {x, y, z}
    Takes <- MCTakes
    Batches <- FewBatches
    Traced = 2
    MinSelects = 1
    MainOps = 10
    SpecOps <- MCSpecOps
    FlipCooldown = 0
    ThrashFlips = 3
    ThrashEvals = 2
    MinShrinkPct = 20
    MaxBatches = 3
    None = None
SPECIFICATION FairSpec
INVARIANTS SpecIsLearned OffHasNoSpec BuiltPerSelect
PROPERTIES FlipsAreOfSpec TracingEnds AskedCodeLands
