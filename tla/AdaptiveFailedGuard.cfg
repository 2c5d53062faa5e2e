\* A guard of the compiled specialization fails after the full tape's code landed.
CONSTANTS
    t1 = t1  t2 = t2  b1 = b1  b2 = b2  x1 = x1  x2 = x2
    Threads = {t1}
    Worker = Worker
    Bindings = {b1, b2}
    Points = {x1, x2}
    Selects <- MCSelects
    EntrySelects = {"param"}
    Takes <- MCTakes
    FullOps = 10
    SpecOps <- MCSpecOps
    Specializes = TRUE
    Jit = TRUE
    KickAfter = 2
    EagerPass = FALSE
    FlipCooldown = 0
    ThrashFlips = 2
    ThrashEvals = 1
    MinShrinkPct = 20
    SpecCompileAfter = 1
    SpecCompileBudget = 2
    SpecInterpCost = 2
    FullOutcomes = {"native"}
    SpecOutcomes = {"native"}
    CallKinds = {"eval"}
    MaxCalls = 6
    MaxBodyForms = 0
    Full = Full
    Garbage = Garbage
    None = None
SPECIFICATION Spec
CHECK_DEADLOCK FALSE
PROPERTIES FailedGuardRetraces
