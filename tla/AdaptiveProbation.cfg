\* A specialization that goes on holding past its probation.
CONSTANTS
    t1 = t1  t2 = t2  b1 = b1  b2 = b2  x1 = x1  x2 = x2
    Threads = {t1}
    Worker = Worker
    Bindings = {b1, b2}
    Points = {x1, x2}
    Selects <- MCSelects
    EntrySelects = {"param"}
    Takes <- MCTakes
    FullOps = 10
    SpecOps <- MCSpecOps
    Specializes = TRUE
    Jit = TRUE
    KickAfter = 2
    EagerPass = FALSE
    FlipCooldown = 0
    ThrashFlips = 5
    ThrashEvals = 1
    MinShrinkPct = 20
    SpecCompileAfter = 1
    SpecCompileBudget = 2
    SpecInterpCost = 1
    FullOutcomes = {"native"}
    SpecOutcomes = {"native"}
    CallKinds = {"prolog", "main"}
    MaxCalls = 9
    MaxBodyForms = 0
    Full = Full
    Garbage = Garbage
    None = None
SPECIFICATION Spec
CHECK_DEADLOCK FALSE
INVARIANTS HeldLongEnoughIsCompiled
