\* Fair sessions of two threads, cooldowns; compiles that panic, and a large tape whose passes wait for them.
CONSTANTS
    t1 = t1  t2 = t2  b1 = b1  b2 = b2  x1 = x1  x2 = x2
    Threads = {t1, t2}
    Worker = Worker
    Bindings = {b1, b2}
    Points = {x1, x2}
    Selects <- MCSelects
    EntrySelects = {"param"}
    Takes <- MCTakes
    FullOps = 10
    SpecOps <- MCSpecOps
    Specializes = TRUE
    Jit = TRUE
    KickAfter = 1
    EagerPass = TRUE
    FlipCooldown = 1
    ThrashFlips = 2
    ThrashEvals = 1
    MinShrinkPct = 20
    SpecCompileAfter = 1
    SpecCompileBudget = 2
    SpecInterpCost = 2
    FullOutcomes = {"native", "panic"}
    SpecOutcomes = {"native"}
    CallKinds = {"prolog", "main"}
    MaxCalls = 3
    MaxBodyForms = 0
    Full = Full
    Garbage = Garbage
    None = None
SPECIFICATION FairSpec
CHECK_DEADLOCK FALSE
INVARIANTS SpecFollowsTrace
PROPERTIES KeepsPromise CompilesEnd
