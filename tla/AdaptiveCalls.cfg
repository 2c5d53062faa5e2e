\* Two threads, whole evaluations and sessions on every rung, a body's variant landing.
CONSTANTS
    t1 = t1  t2 = t2  b1 = b1  b2 = b2  x1 = x1  x2 = x2
    Threads = {t1, t2}
    Worker = Worker
    Bindings = {b1, b2}
    Points = {x1, x2}
    Selects <- MCSelects
    EntrySelects = {"param"}
    Takes <- MCTakes
    FullOps = 10
    SpecOps <- MCSpecOps
    Specializes = TRUE
    Jit = TRUE
    KickAfter = 2
    EagerPass = FALSE
    FlipCooldown = 0
    ThrashFlips = 2
    ThrashEvals = 1
    MinShrinkPct = 20
    SpecCompileAfter = 1
    SpecCompileBudget = 2
    SpecInterpCost = 2
    FullOutcomes = {"native"}
    SpecOutcomes = {"native", "failed"}
    CallKinds = {"eval", "prolog", "main"}
    MaxCalls = 4
    MaxBodyForms = 1
    Full = Full
    Garbage = Garbage
    None = None
SPECIFICATION Spec
SYMMETRY Symmetry
CHECK_DEADLOCK FALSE
INVARIANTS ResultsExact NativeIsCurrent EpisodeMatchesBuffer OffIsFinal OneSpecJob
PROPERTIES FlipsTeach VersionNamesSpec
