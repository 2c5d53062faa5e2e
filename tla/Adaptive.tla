------------------------------- MODULE Adaptive -------------------------------
(***************************************************************************)
(* One Adaptive (adaptive.rs): a tape and its accelerated forms, shared by *)
(* the threads that evaluate it.  A call is served by native code of the   *)
(* current specialization, native code of the full tape, the interpreted   *)
(* specialization or the interpreter; every one must give the full tape's  *)
(* value.  A caller evaluates whole points (eval) or binds a session       *)
(* (prolog) and evaluates points of that binding (main).                   *)
(*                                                                         *)
(* The specialization cache is behind a mutex: whole calls and prologs try *)
(* it once and fall to the full tape under contention, flips of a session  *)
(* wait for it.  Compiles run on one background thread in the order they   *)
(* were submitted (background.rs), outside the lock; their results land    *)
(* under it.                                                               *)
(*                                                                         *)
(* Data: an input is <<binding, point>>; Takes gives the arm every Select  *)
(* takes at it.  A form of the tape is Full or a specialization, a partial *)
(* function from the pinned selects to their arms.  The value of the       *)
(* program at an input is the input itself; a form run where its pins do   *)
(* not hold, or over a buffer of another layout, gives Garbage.            *)
(*                                                                         *)
(* Definitions whose comment begins with "Mutant" are wrong versions of    *)
(* the one after them: with it in its place a property must fail.          *)
(***************************************************************************)
EXTENDS Choices, Sequences, FiniteSets

CONSTANTS
    Threads, Worker,    \* the callers; the background compiler's thread
    Bindings, Points,   \* parameter bindings, and the points varied within one
    EntrySelects,       \* condition an input or a prolog value: prolog_guards
    Takes,              \* [Bindings \X Points -> Traces]
    FullOps, SpecOps(_),\* instructions of the tape; of one pinning a set
    Specializes,        \* choices.enabled and enough selects: the cache exists
    Jit,                \* policy.jit, with a compiler
    KickAfter,          \* policy.kick_after
    EagerPass,          \* policy.eager_pass is some duration
    SpecCompileAfter, SpecCompileBudget, SpecInterpCost,    \* policy.spec_*
    FullOutcomes,       \* how the compile of the full tape may end
    SpecOutcomes,       \* how a compile of a specialization may end
    CallKinds,          \* the calls made: a subset of {"eval", "prolog", "main"}
    MaxCalls,           \* bound: no call begins after this many
    MaxBodyForms,       \* bound on the forms that land in the tape's bodies
    Full, Garbage, None

Inputs == Bindings \X Points
Outcomes == {"native", "failed", "panic"}

ASSUME PolicyAssumption ==
    /\ EntrySelects \subseteq Selects
    /\ Takes \in [Inputs -> Traces]
    /\ FullOps \in Nat /\ \A pins \in SUBSET Selects : SpecOps(pins) \in Nat
    /\ Specializes \in BOOLEAN /\ Jit \in BOOLEAN /\ EagerPass \in BOOLEAN
    /\ KickAfter \in Nat /\ MaxCalls \in Nat /\ MaxBodyForms \in Nat
    /\ SpecCompileAfter \in Nat /\ SpecCompileBudget \in Nat /\ SpecInterpCost \in Nat
    /\ FullOutcomes \subseteq Outcomes /\ SpecOutcomes \subseteq Outcomes
    /\ CallKinds \subseteq {"eval", "prolog", "main"}
    /\ Inputs # {} /\ Worker \notin Threads

Specs == UNION {[pins -> Arms] : pins \in SUBSET Selects}

\* A compile submitted, or native code landed: a form and its version.
Jobs == [form : Specs \cup {Full}, ver : Nat]

\* A marker is no specialization, no job, no input, no thread.
ASSUME MarkerAssumption ==
    /\ None \notin Specs \cup Jobs /\ Full \notin Specs /\ None # Full
    /\ None \notin Threads \cup {Worker} \cup Bindings
    /\ None \notin Inputs /\ Garbage \notin Inputs \cup {None}

VARIABLES
    cache,      \* struct Spec: the specialization and its policy counters
    lock,       \* who holds the cache's mutex
    jit,        \* struct Jit
    bodyForms,  \* Tape::forms_epoch: forms landed in the function bodies
    queue,      \* jobs submitted, the oldest first
    worker,     \* the job the background thread runs, and its step
    pc,         \* per thread: the step of its call
    call,       \* the kind of that call; "reprolog" within a main pass
    arg,        \* the inputs of the call
    bound,      \* the binding of the open session
    ep,         \* its Episode
    work,       \* the caller's buffer: the form that laid it out, its binding
    out         \* what the last call returned

threadVars == <<pc, call, arg, bound, ep, work, out>>
vars == <<cache, lock, jit, bodyForms, queue, worker, threadVars>>

------------------------------------------------------------------------------
(* Forms: running and checking them                                         *)

Holds(sp, i) == \A s \in DOMAIN sp : sp[s] = Takes[i][s]
EntryHolds(sp, i) == \A s \in DOMAIN sp \cap EntrySelects : sp[s] = Takes[i][s]

\* What a form computes at an input.
Value(form, i) ==
    IF form = Full THEN i ELSE IF Holds(form, i) THEN i ELSE Garbage

\* A main pass of `form` over a buffer reads the state its prolog laid out.
MainValue(form, w, x) ==
    IF w.layout = form THEN Value(form, <<w.bind, x>>) ELSE Garbage

\* Mutant of Check: the guards are not looked at.
CheckNothing(sp, form, holds) == {TRUE}

\* The outcomes of checking the guards of `sp` on what `form` computed; they
\* say something only of the specialization that computed it.
Check(sp, form, holds) == IF form = sp THEN {holds} ELSE BOOLEAN

FullNative == jit.compiled = "native"

\* forms(): moves when the full compile lands, whatever it gave.
Forms == bodyForms + (IF jit.compiled = "pending" THEN 0 ELSE 1)

\* With native code of the full tape, an interpreted specialization too
\* long to win against it.
TooLong(sp) == FullNative /\ SpecOps(DOMAIN sp) * SpecInterpCost > FullOps

------------------------------------------------------------------------------
(* The cache                                                                *)

\* Mutant of Disable: the specialization stays.
DisableKeepsSpec(st) == [st EXCEPT !.choices.off = TRUE, !.native = None]

Disable(st) == [st EXCEPT !.choices.off = TRUE, !.spec = None, !.native = None]

\* Mutant of Retrace: a cooldown leaves the old specialization in place.
RetraceKeepsSpec(st, i) ==
    LET c == Observe(st.choices, Takes[i])
        b == Built(c, SpecOps(Selects \ c.unpinned), FullOps)
    IN  IF ~Ready(c) THEN [st EXCEPT !.choices = c]
        ELSE IF b.off THEN Disable([st EXCEPT !.choices = b])
        ELSE [st EXCEPT !.choices = b, !.spec = Pinned(c)]

\* A traced evaluation of the full tape at `i` is observed, and the tape
\* specialized to it unless a cooldown runs.
Retrace(st, i) ==
    LET c == Observe(st.choices, Takes[i])
        b == Built(c, SpecOps(Selects \ c.unpinned), FullOps)
    IN  IF ~Ready(c) THEN [st EXCEPT !.choices = c, !.spec = None]
        ELSE IF b.off THEN Disable([st EXCEPT !.choices = b])
        ELSE [st EXCEPT !.choices = b, !.spec = Pinned(c)]

\* A flip is counted and learned, or turns specialization off.
OnFlip(st, i) ==
    LET c == Flipped(Cool(NewVersion(st.choices)), 1)
        s == [st EXCEPT !.native = None, !.stable = 0, !.choices = c]
    IN  IF c.off THEN Disable(s) ELSE Retrace(s, i)

\* Mutant of Submits: a job in flight is not looked at.
SubmitsAgain(st, ver) ==
    /\ Jit /\ st.stable = SpecCompileAfter /\ st.choices.version = ver
    /\ st.native = None /\ st.compiles < SpecCompileBudget

\* The probation of a specialization ends here.
Submits(st, ver) ==
    /\ Jit
    /\ st.stable = SpecCompileAfter
    /\ st.choices.version = ver
    /\ ~st.inflight
    /\ st.native = None
    /\ st.compiles < SpecCompileBudget

\* A guard-holding evaluation of `sp`: counted, and perhaps compiled.
Held(st, sp, ver) ==
    LET s == [st EXCEPT !.stable = @ + 1]
    IN  IF Submits(s, ver)
        THEN /\ cache' = [s EXCEPT !.inflight = TRUE, !.compiles = @ + 1]
             /\ queue' = Append(queue, [form |-> sp, ver |-> ver])
        ELSE /\ cache' = s
             /\ UNCHANGED queue

NativeCurrent(st) ==
    st.native # None /\ st.spec # None /\ st.native.ver = st.choices.version

\* The native code is dropped where it does not serve the specialization.
DropNative(st) == IF st.spec # None THEN [st EXCEPT !.native = None] ELSE st

------------------------------------------------------------------------------
(* A call                                                                   *)

FullEpisode(forms) == [kind |-> "full", form |-> Full, sp |-> None, ver |-> 0, forms |-> forms]

Laid(t, form) == work' = [work EXCEPT ![t] = [layout |-> form, bind |-> arg[t][1]]]
Goto(t, step) == pc' = [pc EXCEPT ![t] = step]
Out(t, v) == out' = [out EXCEPT ![t] = v]

\* The call ends, a prolog run within a main pass by going on to the pass.
\* A pass timed as long marks the tape as large.
Return(t) ==
    /\ IF call[t] = "reprolog"
       THEN Goto(t, "pass") /\ call' = [call EXCEPT ![t] = "main"]
       ELSE Goto(t, "idle") /\ UNCHANGED call
    /\ \E slow \in BOOLEAN :
          /\ slow => Jit /\ EagerPass /\ jit.compiled = "pending"
          /\ jit' = [jit EXCEPT !.large = @ \/ slow]

\* maybe_kick then await_native, at the start of every pass: the pass is
\* counted, past the threshold (or once the tape is known to be large) the
\* full compile is submitted, and a large tape's pass waits for it.  The two
\* are one step: what lands or is kicked between them changes only whether
\* the pass waits, and a wait may end at any time.
Enter(t, c) == Goto(t, IF c = "main" THEN "main" ELSE "rung")

Start(t, c) ==
    LET evals == jit.evals + 1
        kicks == Jit /\ (evals >= KickAfter \/ jit.large) /\ ~jit.kicked
        kicked == jit.kicked \/ kicks
    IN  /\ jit' = [jit EXCEPT !.evals = evals, !.kicked = kicked]
        /\ queue' = IF kicks THEN Append(queue, [form |-> Full, ver |-> 0]) ELSE queue
        /\ call' = [call EXCEPT ![t] = c]
        /\ IF kicked /\ jit.compiled = "pending" /\ jit.large
           THEN Goto(t, "wait")
           ELSE Enter(t, c)

\* A caller evaluates a point, binds a session, or evaluates its session at
\* a point of the binding.
Begin(t) ==
    /\ pc[t] = "idle"
    /\ jit.evals < MaxCalls
    /\ \E c \in CallKinds, i \in Inputs :
          /\ c = "main" => bound[t] = i[1]
          /\ Start(t, c)
          /\ arg' = [arg EXCEPT ![t] = i]
          /\ bound' = [bound EXCEPT ![t] = IF c = "eval" THEN None ELSE i[1]]
    /\ Out(t, None)
    /\ UNCHANGED <<cache, lock, bodyForms, worker, ep, work>>

\* Mutant of Wake: a wait without a timeout.
WakeOnLanding(t) ==
    /\ pc[t] = "wait" /\ jit.landed
    /\ Enter(t, call[t])
    /\ UNCHANGED <<cache, lock, jit, bodyForms, queue, worker, call, arg, bound, ep, work, out>>

\* The compile landed, or the slowest pass so far is over.
Wake(t) ==
    /\ pc[t] = "wait"
    /\ Enter(t, call[t])
    /\ UNCHANGED <<cache, lock, jit, bodyForms, queue, worker, call, arg, bound, ep, work, out>>

\* Mutant of Opens: the episode of the last prolog stays.
OpensForms(t) == ep' = [ep EXCEPT ![t].forms = Forms]

\* A prolog's episode is full until a specialization enters it.
Opens(t) == ep' = [ep EXCEPT ![t] = FullEpisode(Forms)]

\* The specialized rungs take the cache, or fall to the full tape where
\* another thread holds it.  A prolog reads the forms first.
TryLock(t) ==
    /\ pc[t] = "rung"
    /\ IF Specializes /\ lock = None
       THEN lock' = t /\ Goto(t, "locked")
       ELSE UNCHANGED lock /\ Goto(t, "full")
    /\ IF call[t] = "eval" THEN UNCHANGED ep ELSE Opens(t)
    /\ UNCHANGED <<cache, jit, bodyForms, queue, worker, call, arg, bound, work, out>>

Unlock == lock' = None

\* The lock is given back and the full tape serves.
ToFull(t, st) ==
    /\ cache' = st
    /\ Goto(t, "full")
    /\ UNCHANGED <<jit, queue, call, ep, work, out>>

------------------------------------------------------------------------------
(* Whole evaluations                                                        *)

\* The rest of eval_spec once no compiled specialization served.
EvalInterpreted(t, st, i) ==
    \/ /\ st.spec # None /\ TooLong(st.spec)
       /\ ToFull(t, st)
    \/ /\ st.spec # None /\ ~TooLong(st.spec) /\ Holds(st.spec, i)
       /\ Held(st, st.spec, st.choices.version)
       /\ Laid(t, st.spec) /\ Out(t, Value(st.spec, i))
       /\ Return(t) /\ UNCHANGED ep
    \/ /\ st.spec # None /\ ~TooLong(st.spec) /\ ~Holds(st.spec, i)
       /\ cache' = OnFlip(st, i)
       /\ Laid(t, Full) /\ Out(t, i)
       /\ Return(t) /\ UNCHANGED <<queue, ep>>
    \/ /\ st.spec = None /\ ~Ready(st.choices)
       /\ ToFull(t, st)
    \/ /\ st.spec = None /\ Ready(st.choices)
       /\ cache' = Retrace(st, i)
       /\ Laid(t, Full) /\ Out(t, i)
       /\ Return(t) /\ UNCHANGED <<queue, ep>>

EvalSpec(t) ==
    /\ pc[t] = "locked" /\ call[t] = "eval"
    /\ LET i == arg[t]
           st == [cache EXCEPT !.choices = Ran(@, 1)]
           passed == IF NativeCurrent(st)
                     THEN Check(st.spec, st.native.form, Holds(st.native.form, i))
                     ELSE {FALSE}
       IN  IF cache.choices.off
           THEN ToFull(t, cache)
           ELSE \/ /\ TRUE \in passed
                   /\ cache' = [st EXCEPT !.stable = @ + 1]
                   /\ Laid(t, st.native.form) /\ Out(t, Value(st.native.form, i))
                   /\ Return(t) /\ UNCHANGED <<queue, ep>>
                \/ /\ FALSE \in passed
                   /\ EvalInterpreted(t, DropNative(st), i)
    /\ Unlock
    /\ UNCHANGED <<bodyForms, worker, arg, bound>>

------------------------------------------------------------------------------
(* Sessions                                                                 *)

\* The prolog prepared the buffer in a form of the specialization, whose
\* entry guards hold or not.
Enters(t, st, kind, form, passed) ==
    \/ /\ TRUE \in passed
       /\ cache' = st
       /\ ep' = [ep EXCEPT ![t] = [@ EXCEPT !.kind = kind, !.form = form,
                                   !.sp = st.spec, !.ver = st.choices.version]]
       /\ Laid(t, form)
       /\ Return(t) /\ UNCHANGED <<queue, out>>
    \/ /\ FALSE \in passed
       /\ cache' = OnFlip(st, arg[t])
       /\ Laid(t, Full)
       /\ Return(t) /\ UNCHANGED <<queue, ep, out>>

SpecProlog(t) ==
    /\ pc[t] = "locked" /\ call[t] # "eval"
    /\ LET i == arg[t]
           ran == [cache EXCEPT !.choices = Ran(@, 1)]
           first == [Retrace(ran, i) EXCEPT !.choices = NewVersion(@), !.stable = 0]
           st == IF ran.spec = None THEN first ELSE ran
           interpreted == DropNative(st)
       IN  IF cache.choices.off
           THEN ToFull(t, cache)
           ELSE \/ /\ ran.spec = None /\ ~Ready(ran.choices)
                   /\ ToFull(t, ran)
                \/ /\ ran.spec = None => Ready(ran.choices)
                   /\ NativeCurrent(st)
                   /\ Enters(t, st, "native", st.native.form,
                             Check(st.spec, st.native.form, EntryHolds(st.native.form, i)))
                \/ /\ ran.spec = None => Ready(ran.choices)
                   /\ ~NativeCurrent(st)
                   /\ IF st.spec = None \/ TooLong(st.spec)
                      THEN ToFull(t, interpreted)
                      ELSE Enters(t, interpreted, "interp", st.spec, {EntryHolds(st.spec, i)})
    /\ Unlock
    /\ UNCHANGED <<bodyForms, worker, arg, bound>>

\* A form landed since the prolog: the episode runs it again.
Main(t) ==
    /\ pc[t] = "main"
    /\ IF Forms # ep[t].forms
       THEN Start(t, "reprolog")
       ELSE Goto(t, "pass") /\ UNCHANGED <<jit, queue, call>>
    /\ UNCHANGED <<cache, lock, bodyForms, worker, arg, bound, ep, work, out>>

Pass(t) ==
    /\ pc[t] = "pass"
    /\ LET e == ep[t]
           v == <<work[t].bind, arg[t][2]>>
           value == MainValue(e.form, work[t], arg[t][2])
           passed == IF e.kind = "full" THEN {TRUE}
                     ELSE Check(e.sp, work[t].layout, Holds(e.sp, v))
       IN  \/ /\ TRUE \in passed
              /\ Out(t, value)
              /\ IF e.kind = "interp"
                 THEN Goto(t, "note") /\ UNCHANGED <<jit, call>>
                 ELSE Return(t)
           \/ /\ FALSE \in passed
              /\ Goto(t, "flip")
              /\ UNCHANGED <<jit, call, out>>
    /\ UNCHANGED <<cache, lock, bodyForms, queue, worker, arg, bound, ep, work>>

\* A guard-holding pass is noted where no other thread holds the cache.
TryNote(t) ==
    /\ pc[t] = "note"
    /\ IF lock = None
       THEN lock' = t /\ Goto(t, "noted") /\ UNCHANGED <<jit, call>>
       ELSE UNCHANGED lock /\ Return(t)
    /\ UNCHANGED <<cache, bodyForms, queue, worker, arg, bound, ep, work, out>>

Note(t) ==
    /\ pc[t] = "noted"
    /\ Held([cache EXCEPT !.choices = Ran(@, 1)], ep[t].sp, ep[t].ver)
    /\ Unlock
    /\ Return(t)
    /\ UNCHANGED <<bodyForms, worker, arg, bound, ep, work, out>>

\* A flip of a main pass waits for the cache.
FlipLock(t) ==
    /\ pc[t] = "flip"
    /\ lock = None
    /\ lock' = t
    /\ Goto(t, "flipped")
    /\ UNCHANGED <<cache, jit, bodyForms, queue, worker, call, arg, bound, ep, work, out>>

\* The episode goes on in the full tape's layout.
FallsFull(t) == ep' = [ep EXCEPT ![t] = FullEpisode(@.forms)]

FlipRetrace(t) ==
    /\ pc[t] = "flipped"
    /\ cache' = OnFlip(cache, arg[t])
    /\ Laid(t, Full) /\ Out(t, arg[t])
    /\ FallsFull(t)
    /\ Unlock
    /\ Return(t)
    /\ UNCHANGED <<bodyForms, queue, worker, arg, bound>>

\* The full tape, natively where its code landed, from whole evaluations and
\* prologs alike.
RunFull(t) ==
    /\ pc[t] = "full"
    /\ Laid(t, Full)
    /\ out' = IF call[t] = "eval" THEN [out EXCEPT ![t] = Value(Full, arg[t])] ELSE out
    /\ Return(t)
    /\ UNCHANGED <<cache, lock, bodyForms, queue, worker, arg, bound, ep>>

------------------------------------------------------------------------------
(* The background compiler                                                  *)

Idle == [job |-> None, step |-> "idle"]

Take ==
    /\ worker = Idle
    /\ queue # <<>>
    /\ worker' = [job |-> Head(queue), step |-> "compile"]
    /\ queue' = Tail(queue)
    /\ UNCHANGED <<cache, lock, jit, bodyForms, threadVars>>

\* The code is set, then the passes waiting are woken.
LandFull ==
    /\ worker.step = "compile" /\ worker.job.form = Full
    /\ \E o \in FullOutcomes \ {"panic"} : jit' = [jit EXCEPT !.compiled = o]
    /\ worker' = [worker EXCEPT !.step = "notify"]
    /\ UNCHANGED <<cache, lock, bodyForms, queue, threadVars>>

Notify ==
    /\ worker.step = "notify"
    /\ jit' = [jit EXCEPT !.landed = TRUE]
    /\ worker' = Idle
    /\ UNCHANGED <<cache, lock, bodyForms, queue, threadVars>>

LockSpec ==
    /\ worker.step = "compile" /\ worker.job.form # Full
    /\ lock = None
    /\ lock' = Worker
    /\ worker' = [worker EXCEPT !.step = "land"]
    /\ UNCHANGED <<cache, jit, bodyForms, queue, threadVars>>

\* Mutants of Landed: code of any version lands; outdated code is dropped
\* with the job still counted in flight.
LandedAnyVersion(o) ==
    [cache EXCEPT !.inflight = FALSE, !.native = IF o = "native" THEN worker.job ELSE @]
LandedOutdated(o) ==
    IF cache.choices.version # worker.job.ver THEN cache
    ELSE [cache EXCEPT !.inflight = FALSE, !.native = IF o = "native" THEN worker.job ELSE @]

\* The cache after a compile of a specialization ended in outcome `o`.
Landed(o) ==
    [cache EXCEPT !.inflight = FALSE,
                  !.native = IF o = "native" /\ cache.choices.version = worker.job.ver
                             THEN worker.job ELSE @]

LandSpec ==
    /\ worker.step = "land"
    /\ \E o \in SpecOutcomes \ {"panic"} : cache' = Landed(o)
    /\ worker' = Idle
    /\ Unlock
    /\ UNCHANGED <<jit, bodyForms, queue, threadVars>>

\* The panic of a compile is caught and ends the job where it is.
PanicJob ==
    /\ worker.step = "compile"
    /\ "panic" \in (IF worker.job.form = Full THEN FullOutcomes ELSE SpecOutcomes)
    /\ worker' = Idle
    /\ UNCHANGED <<cache, lock, jit, bodyForms, queue, threadVars>>

\* A variant of a function body lands (variant.rs).
BodyFormLands ==
    /\ bodyForms < MaxBodyForms
    /\ bodyForms' = bodyForms + 1
    /\ UNCHANGED <<cache, lock, jit, queue, worker, threadVars>>

------------------------------------------------------------------------------

Init ==
    /\ cache = [spec |-> None, choices |-> NoChoices, stable |-> 0, compiles |-> 0,
                inflight |-> FALSE, native |-> None]
    /\ lock = None
    /\ jit = [compiled |-> "pending", kicked |-> FALSE, evals |-> 0, large |-> FALSE,
              landed |-> FALSE]
    /\ bodyForms = 0
    /\ queue = <<>>
    /\ worker = Idle
    /\ pc = [t \in Threads |-> "idle"]
    /\ call = [t \in Threads |-> "eval"]
    /\ arg = [t \in Threads |-> CHOOSE i \in Inputs : TRUE]
    /\ bound = [t \in Threads |-> None]
    /\ ep = [t \in Threads |-> FullEpisode(0)]
    /\ work = [t \in Threads |-> [layout |-> None, bind |-> None]]
    /\ out = [t \in Threads |-> None]

\* A step of a call once it began.
Step(t) ==
    \/ Wake(t) \/ TryLock(t)
    \/ EvalSpec(t) \/ SpecProlog(t) \/ RunFull(t)
    \/ Main(t) \/ Pass(t) \/ TryNote(t) \/ Note(t) \/ FlipLock(t) \/ FlipRetrace(t)

Background == Take \/ LandFull \/ Notify \/ LockSpec \/ LandSpec \/ PanicJob

Next ==
    \/ \E t \in Threads : Begin(t) \/ Step(t)
    \/ Background
    \/ BodyFormLands

Spec == Init /\ [][Next]_vars

\* A thread within a call goes on, and so does the background thread; no
\* caller need ever call, and no body form need ever land.
FairSpec == Spec /\ (\A t \in Threads : WF_vars(Step(t))) /\ WF_vars(Background)
------------------------------------------------------------------------------
(* Properties                                                               *)

Episodes ==
    [kind : {"full", "interp", "native"}, form : Specs \cup {Full},
     sp : Specs \cup {None}, ver : Nat, forms : Nat]
Steps == {"idle", "wait", "rung", "locked", "full", "main", "pass",
          "note", "noted", "flip", "flipped"}

Caches ==
    [spec : Specs \cup {None}, choices : ChoicesSet, stable : Nat, compiles : Nat,
     inflight : BOOLEAN, native : Jobs \cup {None}]

Jits ==
    [compiled : {"pending", "native", "failed"}, kicked : BOOLEAN, evals : Nat,
     large : BOOLEAN, landed : BOOLEAN]
Buffers == [layout : Specs \cup {Full, None}, bind : Bindings \cup {None}]

TypeOK ==
    /\ cache \in Caches
    /\ lock \in Threads \cup {Worker, None}
    /\ jit \in Jits
    /\ bodyForms \in Nat
    /\ queue \in Seq(Jobs)
    /\ worker \in [job : Jobs \cup {None}, step : {"idle", "compile", "notify", "land"}]
    /\ pc \in [Threads -> Steps]
    /\ call \in [Threads -> {"eval", "prolog", "main", "reprolog"}]
    /\ arg \in [Threads -> Inputs]
    /\ bound \in [Threads -> Bindings \cup {None}]
    /\ ep \in [Threads -> Episodes]
    /\ work \in [Threads -> Buffers]
    /\ out \in [Threads -> Inputs \cup {Garbage, None}]

\* Every rung is the interpreter: what a call returns is the full tape's
\* value at the inputs of that call, whichever form served it and whatever
\* other threads and landing compiles did meanwhile (adaptive.rs:3-4).
ResultsExact ==
    \A t \in Threads : pc[t] = "idle" /\ out[t] # None => out[t] = arg[t]

\* The compiled specialization is always the code of the specialization
\* held, at its version: a compile of an outdated one never lands, and no
\* replacement leaves its code behind (adaptive.rs:105-107).
NativeIsCurrent ==
    cache.native # None =>
        /\ cache.native.form = cache.spec
        /\ cache.native.ver = cache.choices.version

\* Once specialization went off (thrash, or too little shrink) nothing of it
\* comes back, not even a compile in flight (adaptive.rs:461-472).
OffIsFinal == cache.choices.off => cache.spec = None /\ cache.native = None

\* The specialization held pins what the last traced evaluation took, and
\* no select that was ever seen taking its other arm (adaptive.rs:474-477,
\* choices.rs:14-16).
SpecFollowsTrace == cache.spec # None => cache.spec = Pinned(cache.choices)

\* The forms an evaluation may still be served by were learned of at one
\* version: within a version the specialization never changes, it only
\* comes into being (adaptive.rs:105-107).
VersionNamesSpec ==
    [][cache.spec # None /\ cache'.spec # cache.spec
         => cache'.choices.version > cache.choices.version]_vars

\* The buffer of an open session holds a prolog at its binding in the form
\* its episode runs on, whoever prepared it (adaptive.rs:128-131).
EpisodeMatchesBuffer ==
    \A t \in Threads : pc[t] = "idle" /\ bound[t] # None =>
        work[t] = [layout |-> ep[t].form, bind |-> bound[t]]

SpecJobs ==
    {k \in DOMAIN queue : queue[k].form # Full}
\* With compiles that end, one compile of a specialization is in flight
\* exactly while the cache says so, so that its budget is not spent on work
\* already queued (adaptive.rs:523-524).
OneSpecJob ==
    LET running == worker.step # "idle" /\ worker.job.form # Full
    IN  /\ cache.inflight <=> running \/ SpecJobs # {}
        /\ running => SpecJobs = {}
        /\ \A j, k \in SpecJobs : j = k

\* Every flip of the specialization held teaches: it unpins a select or turns
\* specialization off, so the program is traced again at most once per select
\* (adaptive.rs:474-477).  Only an episode of an outdated specialization may
\* flip at what the current one knows already.
FlipsTeach ==
    [][cache'.choices.flips > cache.choices.flips
         => \/ cache'.choices.off
            \/ cache'.choices.unpinned # cache.choices.unpinned
            \/ \E t \in Threads :
                 pc[t] = "flipped" /\ pc'[t] = "idle" /\ ep[t].ver # cache.choices.version]_vars

\* README.md:251-252: a failed guard means the region changed, the full tape
\* is retraced and the specialization rebuilt.  The code of a specialization
\* is given up for a failed guard alone, so the flip is counted with it.
FailedGuardRetraces ==
    [][cache.native # None /\ cache'.native = None
         => cache'.choices.flips > cache.choices.flips]_vars

\* adaptive.rs:17-18 and 68: a specialization that holds long enough is
\* compiled, the budget allowing.
HeldLongEnoughIsCompiled ==
    cache.stable > SpecCompileAfter /\ cache.compiles < SpecCompileBudget
        => cache.inflight \/ cache.native # None

------------------------------------------------------------------------------
(* The inductive invariant                                                  *)

\* A form learned of at `ver` is outdated, or is the specialization held.
Current(st, form, ver) ==
    /\ ver <= st.choices.version
    /\ ver = st.choices.version => form = st.spec

CacheOK(st) ==
    /\ st \in Caches
    /\ st.native # None => st.native.form = st.spec /\ st.native.ver = st.choices.version
    /\ st.choices.off => st.spec = None /\ st.native = None
    /\ st.spec # None => st.spec = Pinned(st.choices) /\ st.choices.trace \in Traces

\* Compiles on their way, and episodes, run forms that were current once.
JobOK(job) == job.form # Full => Current(cache, job.form, job.ver)

CompilesOK ==
    /\ \A k \in DOMAIN queue : JobOK(queue[k])
    /\ worker.job # None => JobOK(worker.job)
    /\ worker.step # "idle" => worker.job # None
    /\ worker.step = "land" => worker.job.form # Full

EpisodeOK(t) ==
    IF ep[t].kind = "full" THEN ep[t].form = Full
    ELSE /\ ep[t].sp \in Specs /\ ep[t].form = ep[t].sp
         /\ Current(cache, ep[t].sp, ep[t].ver)

\* The session's prolog is over: its buffer is ready for main passes.
Prepared(t) ==
    \/ pc[t] \in {"idle", "main", "pass", "note", "noted", "flip", "flipped"}
    \/ pc[t] = "wait" /\ call[t] = "main"

CallOK(t) ==
    /\ pc[t] # "idle" => bound[t] = IF call[t] = "eval" THEN None ELSE arg[t][1]
    /\ pc[t] \in {"main", "pass", "note", "noted", "flip", "flipped"} => call[t] = "main"
    /\ pc[t] \in {"locked", "full"} /\ call[t] # "eval" => ep[t].kind = "full"
    /\ pc[t] \in {"note", "noted"} => ep[t].kind = "interp"
    /\ bound[t] # None /\ Prepared(t) => work[t] = [layout |-> ep[t].form, bind |-> bound[t]]
    /\ out[t] = None \/ (pc[t] \in {"idle", "note", "noted"} /\ out[t] = arg[t])

IInv ==
    /\ TypeOK
    /\ CacheOK(cache)
    /\ CompilesOK
    /\ \A t \in Threads : EpisodeOK(t) /\ CallOK(t)

------------------------------------------------------------------------------
(* Liveness                                                                 *)

\* The full compile ends, its passes told where it did not panic, and so does
\* one of a specialization.
FullUnderway ==
    \/ \E k \in DOMAIN queue : queue[k].form = Full
    \/ worker # Idle /\ worker.job.form = Full
CompilesEnd ==
    /\ jit.kicked ~> ~FullUnderway /\ (jit.compiled # "pending" => jit.landed)
    /\ cache.inflight ~> ~cache.inflight
------------------------------------------------------------------------------
(* What a caller sees                                                       *)

Asked(t) ==
    IF pc[t] = "idle" THEN "nothing" ELSE IF call[t] = "prolog" THEN "binding" ELSE "value"

Promise == INSTANCE Evaluator WITH
    Callers <- Threads,
    asked <- [t \in Threads |-> Asked(t)],
    input <- arg,
    session <- bound,
    result <- [t \in Threads |-> IF pc[t] = "idle" THEN out[t] ELSE None]

\* The forms, the locks and the background compiler are invisible: every
\* call is answered, with the program's value at its inputs and nothing of
\* another caller's (adaptive.rs:3-4, 128-131).
KeepsPromise == Promise!Spec
==============================================================================
