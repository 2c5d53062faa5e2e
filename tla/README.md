# A verification of rsdag in TLA+

rsdag is a library that records numeric programs as a hash-consed expression
graph, compiles a set of outputs into a *tape* (straight-line code over a work
array) and evaluates that tape many times, by an interpreter, by native code
and by specializations of the tape to what the evaluations show. Every form is
meant to give the interpreter's result bit for bit, and forms are swapped
while callers run. This directory models the parts where that is hard, checks
them with TLC, and proves the central facts with TLAPS.

## Inventory

| Component | Source (`crates/`) | State | Operations | What makes it correct | Here |
|---|---|---|---|---|---|
| Adaptive evaluation | `rsdag/src/adaptive.rs` | specialization cache behind a mutex, the full tape's compile, per caller an episode and a work buffer | `eval`, `eval_prolog`, `eval_main`, sessions; background landings | every call gives the full tape's value; code is always of the specialization held; a buffer is read only by the form that laid it out; compiles end | `Adaptive`, `Evaluator` |
| Choice learning | `rsdag/src/choices.rs` | trace held, selects unpinned, counters, version | `observe`, `pin`, `ready`, `ran`, `flipped`, `cool`, `built` | a select unpinned stays so; off is for good | `Choices` |
| Background compiler | `rsdag-jit/src/background.rs` | job queue, one thread | `submit`, the worker's loop, panics caught | jobs run in order, once | in `Adaptive` |
| Body variants | `rsdag/src/variant.rs`, `extern_fn.rs` | variants of a body by pattern, compiled forms, what run-time choices taught, an epoch | `variant`, `prolog_batch`, `main_batch`, `learn`, landings | an instance's main phase runs the body its prolog laid its state out for; landings are announced; bounds hold | `Variants`, `BodyChoices` |
| Tape compiler | `rsdag/src/tape/compile.rs` | instructions, templates, a schedule, slots | lower, merge, narrow, fuse, schedule, emit, lift | every pass keeps the values; no slot is reused while its value is live | `Programs`, `Lowering`, `Instructions`, `Fusion`, `Emission`, `Tape` |
| Incremental order | `rsdag/src/tape/topo.rs` | a topological order of labels, relabelled when full | `new`, `read`, the two-way search, `insert_after` | always a topological order of the contracted program; an accumulator is refused exactly for a cycle | `Topo`, `TopoOrder` |
| Tape specialization | `rsdag/src/tape/specialize.rs` | none | `specialize`, `specialize_main`, `param_selects`, `decide`, the checks | where the guards hold, the value is the full tape's | `Specialize`, `Tape`; when it is done, `Adaptive` |
| Interpreter, stages | `rsdag/src/tape/mod.rs`, `calls.rs`, `parallel.rs` | work array, gather area, state rows | `eval*`, `run_stage`, `share_rows` | pieces of a stage do not meet in memory; shared rows are of equal arguments | `Tape` |
| Expression graph | `rsdag/src/graph/mod.rs`, `node.rs`, `field.rs` | node table, traversal memos | smart constructors, traversals | a constructor folds only what is equal; a memo tells only its own | `Exprs`, `ExprGraph`, `Memo` |
| Calls in the graph | `rsdag/src/graph/calls.rs`, `compose.rs`, `func.rs` | functions, outputs and their roles, copies per binding | `bind`, `call_bound`, `derivative_output`, `rebound`, `inline*`, `specialize_calls`, `import*` | a call means its body over its arguments, whatever copy serves it; an output named a derivative is one | `Calls`, `Rewrites`, `Autodiff` |
| Dependence analyses | `graph/flow.rs`, `nonlinearity.rs` | none | `output_support`, `depends_on`, `nonlinearity` | nothing that moves is left out; a degree bounds | `Calls`, `Nonlinear` |
| Differentiation | `autodiff.rs`, `coo.rs` | adjoints of a sweep | `differentiate`, `gradient`, `sparse_jacobian`, `affine_in`, `vjp` | what calculus says, through calls, derivatives of derivatives too | `Autodiff`, `ExprGraph` |
| Rewrites | `transform.rs` | none | `substitute`, `pin` | simultaneous substitution | `Rewrites` |
| Numeric semantics | `semantics.rs`, `simd.rs`, `scalar.rs` | none | IEEE operations | agreement to the bit | `Values` in part: exact rationals |
| Interchange | `module.rs` | none | a graph as data and back | the same graph | not modelled |
| Native code | `rsdag-jit/src/*` | value cache, machine code | emission | encodings | not modelled |
| Front ends | `builder.rs`, `scope.rs`, `synth.rs`, `dot.rs`, `display.rs`, Python | none | building, drawing, tests | no protocol | not modelled |

How they meet: a front end builds a **graph**; `Tape::compile` lowers it; an
**Adaptive** owns the tape and asks a **compiler** (the JIT crate) for code of
it through the **background queue**; the tape's calls run function **bodies**,
each a **variant body** whose variants are built and compiled through the same
queue; what an Adaptive learns of its `Select`s, and what a variant learns of
its own, is one **choices** record each. `Tape::forms_epoch` is the callback
through which landings in the bodies reach an open session.

What is hard here: three kinds of work landing in the background between the
steps of several callers; a mutex that some callers skip and others wait for;
state read under it and used after it is given back (an episode); waits with
a timeout; compiles that fail or panic; a cache whose policy is a set of
counters with edges. In the compiler: a chain of passes each of which moves,
merges or drops what others refer to, and an order kept while it is changed. In
the evaluation: memory that is never cleared, reused between phases, runs and
threads. In the graph: functions that gain outputs while calls of them, copies of
them and imports of them exist, and globals bodies read without a parameter.
`PROJECT.json` lists these hazards at their lines.

## Modules

* `Choices` is the record of `choices.rs` and its methods, as operators from
  record to record. `ChoicesProofs` has their types and what each leaves alone.
* `Adaptive` is one `Adaptive` and everything that acts on it. One action is
  one step between two points where other threads can act:
  `Begin` (a call starts: `maybe_kick`, `await_native`), `Wake` (the wait ends),
  `TryLock`, `EvalSpec` (a whole evaluation under the lock), `SpecProlog` (a
  prolog under it), `RunFull` (the full tape serves), `Main` (the forms compared,
  the prolog run again), `Pass` (the main pass, outside the lock), `TryNote` and
  `Note` (the guard-holding pass counted), `FlipLock` and `FlipRetrace`; in the
  background `Take`, `LandFull`, `Notify`, `LockSpec`, `LandSpec`, `PanicJob`;
  and `BodyFormLands`, a landing in a body.
* `Evaluator` is what a caller sees: it asks, and is answered with the
  program's value at its own inputs. `Adaptive!Promise` is the refinement
  mapping, and so is `Variants!Promise`: the callers of both see the same.
* `Variants` is one function body specialized per binding: the forms of the
  body (its own and those of programs), the variants they share, the jobs that
  find the selects, build a variant, compile one. `Prolog` and `Main` begin a
  call; `LookUp`, `Index`, `Choose`, `Made` are `VariantBody::variant` between
  its critical sections; `Run` is a main phase; `NewForm` and `Formed` are
  `with_backend`; a job's steps are `FindSelects`, `CheckRoom`, `Keep`, `File`,
  `Look`, `Compile`, `Conds`, and `Announce`, the move of the epoch. A job runs
  in the background (`Take`) or, for a form without a place there, in the
  evaluation that asks: the same actions, by another executor.
* `BodyChoices` is one variant learning the arms its instances take: batches
  (`Begin`, `ReadSpec`, `FindCode`, `Asked`, `Run`, `ObserveBatch`, `Trace`) and
  jobs (`LearnLock`, `Learn`, `TraceEnds`, `CompileSpec`, `StoreSpec`). It uses
  `Choices`, as `Adaptive` does. `Variants` and `BodyChoices` meet nowhere but
  in the queue: what a variant learned changes no prolog and no index.
* `Programs` is the compiler's program: instructions over operands, and what one
  computes, a term over uninterpreted arithmetic. `Lowering` and `Instructions`
  are its passes 1 and 2: the reachable forest, kernels of products and systems,
  merged products, the order of units, then one instruction per unit, a composite
  function's template expanded over its operands, the calls templates left apart
  merged, the calls of a view narrowed to the outputs it reads. `Topo` is the
  dynamic order: its list and labels, its start (`NewTopo`), one edge of a search
  and the move that follows; `Fusion` the accumulators kernels take with it. `Emission` is the
  list scheduler, the regions, slots, gathers and stages, and the lift of a tape
  back to a program; `Specialize` shortens and decides such a program.
* `Tape` composes them: one action per pass (`LowerPass`, `ViewPass`, `FusePass`,
  `SchedulePass`, `EmitPass`), then the tape is shortened or decided
  (`SpecializeTape`, `SpecializeOnState`, `DecideSelects`) and evaluated, an op a
  step (`EvalProlog`, `EvalMain`, `Eval`, `RunOp`), stages and regions in pieces
  that interleave (`EnterStage`, `EnterRegion`, `RunPiece`: a call's piece gathers
  and computes in two steps), main phases exchanged over one prolog
  (`SwitchBody`), a state moved to another buffer (`MoveState`).
* `TopoOrder` runs the order on its own: `Ask`, and the two-way search of one
  edge a step (`Step`), so that stops at every point of it are seen; what is asked
  and what the hints were is any. What an instruction depends on is there the least
  closed set around it, by definition and not by a traversal, so that a search is
  compared with something that is not another search.
* `Exprs` are expressions and their constructors; `Calls` functions, calls with
  bound parameters and the structural flow through them; `Rewrites` substitution,
  inlining, specialization and import; `Autodiff` the sweeps and the derivative
  outputs of functions; `Nonlinear` degrees; `Values` what an expression is worth,
  and how it moves, by definition. `ExprGraph` makes a graph of them: one
  expression is worked on, each call on what the one before made, and the graph
  keeps what the calls added to it (functions, copies, derivative outputs).
* `Memo` is the memos of traversals: `Take` (`take_memo`, or an analysis taking one of
  its thread's), `Begin` (the same memo again), `Put` (`set`) and `Give` (`put_memo`, or
  the analysis dropped), of any traversals under way at once. What a memo tells is held
  against a history of what its traversal put in. The arena a memo is begun over is any
  size: a graph's only grows, but a thread's memos serve any graph.
* `MCAdaptive`, `MCVariants`, `MCBodyChoices`, `MCTape`, `MCTopoOrder` and `MCGraph`
  give the constants for the runs. `AdaptiveProofs`, `BodyChoicesProofs`
  and `VariantsProofs` hold the inductive invariants and the theorems of the modules
  they are named for; `TopoProofs` the two-way search of `TopoOrder`, `OrderProofs`
  the order it searches and the theorems of both; `PromiseProofs` the refinement of
  `Evaluator` by `Adaptive` and what flips teach; `MemoProofs` the theorem of `Memo`;
  `ChoicesProofs` serves `AdaptiveProofs` and `BodyChoicesProofs`.

How they compose: `Adaptive` and `BodyChoices` use `Choices`; `Tape` stands on every
module of the compiler, and shows of a shortened tape what `Adaptive` takes for
given (guards that hold mean the full tape's value); `ExprGraph` stands on every
module of the graph. The tape's graph (`Lowering`) has numbered nodes, as the
compiler's orders go by them; the graph's own expressions are their structure.

### How the state corresponds

| Model | Code |
|---|---|
| `cache` | `struct Spec` (adaptive.rs:101); a specialization is the function from the selects it pins to their arms |
| `lock` | who holds `Mutex<Spec>` |
| `jit` | `struct Jit`: `compiled`, `kicked`, `evals`, `landed`; `large` says the slowest pass reached `eager_pass` |
| `queue`, `worker` | the channel and the thread of background.rs; a job is the form to compile and its version |
| `pc`, `call`, `arg` | where a caller is, in which call, at which inputs |
| `ep`, `bound`, `work` | the caller's `Episode`, the binding of its `Session`, the form that laid out its work buffer and the binding it was prepared at |
| `bodyForms` | `Tape::forms_epoch` |
| `found`, `finding`, `bodies`, `index`, `epoch` of `Variants` | `struct Shared` (variant.rs:105); a body is `Full` or the pattern that decided it |
| `made`, `making`, `condsMaking`, `cached` | `VariantBody` per form, and `BackendCache` per body and key |
| `session` | the epoch an episode holds, and an instance's state: binding and tag |
| `learned`, `spec`, `tracing` of `BodyChoices` | `struct Choice` (variant.rs:131) |
| `specMade`, `specMaking` | the fields of that name of `VariantBody`, per form |
| `todo` | the closure an executor runs, and how far it is |
| `prog`, `order`, `tape` of `Tape` | `Lowered`/`Program`, the schedule, `Tape`; `prog.lib` the bodies and templates a graph keeps |
| `short` | the `SpecializedTape` or `ParamSelects` a tape came from, its trace and pins |
| `slots`, `gather` | the work buffer: work slots, then the gather area |
| `pc`, `hi`, `parts` | where `run_range` is, the pieces of the stage or region that runs |
| `binds`, `runs` | prologs and evaluations begun: the inputs' values are named by them |
| `t` of `TopoOrder`; `s` | `struct Topo`; the locals of `Topo::read` |
| `own`, `lib`, `imp` of `ExprGraph` | two `Graph`s and the map `import` is passed; `rebound`, `made` and `vjps` in them are the tables of that kind |
| `cur`, `last` | the caller's `ExprId`, and the call made last with its result |

Data is abstracted to what the properties tell apart. The value of the program
at an input is that input; `Takes` says which arm every `Select` takes there. A
specialization run where its pins do not hold, or over a buffer of another
layout or binding, gives `Garbage`. Which passes are slow is nondeterministic.
A guard's result on outputs of another form is nondeterministic too.

Not in the model: NaN and the text of log lines; poisoned mutexes (a panic in
an evaluation under the lock; panics of background jobs are modelled, and
happen outside the lock); `maybe_kick` and the start of `await_native` are one
step, since what can land between them changes only whether the pass waits,
and a wait may end at any time; a specialization pins every select not
unpinned, where the code leaves out those a shortening made unreachable, whose
guards cannot fail. In `Variants`, marking a job as on its way and submitting it
are one step (a late submission is a background that is late), a body none of
whose selects a binding decides is one whose shrink no form wants, a compiled
form of the conditions' tape reads the same pattern, and nothing panics: a panic
under the index's lock would poison it. In `BodyChoices` the instances of a batch
may come in any order, so `Spreads` has every choice `spread` could make, and
what a sequence of traces unpins is said at once (`ObserveAll`); `MCBodyChoices`
assumes, and TLC evaluates, that this is `Observe` trace by trace. Batches of
several variants, which `by_variant` runs one after another, are not modelled.

In the tape a value is a term: an addition and a multiplication commute, a
subtraction is the addition of the negative, a fused form is the operations it
fuses, a division and every function is itself. So two values are equal in the
model where the code promises the same bits. A slot of a new buffer is `Junk`, a
state row is the arguments it was prepared from, and a pass that would mix two
prologs' states gives a term no expression means. Selects are evaluated where it
matters: `Valuations` gives the inputs a NaN, zero and one. In the graph a value
is an exact rational; where a promise is not one (an infinity, a transcendental
number) it is not compared, and a transcendental function is known at the points
where it and its slope are rational. Derivatives are dual numbers, by definition,
against the rules of `autodiff.rs`. A system has two unknowns in `Values`.

## Runs

| Run | Bounds | Checks |
|---|---|---|
| `adaptive_calls` | 2 threads, 2 selects, calls of all kinds, a body form landing | `ResultsExact`, `NativeIsCurrent`, `EpisodeMatchesBuffer`, `OffIsFinal`, `OneSpecJob`, `FlipsTeach`, `VersionNamesSpec` |
| `adaptive_promise` | fair; 2 threads of sessions, compiles may panic | `SpecFollowsTrace`, `CompilesEnd`, `KeepsPromise` (refines `Evaluator`, liveness included) |
| `variants` | fair; 2 threads; a tape that runs the body's own form and the tape's code compiled as it goes, over the states of both; a program compiled in the background; 2 patterns, unlike limits | `ResultsExact`, `OneBodyPerPattern`, `LandingsTold`, `SharedForms`, `SlotsSettle`, `ServesInstances` (refines `Evaluator`, as to safety) |
| `body_choices` | fair; 2 threads; batches up to 2 instances; thrash after 3 flips | `SpecIsLearned`, `OffHasNoSpec`, `BuiltPerSelect`, `FlipsAreOfSpec`, `TracingEnds`, `AskedCodeLands` |
| `tape` | 13 expressions with and without a split, and every pair of folds over two rows; pieces of 1 and 2; 2 evaluations | `PassesExact`, `PiecesApart`, `OutputsExact`, `GuardsTell`, `DecidedExact` |
| `topo` | fair; every program of 5 instructions, 2 of them kernels, with up to 4 operands; labels of 4 bits | `OrderSound`, `AnswerExact`, `SearchesEnd` |
| `graph` | 10 graphs, 1 to 3 calls of any kind on each, 3 points | `BuildExact`, `ExponentsFit`, `RewritesExact`, `TangentsExact`, `AdjointsExact`, `JacobianComplete`, `AffineExact`, `DegreesExact`, `DerivativesNamed`, `ImportsExact` |
| `variants_bounded` | violation | `BodiesBounded` |
| `adaptive_failed_guard` | violation | `FailedGuardRetraces` |
| `adaptive_probation` | violation | `HeldLongEnoughIsCompiled` |
| `tape_merged` | violation | `AllPlaced` |
| `graph_copies` | violation | `RewrittenExactly` |

Bounds: `MaxCalls` limits the calls that begin (a prolog run within a main pass
counts too), `MaxBodyForms` the landings in bodies. They are set so that a
specialization is built, compiled, landed, flipped, replaced while its compile
is in flight and turned off within the calls allowed; two selects, one an entry
condition, distinguish a flip by a new binding from a flip within one. Two
threads meet every pair of steps around the lock. The system may stop (no caller
need call), so deadlock is checked only in that callers in a call can go on:
the fair runs show every call answered.

Fairness: weak fairness of each thread's step within a call (an OS thread that
is runnable runs; the only waits are the mutex, whose holders never wait for
another caller, and the timed wait) and of the background thread (it is parked
on its channel otherwise). No fairness for `Begin`, nor for `BodyFormLands`.
In `Variants` the index's lock is held by one builder at a time and calls are
bounded, so weak fairness is enough; in `BodyChoices` the job that learns waits
for a lock evaluations only try, and is taken to have it in the end (strong
fairness of jobs). In `TopoOrder` the search's step alone is fair: it is a loop that
waits for nothing. `Variants` and `BodyChoices` say when everything rests (`Rests`), and TLC
checks that they stop nowhere else: no deadlock around the two locks.

`Variants` is bounded by `MaxCalls` and by each form being made once; three calls
let two patterns be seen, built by two executors at once, announced and run in
another form: `own` and `other` of `MCVariants` are one program, a tape and its
native code, so the interpreted body runs states that the compiled form laid, on
either variant, and the compiled form states that the interpreted one laid on the
full body (its policy leaves variants to the compiler). That a compiled form makes
the variant it lacks while it runs is left to the theorem `ResultsAreExact`. The
threads are interchangeable, and so are the bindings, each with its pattern:
`Symmetry` has both, for the safety run. `BodyChoices` is bounded
by `MaxBatches`: a shortened main phase is built, compiled, fails, is built again
at a second version and turned off.

The bounds of `tape` are the compiler's tuning constants made small
(`GemvMinRows`, `SolveBatchMaxN` and `SolveBatchMaxK`, `PieceOps`, `RegionMinOps`,
`PlaceMinRun`: at 2 and 4 a kernel, a batch, a region and a placed run come of two
or four members), `LabelBits` and `MaxStamp` (8) and `MaxRuns` (two evaluations: one prolog under two main phases, or two
bindings). Each case of `MCTape` brings out one part, named there: what the passes
do is a function of the expression, so cases, not depth, are what counts; depth is
in the evaluations, where pieces interleave. `topo` takes every program up to its
bound; with 4 bits a label range is exhausted and relabelled within it, with
`MaxStamp` 6 stamps wrap.

`graph` bounds `MaxExp` (3: powers of powers pass it), `ExactPowiMax` 3,
`PowfAsPowiMax` 2, `ReverseMin` 2 (a Jacobian row in reverse at two columns, as the
constant says at more), `MaxDegree` 4, and the calls left per case. Two calls let
anything be made of what anything made (a derivative of a derivative, a
substitution into one, a call of a function that gained an output). The two import
cases have three, so that the library derives, is imported and imported again in
any order, from a library that has derived nothing or one output, over functions
imported before or not: an import that calls what a function imported earlier does
not have is among them (below), and so is one that calls only what it does. The
points have no coordinate in common and stay off most kinks; where one is met the
slope is not compared. The run stops at the bound, by `Done`.

The five violations are disagreements between the code and its documentation,
kept as runs so that they are noticed when either changes:

* `adaptive_failed_guard`: a failed guard of the compiled specialization, after
  the full tape's code landed, drops the code but retraces nothing
  (adaptive.rs:266-275), where README.md:251 and adaptive.rs:15 say the region
  change is retraced and respecialized.
* `adaptive_probation`: `stable != spec_compile_after` (adaptive.rs:535) lets a
  specialization that passes the threshold while another compile is in flight
  hold for ever without being compiled (adaptive.rs:17, 68).
* `variants_bounded`: the room for a variant is tested and taken in two critical
  sections (variant.rs:174, 150); an evaluation that builds as it goes and a
  background build both take the last room, so a body keeps one more than
  `max_variants` (variant.rs:67). The surplus is never run: a form ignores an
  index past what it keeps (417-420), and `ResultsExact` holds.
* `tape_merged`: a kernel takes an accumulator that stands before it without a
  search (compile.rs:571), on the word of 504-505 that the lowering order is
  topological until the first search. Calls merged into one stand behind their
  readers, so the two may come to depend on each other through one; the schedule
  then never places them, which the assertion at 2552 denies.
* `graph_copies`: a function copied for a binding is found again whatever outputs
  it gained since (graph/calls.rs:247), where 231-234 says the copy keeps the
  output indices. A derivative derived after the copy, substituted into by the
  same map, is called at an index the copy lacks, or has given to another.

Three more are excluded by a property's precondition rather than run, and listed
among the hazards. `ImportsExact` says nothing of an import that calls an output
which a function gained after its own import: imported once, the function is
returned whatever it gained since (compose.rs:28), and its call keeps the index it
has at home (126), where compose.rs:10-15 promises "derivative outputs kept" and
invites to "pass the same map to import more". It is the fault of `graph_copies`
on another path: the index is past the outputs, and the program stops, or it is
another derivative's. `DerivativesNamed` says nothing of the graph imported into
once a body imported calls such an output. Without the preconditions TLC finds
both violated in three calls (import, the library derives, import); no run repeats
it, and the precondition, `Outgrown`, names those calls alone. `DegreesExact` says
nothing of a body that reads one of the variables as a global:
nonlinearity.rs:244-246 takes it for constant, where 158-160 promises the answer
of the inlined expression. `AffineExact` says nothing of roots that jump: a step
or a remainder of the symbols passes for affine (autodiff.rs:626-633).

Every property of a passing run has a mutant in `PROJECT.json`: a wrong version
of one definition under which the property fails.

## Proofs

Assumptions: `ChoicePolicyAssumption`, `PolicyAssumption`,
`BodyChoicesAssumption`, `FormsAssumption` (types of the constants, inputs and bindings exist,
a tape has finitely many selects), `MarkerAssumption`, `SpecAssumption` and
`MarkersAssumption` (the markers differ from what they mark), and `TopoAssumption`
(the programs asked about are finite, typed and acyclic, as topo.rs:157 asserts; one
instruction at least is a kernel, as the fusion asks for its kernels; instructions and
the two ends are fewer than labels, 2^64 in the code, where instructions are counted in
32 bits). Nothing is assumed of
the sizes, the policies, the threads, the forms (but that those of one program keep
as many variants), or of which compiles fail or panic.

`Adaptive`. `ResultsExact` is not inductive. A main pass runs, outside the lock, a form
that was current when the prolog ran, and a landing compile carries a form
that was current when it was submitted. `IInv` says what both need: a form
learned of at a version is outdated, or is the specialization held
(`Current`). The cache *evolves* (`Evolves`): its version never decreases, and
within a version a specialization held is not replaced. Every lemma on the
cache's operators establishes `CacheOK` of its result and `Evolves`, so that
whatever was current stays current or outdated; every lemma on an action
combines them; `StepKeeps` covers `[Next]_vars`. The theorems
`EveryRungIsExact`, `NativeStaysCurrent`, `OffStaysOff`, `SpecIsOfTrace`,
`BufferIsOfEpisode`, `TypesHold` and the action property `VersionsNameSpecs`
follow.

One compile of a specialization is in flight. `OneJob` ties three things the steps
move apart: a compile in the queue or at the worker, before the cache took note of
its end, means `inflight`; while the worker runs one there is none behind it; no two
are queued. `CompilesAreCounted` holds even where compiles panic, which leaves
`inflight` set for good; the converse, `InflightIsOneJob`, is what a panic breaks,
and says so by its precondition.

The promise (`PromiseKept`). Every step of an `Adaptive` is a step of `Evaluator`,
or none: `Init` maps to its `Init`, `StepSees` maps `[Next]_vars`. Most steps are
seen by no caller (`Unseen`, `GoesOnUnseen`); a call that returns must return the
program's value at its inputs, which takes `ResultsExact`'s invariant and what
`PassOK` adds: what a session's call has found when it looks for the lock, notes a
pass or has one fail. `FlipsAlwaysTeach` needs the same: a flip counted is of the
episode's specialization, at inputs that take some pinned select otherwise; unless
the specialization is outdated, the retrace under the same lock unpins that select.

`Variants`. None of its four invariants is inductive, and they need one another. `BuildsOK`
says who builds a pattern: the background, then its slot is marked and no other job
in the queue or at work has it; or a thread, then it holds the index, whose slot is
empty. From there a variant kept and not yet entered belongs to one job, which alone
knows its number (`BodiesOK`), a slot's number stands for a body of the slot's
pattern (`SlotsOK`), code is the first compiled under its key (`CodeOK`), and so a
tag a session holds is of a body right for its binding within its form's limit
(`CallOK`, `SessionOK`). `LaidOK` is for the announcement: a session that could run
a variant and does not was laid before an announcement that is out, or still to
come. `ResultsAreExact`, `OneBody`, `FormsShare` and `LandingsAreTold` read it off;
`MarksHaveJobs` is the safety half of `SlotsSettle`. That a body keeps one variant
too many (`BodiesBounded`) breaks none of them.

What callers see of it (`InstancesServed`) is `Evaluator` again. An instance laid is a
binding, a main phase an evaluation in its session; a call lasts until the code it asked
for in its own thread is made, though its value is there before (`ValueOK`), and a prolog
run again under a main phase is no answer. Of an action only what becomes of its own
thread is seen (`Untouched`, `Unmoved`): a step that goes on is none of `Evaluator`'s
(`Unseen`), the last is its `Answer` (`AnswerSeen`, `ValueAnswers`, which is where the
value must be the binding's), the first its `Bind` or `EvalSession` (`AskSeen`).

`Topo`. The two-way search is proved for any program and any order of it. `Found`
is its invariant: what a side has marked it has found, what it has found is what it
may find (`Above`, `Below`), and every edge of that has been looked at or is still to
come on the stack, the marks of earlier searches being smaller than its own. An edge
of either side keeps it (`ForwardKeeps`, `BackwardKeeps`), whichever way it goes: a
pop, a cycle, a push, an edge that leads nowhere new. A side that has run out is then
closed, and a closed set bounds what an instruction depends on (`DependsWithin`),
which gives both halves of `AnswersAreExact`: a refusal is a cycle, an answer is
none, and the side that moves is all that has to. `TakesExactly` says the same of
the steps.

All of this is of an order of the program with all its readers and no mark ahead of
the stamp, and that the order is one, at every step, is `OrderStaysSound`
(`OrderProofs`). Its invariant `OrderInv` adds to `OrderSound` the search under way
(`SearchOK`), that the program is of the instructions ordered (`ProgramOK`), that the
list's ends keep the first label and the last (`EndsOK`: a gap before the tail would
otherwise not be known to be there) and that a search marks with its own two numbers
(`MarksOK`: the stamp takes them back when the search ends). Four arguments meet in it.

* *A label is found.* An element linked into a gap of two or more takes its middle
  (`GapLands`). Where there is none, the widest range has room for every instruction,
  so a smallest range that is sparse enough is there (`RelabelRanged`), fewer than
  (4/3)^i in 2^i labels leave a step of at least one (`SparseSpares`), and spreading
  them moves none past another, nor past what is outside the range (`SpreadBetween`,
  `SpreadKeeps`); the range is aligned, so its last label is the tail's at most
  (`RangeWithin`). `InsertedAfter` is both: the list has the element there, and labels
  increase along it.
* *A side moves.* What is taken out leaves the rest in its order (`ThoseOrdered`); put
  back one after another in the order of the labels it had (`SortedSorts`, `PutEach`),
  it lies together, in its order, right after the accumulator or right before the
  kernel (`MoveMoves`).
* *Nothing is left before what it reads* (`MoveOrders`). The side is closed along what
  it was searched by, up to the other end: that is what the search's exactness says,
  and why the two proofs need one another.
* *It starts so.* Kahn's algorithm places one instruction a round, as in a program
  without a cycle one always waits whose operands are placed (`OneWaits`), none twice
  (`FreedAre`), whatever the hints say: after n rounds all are, each after what it
  reads (`ArrangePlaces`), and labels a step apart fit (`LabelsStart`).

Induction is by the least element of a set of naturals (`LeastOf`, `Inductive`), which
takes no operator; a function defined by recursion is one where each value is what the
one before makes it (`Recursive`). So the powers, the placement and the insertions of a
move are proved for every length, and nothing of the order is left to the bounds of
`topo`, which were where each of these facts was tried first.

`BodyChoices`. The record and the shortened main phase are two fields behind one
lock, and evaluations hold copies of the second outside it. `IInv` has `Agree`,
what the lock's holders leave of the two, and `RanOK`, what a copy is worth
later: it is of an older version, or it pins what the record does, or learning
is off. Each method of the record keeps `Agree` and *advances* the record
(`Advances`: within a version the pins stay; `TaughtOK`, `ObservesOK`), which is
what `RanOK` needs of the copies (`RanStays`). `BuiltPerSelect` rests on a count
of finite sets: a rebuild comes with a select more unpinned. `FlipsCountNow` is
where `RanOK` pays: a batch that began before any number of rebuilds counts its
failures only where its copy is still of the record's version, so they are
failures of the pins there are. `CodeNeverRegresses` needs of the jobs only
their type.

`Memo`. `TellsItsOwn` rests on two facts (`MemosOK`): in a memo, in use or given
back, every entry's epoch is at most the memo's own (`Memos`), and in one in use, what
has the memo's epoch is what its traversal has told (`Own`). `Begun` gives both
whatever memo it is given, since the epoch it takes is above every entry's, or, where
it wraps, every entry is cleared (`BegunClean`); a memo is one traversal's at a time.
The width of the epoch is any number above one, the traversals any set (`MemoSizes`, a
hypothesis of the theorem). With epochs of three values, two nodes and two or three
traversals at once TLC finds `TellsItsOwn` to hold as well, and to fail if the entries
stay where the epoch wraps; no run repeats it.

Model-checked only: the tape and the graph, whose passes and meanings are recursive
or folds over terms and sequences, so that what they compute for every input needs
induction over data of a kind the provers do not reach (numbers, as above, they do);
`TracingEnds`, `AskedCodeLands`, and everything else live
(`CompilesEnd`, `SlotsSettle`, `SearchesEnd`, and the liveness of `KeepsPromise`, that
every call of an `Adaptive` is answered): fairness is outside this prover's reach. That
every call of a specialized body is answered (`Promise!Spec` of `Variants`, whole) TLC
finds on the instance of `variants` too; no run repeats it. Proved only:
`CodeNeverRegresses`, `MemoTellsItsOwn`, `CompilesAreCounted`, `MarksHaveJobs`,
`TakesExactly` and the type invariants of `Adaptive`, `Variants` and `BodyChoices`, which
no run repeats.

## Not modelled

* Of the tape: the lanes and the serial fast path of an evaluation (the same ops in
  another loop), the recording of a trace (its truths are `Conditions`), collisions of
  the fingerprints by which rows are shared and products merged, globals and bound
  contexts in the lowering (a call's operands are given whole), how many threads there are.
* Of the graph: the table of nodes, so the order of operands under a commutative
  operation and everything that goes by a node's number; caches of what is a
  function of the graph (supports, reads, rewrites); definitions of functions in the
  middle of a run; infinities, NaN and rounding; module.rs and scope.rs.
* Of the machine: native code, SIMD approximations, the random programs of synth.rs,
  drawing and the Python layer. They keep no state another part meets, or compute with
  numbers out of TLC's reach.

## What could follow

Lemmas on what the interpreter's steps share, the slots of two pieces, and the order in
which a prolog's rows are moved.
