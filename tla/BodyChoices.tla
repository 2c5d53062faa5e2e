------------------------------ MODULE BodyChoices ------------------------------
(***************************************************************************)
(* A variant of a function body learns which arms its instances' selects   *)
(* take as they run (variant.rs, struct Choice): a trace of some of them   *)
(* builds a main phase shortened against it, in which instances run from   *)
(* then on, those whose guards fail again on the variant's own; what they  *)
(* flipped is traced and unpinned, and the main phase shortened again.     *)
(* Every form of the body shares what one learns; a form that compiles has *)
(* code of its own of each shortened main phase.  Evaluations do not wait  *)
(* for one another: one that finds the record taken teaches nothing, and   *)
(* one trace is on its way at a time.                                      *)
(*                                                                         *)
(* One variant is modelled; they share nothing but the queue.  A shortened *)
(* main phase is the version it was built at and the arms it pins; an      *)
(* instance is its trace, and its guards hold where it takes the arms      *)
(* pinned.  Threads run batches of instances, the background thread jobs   *)
(* in order: `todo` has the job of each.                                   *)
(*                                                                         *)
(* Definitions whose comment begins with "Mutant" are wrong versions of    *)
(* the one after them.                                                     *)
(***************************************************************************)
EXTENDS Choices, Sequences, FiniteSets

CONSTANTS
    Threads, Worker,    \* the callers; the background thread
    Forms,              \* forms that specialize over choices
    Compiles, Submits,  \* those with backend.compile, with backend.submit
    Compilable,         \* the pins a shortened main phase of which compiles
    Instances, Takes,   \* [Instances -> Traces]
    Batches,            \* the batches run: sets of instances
    Traced,             \* TRACED: the instances of a batch traced
    MinSelects,         \* ChoicePolicy::min_selects
    MainOps, SpecOps(_),\* main-phase length; shortened by pins
    MaxBatches,         \* bound: no batch begins after this many
    None

ASSUME BodyChoicesAssumption ==
    /\ Worker \notin Threads /\ None \notin Threads \cup {Worker}
    /\ Forms # {} /\ Compiles \subseteq Forms /\ Submits \subseteq Forms
    /\ IsFiniteSet(Selects) /\ IsFiniteSet(Instances)
    /\ Takes \in [Instances -> Traces]
    /\ Batches \subseteq (SUBSET Instances) \ {{}}
    /\ Traced \in Nat \ {0} /\ MinSelects \in Nat
    /\ MainOps \in Nat /\ MaxBatches \in Nat

Executors == Threads \cup {Worker}

VARIABLES
    learned,    \* Choice::learned
    lock,       \* who holds its mutex
    spec,       \* Choice::spec: its version and pins, or None
    tracing,    \* Choice::tracing
    specMade,   \* per form, VariantBody::spec_made: a version and pins, or None
    specMaking, \* per form, VariantBody::spec_making
    queue,      \* jobs submitted, the oldest first
    todo,       \* per executor, the job it runs now, or None
    pc,         \* per thread: the step of its batch
    form,       \* the form it runs
    batch,      \* its instances
    rows,       \* those it is to trace
    ran,        \* the shortened main phase it runs, or None
    begun       \* batches begun

caller == <<pc, form, batch, rows, ran, begun>>
vars == <<learned, lock, spec, tracing, specMade, specMaking, queue, todo, caller>>

PinsSet == UNION {[S -> Arms] : S \in SUBSET Selects}
Specs == [ver : Nat, pins : PinsSet]

ASSUME SpecAssumption ==
    /\ None \notin Specs
    /\ \A p \in PinsSet : SpecOps(p) \in Nat

\* The guards of a shortened main phase at instance x.
Holds(pins, x) == \A s \in DOMAIN pins : Takes[x][s] = pins[s]

\* spread: up to Traced of the instances S, which may come in any order.
Spreads(S) ==
    LET m == IF Cardinality(S) < Traced THEN Cardinality(S) ELSE Traced
    IN  {q \in [1..m -> S] : \A i, j \in 1..m : q[i] = q[j] => i = j}

------------------------------------------------------------------------------
(* Jobs                                                                     *)

LearnJob(items) == [kind |-> "learn", step |-> "lock", items |-> items]
MakeJob(f, s) == [kind |-> "make", step |-> "compile", form |-> f, spec |-> s]

\* Where form f puts work: the background, or the evaluation that asks.
Dispatches(t, f, job) ==
    IF f \in Submits
    THEN queue' = Append(queue, job) /\ UNCHANGED todo
    ELSE todo' = [todo EXCEPT ![t] = job] /\ UNCHANGED queue

At(e, step) == todo[e] # None /\ todo[e].step = step
Goes(e, step) == todo' = [todo EXCEPT ![e].step = step]
Ends(e) == todo' = [todo EXCEPT ![e] = None]

Take ==
    /\ todo[Worker] = None /\ queue # <<>>
    /\ todo' = [todo EXCEPT ![Worker] = Head(queue)]
    /\ queue' = Tail(queue)
    /\ UNCHANGED <<learned, lock, spec, tracing, specMade, specMaking, caller>>

\* A shortened main phase compiled, of what it was asked for.
CompileSpec(e) ==
    /\ At(e, "compile")
    /\ IF todo[e].spec.pins \in Compilable THEN Goes(e, "store") ELSE Ends(e)
    /\ UNCHANGED <<learned, lock, spec, tracing, specMade, specMaking, queue, caller>>

\* Mutant of StoreSpec: what landed first stays.
StoreFirst(e) ==
    /\ At(e, "store")
    /\ specMade' = [specMade EXCEPT ![todo[e].form] = IF @ = None THEN todo[e].spec ELSE @]
    /\ Ends(e)
    /\ UNCHANGED <<learned, lock, spec, tracing, specMaking, queue, caller>>

\* Its code lands, unless that of a newer one did.
StoreSpec(e) ==
    /\ At(e, "store")
    /\ specMade' = [specMade EXCEPT ![todo[e].form] =
                        IF @ = None \/ @.ver < todo[e].spec.ver THEN todo[e].spec ELSE @]
    /\ Ends(e)
    /\ UNCHANGED <<learned, lock, spec, tracing, specMaking, queue, caller>>

LearnLock(e) ==
    /\ At(e, "lock") /\ lock = None
    /\ lock' = e
    /\ Goes(e, "learn")
    /\ UNCHANGED <<learned, spec, tracing, specMade, specMaking, queue, caller>>

\* The traces observed in turn: a select any two of them disagree in, the one
\* held included, is unpinned; the last is the one held.
ObserveAll(c, ts) ==
    [Observe(c, ts[Len(ts)]) EXCEPT
        !.unpinned = c.unpinned
            \cup (UNION {Differing(c, ts[i]) : i \in DOMAIN ts})
            \cup {s \in Selects : \E i, j \in DOMAIN ts : ts[i][s] # ts[j][s]}]

\* Mutant of Taught: a main phase once built is kept.
TaughtOnce(c, ts) ==
    LET o == ObserveAll(c, ts)
        b == Built(o, SpecOps(Pinned(o)), MainOps)
        n == NewVersion(b)
    IN  IF c.built > 0 THEN <<o, spec>>
        ELSE IF b.off THEN <<b, None>>
        ELSE <<n, [ver |-> n.version, pins |-> Pinned(n)]>>

\* Mutant of Taught: shortened again by every trace.
TaughtAlways(c, ts) ==
    LET o == ObserveAll(c, ts)
        b == Built(o, SpecOps(Pinned(o)), MainOps)
        n == NewVersion(b)
    IN  IF b.off THEN <<b, None>>
        ELSE <<n, [ver |-> n.version, pins |-> Pinned(n)]>>

\* Mutant of Taught: off leaves the main phase built before.
TaughtOffKeepsSpec(c, ts) ==
    LET o == ObserveAll(c, ts)
        b == Built(o, SpecOps(Pinned(o)), MainOps)
        n == NewVersion(b)
    IN  IF c.built > 0 /\ o.unpinned = c.unpinned THEN <<o, spec>>
        ELSE IF b.off THEN <<b, spec>>
        ELSE <<n, [ver |-> n.version, pins |-> Pinned(n)]>>

\* What the traces teach, c before them: the record and the shortened main
\* phase after them.  Shortened again where a select was unpinned, or for
\* the first time; off, and none, where that removes too little.
Taught(c, ts) ==
    LET o == ObserveAll(c, ts)
        b == Built(o, SpecOps(Pinned(o)), MainOps)
        n == NewVersion(b)
    IN  IF c.built > 0 /\ o.unpinned = c.unpinned THEN <<o, spec>>
        ELSE IF b.off THEN <<b, None>>
        ELSE <<n, [ver |-> n.version, pins |-> Pinned(n)]>>

\* learn, under the record's lock.
Learn(e) ==
    /\ At(e, "learn")
    /\ LET ts == [i \in DOMAIN todo[e].items |-> Takes[todo[e].items[i]]]
           after == IF learned.off THEN <<learned, spec>> ELSE Taught(learned, ts)
       IN  learned' = after[1] /\ spec' = after[2]
    /\ lock' = None
    /\ Goes(e, "traced")
    /\ UNCHANGED <<tracing, specMade, specMaking, queue, caller>>

\* Mutant of TraceEnds: a trace that comes too late leaves the flag.
TraceEndsUnlessOff(e) ==
    /\ At(e, "traced")
    /\ tracing' = learned.off
    /\ Ends(e)
    /\ UNCHANGED <<learned, lock, spec, specMade, specMaking, queue, caller>>

\* The next trace may begin.
TraceEnds(e) ==
    /\ At(e, "traced")
    /\ tracing' = FALSE
    /\ Ends(e)
    /\ UNCHANGED <<learned, lock, spec, specMade, specMaking, queue, caller>>

Work(e) ==
    \/ CompileSpec(e) \/ StoreSpec(e)
    \/ LearnLock(e) \/ Learn(e) \/ TraceEnds(e)

------------------------------------------------------------------------------
(* Batches                                                                  *)

Begin(t) ==
    /\ pc[t] = "idle" /\ todo[t] = None /\ begun < MaxBatches
    /\ \E f \in Forms, q \in Batches :
          form' = [form EXCEPT ![t] = f] /\ batch' = [batch EXCEPT ![t] = q]
    /\ begun' = begun + 1
    /\ pc' = [pc EXCEPT ![t] = "spec"]
    /\ ran' = [ran EXCEPT ![t] = None]
    /\ UNCHANGED <<learned, lock, spec, tracing, specMade, specMaking, queue, todo, rows>>

\* spec_form: the shortened main phase there is, run as it is where the form
\* interprets.
ReadSpec(t) ==
    /\ pc[t] = "spec"
    /\ ran' = [ran EXCEPT ![t] = spec]
    /\ pc' = [pc EXCEPT ![t] = IF spec # None /\ form[t] \in Compiles THEN "code" ELSE "run"]
    /\ UNCHANGED <<learned, lock, spec, tracing, specMade, specMaking, queue, todo, form,
                   batch, rows, begun>>

HasCode(t) == specMade[form[t]] # None /\ specMade[form[t]].ver = ran[t].ver

\* spec_form: its code, asked for where no evaluation did.
FindCode(t) ==
    /\ pc[t] = "code"
    /\ LET f == form[t] IN
       IF HasCode(t)
       THEN /\ pc' = [pc EXCEPT ![t] = "run"]
            /\ UNCHANGED <<specMaking, queue, todo, ran>>
       ELSE /\ specMaking' = [specMaking EXCEPT ![f] = ran[t].ver]
            /\ IF specMaking[f] = ran[t].ver
               THEN /\ pc' = [pc EXCEPT ![t] = "run"]
                    /\ ran' = [ran EXCEPT ![t] = None]
                    /\ UNCHANGED <<queue, todo>>
               ELSE /\ pc' = [pc EXCEPT ![t] = "asked"]
                    /\ Dispatches(t, f, MakeJob(f, ran[t]))
                    /\ UNCHANGED ran
    /\ UNCHANGED <<learned, lock, spec, tracing, specMade, form, batch, rows, begun>>

Asked(t) ==
    /\ pc[t] = "asked" /\ todo[t] = None
    /\ ran' = [ran EXCEPT ![t] = IF HasCode(t) THEN @ ELSE None]
    /\ pc' = [pc EXCEPT ![t] = "run"]
    /\ UNCHANGED <<learned, lock, spec, tracing, specMade, specMaking, queue, todo, form,
                   batch, rows, begun>>

\* The instances of a thread's batch whose guards fail.
Failed(t) == {x \in batch[t] : ~Holds(ran[t].pins, x)}

\* The batch runs, and observe takes the record where nobody has it.
Run(t) ==
    /\ pc[t] = "run"
    /\ IF lock = None
       THEN lock' = t /\ pc' = [pc EXCEPT ![t] = "observe"]
       ELSE UNCHANGED lock /\ pc' = [pc EXCEPT ![t] = "idle"]
    /\ UNCHANGED <<learned, spec, tracing, specMade, specMaking, queue, todo, form, batch, rows,
                   ran, begun>>

\* Mutant of Observes: failures of any version are flips.
ObservesAnyVersion(t) ==
    LET c == Ran(learned, Cardinality(batch[t])) IN
    IF learned.off THEN <<learned, spec, {}>>
    ELSE IF ran[t] = None
    THEN IF c.built > 0 \/ spec # None THEN <<c, spec, {}>>
         ELSE IF Cardinality(Selects) < MinSelects THEN <<[c EXCEPT !.off = TRUE], spec, {}>>
         ELSE <<c, spec, batch[t]>>
    ELSE IF Failed(t) = {} THEN <<c, spec, {}>>
    ELSE LET g == Flipped(c, Cardinality(Failed(t)))
         IN  IF g.off THEN <<g, None, {}>> ELSE <<g, spec, Failed(t)>>

\* What a batch shows: the record and the shortened main phase after it, and
\* the instances to trace some of.  With none yet, the batch; with one, those
\* that failed, unless it is outdated or its choices thrash.
Observes(t) ==
    LET c == Ran(learned, Cardinality(batch[t])) IN
    IF learned.off THEN <<learned, spec, {}>>
    ELSE IF ran[t] = None
    THEN IF c.built > 0 \/ spec # None THEN <<c, spec, {}>>
         ELSE IF Cardinality(Selects) < MinSelects THEN <<[c EXCEPT !.off = TRUE], spec, {}>>
         ELSE <<c, spec, batch[t]>>
    ELSE IF Failed(t) = {} \/ ran[t].ver # learned.version THEN <<c, spec, {}>>
    ELSE LET g == Flipped(c, Cardinality(Failed(t)))
         IN  IF g.off THEN <<g, None, {}>> ELSE <<g, spec, Failed(t)>>

\* observe, under the record's lock.
ObserveBatch(t) ==
    /\ pc[t] = "observe"
    /\ learned' = Observes(t)[1]
    /\ spec' = Observes(t)[2]
    /\ IF Observes(t)[3] = {}
       THEN pc' = [pc EXCEPT ![t] = "idle"] /\ UNCHANGED rows
       ELSE /\ pc' = [pc EXCEPT ![t] = "trace"]
            /\ \E q \in Spreads(Observes(t)[3]) : rows' = [rows EXCEPT ![t] = q]
    /\ lock' = None
    /\ UNCHANGED <<tracing, specMade, specMaking, queue, todo, form, batch, ran, begun>>

\* One trace at a time.
Trace(t) ==
    /\ pc[t] = "trace"
    /\ tracing' = TRUE
    /\ IF tracing THEN UNCHANGED <<queue, todo>> ELSE Dispatches(t, form[t], LearnJob(rows[t]))
    /\ pc' = [pc EXCEPT ![t] = "idle"]
    /\ rows' = [rows EXCEPT ![t] = <<>>]
    /\ UNCHANGED <<learned, lock, spec, specMade, specMaking, form, batch, ran, begun>>

Step(t) ==
    \/ ReadSpec(t) \/ FindCode(t) \/ Asked(t)
    \/ Run(t) \/ ObserveBatch(t) \/ Trace(t)

------------------------------------------------------------------------------

Init ==
    /\ learned = NoChoices /\ lock = None
    /\ spec = None
    /\ tracing = FALSE
    /\ specMade = [f \in Forms |-> None]
    /\ specMaking = [f \in Forms |-> 0]
    /\ queue = <<>>
    /\ todo = [e \in Executors |-> None]
    /\ pc = [t \in Threads |-> "idle"]
    /\ form = [t \in Threads |-> CHOOSE f \in Forms : TRUE]
    /\ batch = [t \in Threads |-> {}]
    /\ rows = [t \in Threads |-> <<>>]
    /\ ran = [t \in Threads |-> None]
    /\ begun = 0

\* Nothing is left to do, and nobody runs a batch any more.
Rests ==
    /\ \A t \in Threads : pc[t] = "idle"
    /\ \A e \in Executors : todo[e] = None
    /\ queue = <<>> /\ begun = MaxBatches
    /\ UNCHANGED vars

Next ==
    \/ \E t \in Threads : Begin(t) \/ Step(t)
    \/ \E e \in Executors : Work(e)
    \/ Take
    \/ Rests

Spec == Init /\ [][Next]_vars

\* A thread goes on within its batch and the background with its jobs; the
\* record's lock is had in the end by who waits for it.
FairSpec ==
    /\ Spec
    /\ \A t \in Threads : WF_vars(Step(t))
    /\ \A e \in Executors : SF_vars(Work(e))
    /\ WF_vars(Take)
------------------------------------------------------------------------------
(* Properties                                                               *)

Jobs ==
    [kind : {"learn"}, step : {"lock", "learn", "traced"}, items : Seq(Instances) \ {<<>>}]
    \cup [kind : {"make"}, step : {"compile", "store"}, form : Forms, spec : Specs]

TypeOK ==
    /\ learned \in ChoicesSet
    /\ lock \in Executors \cup {None}
    /\ spec \in Specs \cup {None}
    /\ tracing \in BOOLEAN
    /\ specMade \in [Forms -> Specs \cup {None}]
    /\ specMaking \in [Forms -> Nat]
    /\ queue \in Seq(Jobs)
    /\ todo \in [Executors -> Jobs \cup {None}]
    /\ pc \in [Threads -> {"idle", "spec", "code", "asked", "run", "observe", "trace"}]
    /\ form \in [Threads -> Forms]
    /\ batch \in [Threads -> SUBSET Instances]
    /\ rows \in [Threads -> Seq(Instances)]
    /\ ran \in [Threads -> Specs \cup {None}]
    /\ begun \in 0..MaxBatches

\* The record c and the shortened main phase s agree: s is of its version and
\* its pins, built of a trace; none is left once it is off; one was built per
\* select unpinned, and one before.
Agree(c, s) ==
    /\ c \in ChoicesSet /\ s \in Specs \cup {None}
    /\ s # None => s.ver = c.version /\ s.pins = Pinned(c) /\ c.built > 0
    /\ c.off => s = None
    /\ c.built <= 1 + Cardinality(c.unpinned) /\ c.version = c.built
    /\ c.built > 0 => c.trace \in Traces

\* A shortened main phase in use is outdated, or pins what the record does.
RanOK(t) ==
    ran[t] # None =>
        /\ ran[t].ver <= learned.version
        /\ ~learned.off /\ ran[t].ver = learned.version => ran[t].pins = Pinned(learned)

CallOK(t) ==
    /\ pc[t] = "code" => ran[t] # None
    /\ pc[t] = "trace" => rows[t] # <<>>

\* The shortened main phase every form runs is the one the record tells: of
\* its version, pinning what no trace saw flip (variant.rs:193-235).
SpecIsLearned ==
    spec # None => spec.ver = learned.version /\ spec.pins = Pinned(learned)

\* Once off, for thrash or too little shrink, nothing of it comes back,
\* traces on their way included (variant.rs:199, 213, 660).
OffHasNoSpec == learned.off => spec = None

\* A main phase is shortened again only by what unpins a select: no body is
\* rebuilt more often than it has selects, once more at most (variant.rs:206).
BuiltPerSelect ==
    /\ learned.built <= 1 + Cardinality(learned.unpinned)
    /\ learned.version = learned.built

\* The inductive invariant of this specification (BodyChoicesProofs).
IInv ==
    /\ TypeOK
    /\ Agree(learned, spec)
    /\ \A t \in Threads : RanOK(t) /\ CallOK(t)

\* A flip counts against the shortened main phase there is: some instance
\* that failed fails its guards too, whatever version it ran on
\* (variant.rs:656).
FlipsAreOfSpec ==
    [][learned'.flips # learned.flips =>
        \E t \in Threads :
            /\ pc[t] = "observe" /\ pc'[t] # "observe"
            /\ \E x \in batch[t] : ~Holds(Pinned(learned), x)]_vars

\* Code of an older version never replaces that of a newer one, whatever
\* order they land in (variant.rs:557-559).
CodeIsNewest ==
    [][\A f \in Forms : specMade[f] # None =>
        specMade'[f] # None /\ specMade'[f].ver >= specMade[f].ver]_vars

\* A trace on its way ends: learning never stops for good behind one
\* (variant.rs:672, 704).
TracingEnds == tracing ~> ~tracing

\* Code a form asked for of the main phase in force lands where it compiles,
\* or that main phase is replaced (variant.rs:543-567).
Unlanded(f) ==
    /\ spec # None /\ specMaking[f] = spec.ver /\ spec.pins \in Compilable
    /\ specMade[f] = None \/ specMade[f].ver < spec.ver
AskedCodeLands == \A f \in Forms : Unlanded(f) ~> ~Unlanded(f)
==============================================================================
