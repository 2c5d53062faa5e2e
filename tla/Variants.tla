------------------------------- MODULE Variants -------------------------------
(***************************************************************************)
(* A function body specialized per parameter binding (variant.rs).  The    *)
(* conditions a binding decides take a pattern; the body decided by that   *)
(* pattern is a variant, built when the pattern first turns up and shared  *)
(* by every form of the body: the default one, which does everything in    *)
(* the evaluation that asks, and those with_backend makes for a program,   *)
(* whose work goes to the background where they have a place for it        *)
(* (Submits), and which run compiled code where they have a backend        *)
(* (Compiles).  An instance's prolog chooses its variant and notes it in   *)
(* the state's tag; its main phases run what the tag says.  A landing in   *)
(* the background moves an epoch, and a caller whose prolog saw another    *)
(* epoch runs it again (adaptive.rs).                                      *)
(*                                                                         *)
(* Threads evaluate, each one instance at a time; the background thread    *)
(* runs jobs in order.  Both run the same jobs: `todo` has those of each,  *)
(* the one under way first.                                                *)
(*                                                                         *)
(* Data: a body is Full or the pattern that decided it; the value of the   *)
(* program at a binding is the binding, and a body decided by another      *)
(* pattern gives Garbage.  A compiled form is named by the form that       *)
(* compiled it.                                                            *)
(*                                                                         *)
(* Definitions whose comment begins with "Mutant" are wrong versions of    *)
(* the one after them: with it in its place a property must fail.          *)
(***************************************************************************)
EXTENDS Naturals, Sequences

CONSTANTS
    Threads, Worker,    \* the callers; the background thread
    Forms, Default,     \* the forms of the body; the one it has of its own
    Compiles, Submits,  \* forms with backend.compile, with backend.submit
    Specializing,       \* forms that specialize: enabled, and compiled or interpreted
    Wants,              \* forms whose min_shrink_pct deciding the selects reaches
    Limit,              \* [Forms -> Nat]: policy.max_variants, at least one
    Key, Keys,          \* [Forms -> Keys]: backend.key
    Program, Programs,  \* [Forms -> Programs]: whose evaluations share states
    Bindings, Patterns, PatternOf,  \* [Bindings -> Patterns]
    Shorter,            \* the patterns whose variant undercuts the full body
    Compilable,         \* the bodies a backend can compile
    MaxCalls,           \* bound: no call begins after this many
    Full, Building, Garbage, None

ASSUME FormsAssumption ==
    /\ Default \in Forms \ (Compiles \cup Submits)
    /\ Compiles \subseteq Forms /\ Submits \subseteq Forms
    /\ Specializing \subseteq Forms /\ Wants \subseteq Forms
    /\ Limit \in [Forms -> Nat \ {0}]
    /\ Key \in [Forms -> Keys] /\ Program \in [Forms -> Programs]
    /\ PatternOf \in [Bindings -> Patterns] /\ Shorter \subseteq Patterns
    /\ \A f, g \in Forms : Program[f] = Program[g] => Limit[f] = Limit[g]
    /\ Compilable \subseteq Patterns \cup {Full}
    /\ MaxCalls \in Nat /\ Worker \notin Threads /\ Bindings # {}

ASSUME MarkersAssumption ==
    /\ Full \notin Patterns /\ Building \notin Nat /\ None \notin Nat \cup Forms
    /\ None \notin Bindings /\ Garbage \notin Bindings \cup {None}
    /\ None \notin Threads \cup {Worker}
    /\ None \notin [form : Forms, binding : Bindings, seen : Nat, tag : Nat]

Executors == Threads \cup {Worker}

VARIABLES
    forms,      \* the forms made so far
    found,      \* Shared::found is set
    finding,    \* Shared::finding
    bodies,     \* Shared::bodies: variant v is bodies[v + 1]
    index,      \* Shared::index: of the patterns seen, Building or a variant
    indexLock,  \* who holds its mutex over several steps
    epoch,      \* Shared::epoch
    cached,     \* per variant and key, the form compiled first (BackendCache)
    made,       \* per form and variant, VariantBody::made
    making,     \* per form, the variants whose making is set
    condsMaking,\* the forms whose conds_making is set
    queue,      \* jobs submitted, the oldest first
    todo,       \* per executor, the jobs it runs now
    pc,         \* per thread: the step of its call
    call,       \* the form whose main phase it is to run, or that it makes
    session,    \* its instance: the form and binding, the epoch before its
                \* prolog, the state's tag
    calls,      \* calls begun
    out         \* what its last main phase gave

shared == <<found, finding, bodies, index, indexLock, epoch, cached>>
vars == <<forms, shared, made, making, condsMaking, queue, todo, pc, call,
          session, calls, out>>

\* Variants any form may keep.
Kept == UNION {0..Limit[f] - 1 : f \in Forms}

------------------------------------------------------------------------------
(* Jobs                                                                     *)

Job(kind, step, f, p, v) == [kind |-> kind, step |-> step, form |-> f, pattern |-> p, v |-> v]
FindJob(f) == Job("find", "find", f, None, 0)
BuildJob(f, p) == Job("build", "check", f, p, 0)
MakeJob(f, v) == Job("make", "look", f, None, v)
CondsJob(f) == Job("conds", "conds", f, None, 0)

Now(e) == Head(todo[e])
At(e, step) == todo[e] # <<>> /\ Now(e).step = step

Goes(e, step) == todo' = [todo EXCEPT ![e] = <<[@[1] EXCEPT !.step = step]>> \o Tail(@)]

\* Mutant of Ends: nothing tells of what landed.
EndsUntold(e) == todo' = [todo EXCEPT ![e] = Tail(@)]

\* The job's work is done: one of the background has yet to move the epoch.
Ends(e) ==
    IF e = Worker THEN Goes(e, "announce") ELSE todo' = [todo EXCEPT ![e] = Tail(@)]

FindSelects(e) ==
    /\ At(e, "find")
    /\ found' = TRUE
    /\ Ends(e)
    /\ UNCHANGED <<forms, finding, bodies, index, indexLock, epoch, cached, made, making,
                   condsMaking, queue, pc, call, session, calls, out>>

\* build: no room is left, or deciding shortens nothing.
CheckRoom(e) ==
    /\ At(e, "check")
    /\ Goes(e, IF Len(bodies) >= Limit[Now(e).form] \/ Now(e).pattern \notin Shorter
               THEN "file" ELSE "keep")
    /\ UNCHANGED <<forms, shared, made, making, condsMaking, queue, pc, call, session,
                   calls, out>>

\* Mutant of Keep: its index is the room there was when it was looked for.
KeepAtRoomSeen(e) ==
    /\ At(e, "keep")
    /\ bodies' = Append(bodies, Now(e).pattern)
    /\ todo' = [todo EXCEPT ![e][1] = [@ EXCEPT !.step = "file", !.v = 1]]
    /\ UNCHANGED <<forms, found, finding, index, indexLock, epoch, cached, made, making,
                   condsMaking, queue, pc, call, session, calls, out>>

\* The variant is kept, its index the one it was pushed at.
Keep(e) ==
    /\ At(e, "keep")
    /\ bodies' = Append(bodies, Now(e).pattern)
    /\ todo' = [todo EXCEPT ![e][1] = [@ EXCEPT !.step = "file", !.v = Len(bodies)]]
    /\ UNCHANGED <<forms, found, finding, index, indexLock, epoch, cached, made, making,
                   condsMaking, queue, pc, call, session, calls, out>>

Entered(p, v) == index' = [q \in DOMAIN index \cup {p} |-> IF q = p THEN v ELSE index[q]]

\* The index learns of the variant, under its lock, which an evaluation that
\* builds has held all along.
File(e) ==
    /\ At(e, "file")
    /\ indexLock = IF e = Worker THEN None ELSE e
    /\ indexLock' = None
    /\ Entered(Now(e).pattern, Now(e).v)
    /\ Ends(e)
    /\ UNCHANGED <<forms, found, finding, bodies, epoch, cached, made, making,
                   condsMaking, queue, pc, call, session, calls, out>>

MadeBe(f, v, form) == made' = [made EXCEPT ![f][v] = form]

\* get_or_try_insert: a form compiled under the key is taken, else compiled.
Look(e) ==
    /\ At(e, "look")
    /\ LET f == Now(e).form
           v == Now(e).v
       IN  IF cached[v][Key[f]] # None
           THEN MadeBe(f, v, cached[v][Key[f]]) /\ Ends(e)
           ELSE Goes(e, "compile") /\ UNCHANGED made
    /\ UNCHANGED <<forms, shared, making, condsMaking, queue, pc, call, session, calls, out>>

\* Mutant of Compile: no second look.
CompileOverFirst(e) ==
    /\ At(e, "compile")
    /\ LET f == Now(e).form
           v == Now(e).v
       IN  IF bodies[v + 1] \in Compilable
           THEN cached' = [cached EXCEPT ![v][Key[f]] = f] /\ MadeBe(f, v, f)
           ELSE UNCHANGED <<cached, made>>
    /\ Ends(e)
    /\ UNCHANGED <<forms, found, finding, bodies, index, indexLock, epoch, making,
                   condsMaking, queue, pc, call, session, calls, out>>

\* Compiled outside the cache's lock: one that was first is taken instead.
Compile(e) ==
    /\ At(e, "compile")
    /\ LET f == Now(e).form
           v == Now(e).v
           form == IF cached[v][Key[f]] # None THEN cached[v][Key[f]] ELSE f
       IN  IF bodies[v + 1] \in Compilable
           THEN cached' = [cached EXCEPT ![v][Key[f]] = form] /\ MadeBe(f, v, form)
           ELSE UNCHANGED <<cached, made>>
    /\ Ends(e)
    /\ UNCHANGED <<forms, found, finding, bodies, index, indexLock, epoch, making,
                   condsMaking, queue, pc, call, session, calls, out>>

\* The conditions' tape compiled: patterns are read faster, not differently.
Conds(e) ==
    /\ At(e, "conds")
    /\ Ends(e)
    /\ UNCHANGED <<forms, shared, made, making, condsMaking, queue, pc, call, session,
                   calls, out>>

\* What landed in the background is announced.
Announce(e) ==
    /\ At(e, "announce")
    /\ epoch' = epoch + 1
    /\ todo' = [todo EXCEPT ![e] = <<>>]
    /\ UNCHANGED <<forms, found, finding, bodies, index, indexLock, cached, made, making,
                   condsMaking, queue, pc, call, session, calls, out>>

Work(e) ==
    \/ FindSelects(e) \/ CheckRoom(e) \/ Keep(e) \/ File(e)
    \/ Look(e) \/ Compile(e) \/ Conds(e) \/ Announce(e)

Take ==
    /\ todo[Worker] = <<>> /\ queue # <<>>
    /\ todo' = [todo EXCEPT ![Worker] = <<Head(queue)>>]
    /\ queue' = Tail(queue)
    /\ UNCHANGED <<forms, shared, made, making, condsMaking, pc, call, session, calls, out>>

------------------------------------------------------------------------------
(* Callers                                                                  *)

Idle(t) == pc[t] = "idle" /\ todo[t] = <<>>

\* An instance of form f begins at binding b: the epoch is read before its
\* prolog chooses.
Opens(t, f, b) ==
    /\ session' = [session EXCEPT ![t] = [form |-> f, binding |-> b, seen |-> epoch, tag |-> 0]]
    /\ pc' = [pc EXCEPT ![t] = "variant"]

Prolog(t) ==
    /\ Idle(t) /\ calls < MaxCalls
    /\ \E f \in forms, b \in Bindings : Opens(t, f, b)
    /\ calls' = calls + 1
    /\ call' = [call EXCEPT ![t] = None]
    /\ out' = [out EXCEPT ![t] = None]
    /\ UNCHANGED <<forms, shared, made, making, condsMaking, queue, todo>>

\* A main phase, in any form of the program whose prolog laid the state; the
\* prolog runs again where something landed since (adaptive.rs).
Main(t) ==
    /\ Idle(t) /\ calls < MaxCalls /\ session[t] # None
    /\ \E g \in forms :
          /\ Program[g] = Program[session[t].form]
          /\ call' = [call EXCEPT ![t] = g]
          /\ IF epoch # session[t].seen
             THEN Opens(t, g, session[t].binding)
             ELSE pc' = [pc EXCEPT ![t] = "run"] /\ UNCHANGED session
    /\ calls' = calls + 1
    /\ out' = [out EXCEPT ![t] = None]
    /\ UNCHANGED <<forms, shared, made, making, condsMaking, queue, todo>>

\* over: a new form makes what it runs before anyone has it, here and now.
NewForm(t) ==
    /\ Idle(t)
    /\ \E f \in Forms \ (forms \cup {call[u] : u \in {u \in Threads : pc[u] = "forming"}}) :
          LET n == IF f \notin Compiles THEN 0
                   ELSE IF Len(bodies) < Limit[f] THEN Len(bodies) ELSE Limit[f]
          IN  /\ call' = [call EXCEPT ![t] = f]
              /\ making' = [making EXCEPT ![f] = 0..n - 1]
              /\ condsMaking' = condsMaking \cup (IF found THEN {f} \cap Compiles ELSE {})
              /\ todo' = [todo EXCEPT ![t] = [k \in 1..n |-> MakeJob(f, k - 1)]]
    /\ pc' = [pc EXCEPT ![t] = "forming"]
    /\ UNCHANGED <<forms, shared, made, queue, session, calls, out>>

Formed(t) ==
    /\ pc[t] = "forming" /\ todo[t] = <<>>
    /\ forms' = forms \cup {call[t]}
    /\ pc' = [pc EXCEPT ![t] = "idle"]
    /\ UNCHANGED <<shared, made, making, condsMaking, queue, todo, call, session, calls, out>>

Form(t) == session[t].form
Pattern(t) == PatternOf[session[t].binding]

\* Mutant of Lays: a prolog run again is taken for all that was asked.
LaysOnly(t, v) ==
    /\ session' = [session EXCEPT ![t].tag = v]
    /\ pc' = [pc EXCEPT ![t] = "idle"]

\* The prolog runs on variant v, which the state's tag notes.
Lays(t, v) ==
    /\ session' = [session EXCEPT ![t].tag = v]
    /\ pc' = [pc EXCEPT ![t] = IF call[t] = None THEN "idle" ELSE "run"]

\* run: where the form has a place for background work, there.
Dispatches(t, job) ==
    IF job.form \in Submits
    THEN queue' = Append(queue, job) /\ UNCHANGED todo
    ELSE todo' = [todo EXCEPT ![t] = <<job>>] /\ UNCHANGED queue

\* variant, to the pattern: the selects found, the conditions' tape asked for.
LookUp(t) ==
    /\ pc[t] = "variant"
    /\ LET f == Form(t) IN
       \/ /\ f \notin Specializing
          /\ Lays(t, 0)
          /\ UNCHANGED <<found, finding, condsMaking, queue, todo>>
       \/ /\ f \in Specializing \cap Submits /\ ~found
          /\ finding' = TRUE
          /\ queue' = IF finding THEN queue ELSE Append(queue, FindJob(f))
          /\ Lays(t, 0)
          /\ UNCHANGED <<found, condsMaking, todo>>
       \/ /\ f \in Specializing /\ (f \in Submits => found)
          /\ found' = TRUE
          /\ IF f \notin Wants
             THEN Lays(t, 0) /\ UNCHANGED <<condsMaking, queue, todo>>
             ELSE /\ pc' = [pc EXCEPT ![t] = "index"]
                  /\ condsMaking' = condsMaking \cup ({f} \cap Compiles)
                  /\ IF f \in Compiles \ condsMaking
                     THEN Dispatches(t, CondsJob(f))
                     ELSE UNCHANGED <<queue, todo>>
                  /\ UNCHANGED session
          /\ UNCHANGED finding
    /\ UNCHANGED <<forms, bodies, index, indexLock, epoch, cached, made, making, call,
                   calls, out>>

\* Mutant of Index: the pattern is not marked while it is built.
IndexUnmarked(t) ==
    /\ pc[t] = "index" /\ todo[t] = <<>> /\ indexLock = None
    /\ LET f == Form(t)
           p == Pattern(t)
       IN  IF p \in DOMAIN index
           THEN pc' = [pc EXCEPT ![t] = "choose"] /\ UNCHANGED <<indexLock, queue, todo, session>>
           ELSE /\ Dispatches(t, BuildJob(f, p))
                /\ IF f \in Submits
                   THEN Lays(t, 0) /\ UNCHANGED indexLock
                   ELSE pc' = [pc EXCEPT ![t] = "choose"] /\ indexLock' = t /\ UNCHANGED session
    /\ UNCHANGED <<forms, found, finding, bodies, index, epoch, cached, made, making,
                   condsMaking, call, calls, out>>

\* Mutant of Index: the index's lock is held on past the submission.
IndexLockHeld(t) ==
    /\ pc[t] = "index" /\ todo[t] = <<>> /\ indexLock = None
    /\ LET f == Form(t)
           p == Pattern(t)
       IN  IF p \in DOMAIN index
           THEN /\ IF index[p] = Building
                   THEN Lays(t, 0)
                   ELSE pc' = [pc EXCEPT ![t] = "choose"] /\ UNCHANGED session
                /\ UNCHANGED <<index, indexLock, queue, todo>>
           ELSE /\ indexLock' = t
                /\ Dispatches(t, BuildJob(f, p))
                /\ IF f \in Submits
                   THEN Entered(p, Building) /\ Lays(t, 0)
                   ELSE pc' = [pc EXCEPT ![t] = "choose"] /\ UNCHANGED <<index, session>>
    /\ UNCHANGED <<forms, found, finding, bodies, epoch, cached, made, making, condsMaking,
                   call, calls, out>>

\* variant, the pattern's slot: built here under the index's lock, or marked
\* as building and built in the background.
Index(t) ==
    /\ pc[t] = "index" /\ todo[t] = <<>> /\ indexLock = None
    /\ LET f == Form(t)
           p == Pattern(t)
       IN  \/ /\ p \in DOMAIN index /\ index[p] = Building
              /\ Lays(t, 0)
              /\ UNCHANGED <<index, indexLock, queue, todo>>
           \/ /\ p \in DOMAIN index /\ index[p] # Building
              /\ pc' = [pc EXCEPT ![t] = "choose"]
              /\ UNCHANGED <<index, indexLock, queue, todo, session>>
           \/ /\ p \notin DOMAIN index /\ f \in Submits
              /\ Entered(p, Building)
              /\ Dispatches(t, BuildJob(f, p))
              /\ Lays(t, 0)
              /\ UNCHANGED indexLock
           \/ /\ p \notin DOMAIN index /\ f \notin Submits
              /\ indexLock' = t
              /\ Dispatches(t, BuildJob(f, p))
              /\ pc' = [pc EXCEPT ![t] = "choose"]
              /\ UNCHANGED <<index, session>>
    /\ UNCHANGED <<forms, found, finding, bodies, epoch, cached, made, making, condsMaking,
                   call, calls, out>>

\* Have form f's code of variant v made, once.
Makes(t, f, v) ==
    /\ making' = [making EXCEPT ![f] = @ \cup {v}]
    /\ IF v \in making[f] THEN UNCHANGED <<queue, todo>> ELSE Dispatches(t, MakeJob(f, v))

Lacks(f, v) == f \in Compiles /\ made[f][v] = None

\* variant, the slot ready: one this form keeps, once it has its code.
Choose(t) ==
    /\ pc[t] = "choose" /\ todo[t] = <<>>
    /\ LET f == Form(t)
           v == index[Pattern(t)]
       IN  \/ /\ v >= Limit[f]
              /\ Lays(t, 0)
              /\ UNCHANGED <<making, queue, todo>>
           \/ /\ v < Limit[f] /\ ~Lacks(f, v)
              /\ Lays(t, v)
              /\ UNCHANGED <<making, queue, todo>>
           \/ /\ v < Limit[f] /\ Lacks(f, v)
              /\ Makes(t, f, v)
              /\ pc' = [pc EXCEPT ![t] = "made"]
              /\ UNCHANGED session
    /\ UNCHANGED <<forms, shared, made, condsMaking, call, calls, out>>

Made(t) ==
    /\ pc[t] = "made" /\ todo[t] = <<>>
    /\ LET v == index[Pattern(t)] IN Lays(t, IF Lacks(Form(t), v) THEN 0 ELSE v)
    /\ UNCHANGED <<forms, shared, made, making, condsMaking, queue, todo, call, calls, out>>

\* What body q gives an instance laid by it at binding b.
Value(q, b) == IF q \in {Full, PatternOf[b]} THEN b ELSE Garbage

\* main_batch: the variant the tag notes runs, whichever form of it there
\* is, and the form's own is asked for.
Run(t) ==
    /\ pc[t] = "run"
    /\ LET g == call[t]
           v == session[t].tag
       IN  /\ IF Lacks(g, v) THEN Makes(t, g, v) ELSE UNCHANGED <<making, queue, todo>>
           /\ out' = [out EXCEPT ![t] = Value(bodies[v + 1], session[t].binding)]
    /\ pc' = [pc EXCEPT ![t] = "idle"]
    /\ UNCHANGED <<forms, shared, made, condsMaking, call, session, calls>>

Step(t) == LookUp(t) \/ Index(t) \/ Choose(t) \/ Made(t) \/ Run(t) \/ Formed(t)

------------------------------------------------------------------------------

Init ==
    /\ forms = {Default}
    /\ found = FALSE /\ finding = FALSE
    /\ bodies = <<Full>>
    /\ index = << >> /\ indexLock = None
    /\ epoch = 0
    /\ cached = [v \in Kept |-> [k \in Keys |-> None]]
    /\ made = [f \in Forms |-> [v \in Kept |-> None]]
    /\ making = [f \in Forms |-> {}] /\ condsMaking = {}
    /\ queue = << >>
    /\ todo = [e \in Executors |-> << >>]
    /\ pc = [t \in Threads |-> "idle"]
    /\ call = [t \in Threads |-> None]
    /\ session = [t \in Threads |-> None]
    /\ calls = 0
    /\ out = [t \in Threads |-> None]

\* Nothing is left to do, and nobody calls any more.
Rests ==
    /\ \A t \in Threads : Idle(t)
    /\ forms = Forms /\ calls = MaxCalls
    /\ queue = <<>> /\ todo[Worker] = <<>>
    /\ UNCHANGED vars

Next ==
    \/ \E t \in Threads : Prolog(t) \/ Main(t) \/ NewForm(t) \/ Step(t)
    \/ \E e \in Executors : Work(e)
    \/ Take
    \/ Rests

Spec == Init /\ [][Next]_vars

\* A thread goes on within its call, and so does the background thread; no
\* caller need ever call.
FairSpec ==
    /\ Spec
    /\ \A t \in Threads : WF_vars(Step(t)) /\ WF_vars(Work(t))
    /\ WF_vars(Take) /\ WF_vars(Work(Worker))
------------------------------------------------------------------------------
(* Properties                                                               *)

Kinds == {"find", "build", "make", "conds"}
Jobs ==
    [kind : Kinds, step : {"find", "check", "keep", "file", "look", "compile", "conds", "announce"},
     form : Forms, pattern : Patterns \cup {None}, v : Nat]

Sessions == [form : forms, binding : Bindings, seen : 0..epoch, tag : Nat]

TypeOK ==
    /\ forms \subseteq Forms /\ condsMaking \subseteq Forms
    /\ found \in BOOLEAN /\ finding \in BOOLEAN
    /\ bodies \in Seq(Patterns \cup {Full})
    /\ DOMAIN index \subseteq Patterns
    /\ \A p \in DOMAIN index : index[p] \in {Building} \cup 0..Len(bodies) - 1
    /\ indexLock \in Threads \cup {None}
    /\ epoch \in Nat
    /\ cached \in [Kept -> [Keys -> Compiles \cup {None}]]
    /\ made \in [Forms -> [Kept -> Compiles \cup {None}]]
    /\ making \in [Forms -> SUBSET Kept]
    /\ queue \in Seq(Jobs)
    /\ todo \in [Executors -> Seq(Jobs)]
    /\ pc \in [Threads -> {"idle", "forming", "variant", "index", "choose", "made", "run"}]
    /\ call \in [Threads -> Forms \cup {None}]
    /\ session \in [Threads -> Sessions \cup {None}]
    /\ calls \in 0..MaxCalls
    /\ out \in [Threads -> Bindings \cup {Garbage, None}]

\* An instance's main phase gives the value at its binding, and finds its
\* tag within what its form keeps, whichever forms laid the state and run it
\* and whatever is built meanwhile (variant.rs:509-514).
ResultsExact ==
    \A t \in Threads :
        /\ pc[t] = "run" => session[t].tag < Limit[call[t]]
        /\ out[t] # None => out[t] = session[t].binding

\* However many forms see a pattern at once, its variant is built once
\* (variant.rs:402-424).
OneBodyPerPattern ==
    \A m, n \in DOMAIN bodies : bodies[m] = bodies[n] => m = n

\* The variant an instance could run by now.
Available(f, p) ==
    /\ f \in Specializing \cap Wants /\ found
    /\ p \in DOMAIN index /\ index[p] \in 1..Limit[f] - 1
    /\ ~Lacks(f, index[p])

\* No episode misses what lands in the background: one left on the full
\* body, by a form whose work goes there, while its variant is ready either
\* saw an older epoch, and so runs its prolog again, or the epoch has yet to
\* move (adaptive.rs:391-397, extern_fn.rs forms_epoch).
LandingsTold ==
    \A t \in Threads :
        Idle(t) /\ session[t] # None =>
            LET s == session[t] IN
            s.form \in Submits /\ s.tag = 0 /\ Available(s.form, PatternOf[s.binding])
            => s.seen # epoch \/ queue # <<>> \/ todo[Worker] # <<>>

\* Programs of one backend share the code of a body: all that have it have
\* the one form compiled first (extern_fn.rs:16-19, variant.rs:482-484).
SharedForms ==
    \A f, g \in Forms : Key[f] = Key[g] =>
        \A v \in Kept : made[f][v] # None /\ made[g][v] # None => made[f][v] = made[g][v]

\* "The bodies a function keeps, the full one included" (variant.rs:67-69).
BodiesBounded == \A f \in forms : Len(bodies) <= Limit[f]

\* A pattern marked as building is built: no pattern stays on the full body
\* for good because its variant was once asked for (variant.rs:92-100).
SlotsSettle ==
    \A p \in Patterns :
        (p \in DOMAIN index /\ index[p] = Building) ~> (p \in DOMAIN index /\ index[p] # Building)
------------------------------------------------------------------------------
(* What a caller sees                                                       *)

\* A call goes on until what its evaluation builds is built; a form being made
\* is no call.
Asks(t) ==
    IF pc[t] = "forming" \/ Idle(t) THEN "nothing"
    ELSE IF call[t] = None THEN "binding" ELSE "value"

AnyBinding == CHOOSE b \in Bindings : TRUE
Binds(t) == IF session[t] = None THEN None ELSE session[t].binding
Given(t) == <<IF session[t] = None THEN AnyBinding ELSE session[t].binding, "once">>
Gives(t) == IF Asks(t) = "nothing" /\ out[t] # None THEN <<out[t], "once">> ELSE None

Promise == INSTANCE Evaluator WITH
    Callers <- Threads, Points <- {"once"},
    asked <- [t \in Threads |-> Asks(t)],
    input <- [t \in Threads |-> Given(t)],
    session <- [t \in Threads |-> Binds(t)],
    result <- [t \in Threads |-> Gives(t)]

\* A body specialized is the evaluator an Adaptive is, to those who run it: its
\* variants, their forms, the index and its lock are invisible, and what a call
\* is given is the value at its binding (variant.rs:1-30, 509-514).
ServesInstances == Promise!Init /\ [][Promise!Next]_(Promise!vars)
=============================================================================
