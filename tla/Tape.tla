-------------------------------- MODULE Tape --------------------------------
(***************************************************************************)
(* A tape from its expressions to its results: the compiler's passes       *)
(* (crates/rsdag/src/tape/compile.rs, one action each) and the evaluation  *)
(* of what they emit (tape/mod.rs, tape/calls.rs) over a work buffer that  *)
(* is never cleared: the prolog once per binding of the pure inputs, the   *)
(* main phase as often as asked, stages of calls and regions of ops in     *)
(* pieces that interleave.                                                 *)
(*                                                                         *)
(* A slot holds a term (Programs); a tape is right when its outputs are    *)
(* the terms the expressions mean.                                         *)
(***************************************************************************)
EXTENDS Fusion, Instructions, Specialize

CONSTANTS Cases,      \* what is compiled: [g, roots, inputs, mask, which]
          PieceLens,  \* the lengths a stage's pieces are cut to
          MaxRuns     \* bound: the evaluations of one tape

VARIABLES case,    \* the case compiled
          alike,   \* the pure inputs all hold one value
          phase,   \* the pass done last, or what the evaluation is at
          prog,    \* the program, roots and order of the pass
          order,
          tape,    \* what was emitted
          short,   \* how it was shortened, if it was
          slots,   \* the work slots
          gather,  \* the gather area behind them
          pc, hi,  \* the next op and the end of the range that runs
          parts,   \* the pieces of the stage or region that runs
          binds,   \* prologs begun, and evaluations begun
          runs,
          out      \* the outputs written

vars == <<case, alike, phase, prog, order, tape, short, slots, gather, pc, hi, parts, binds, runs, out>>
compiled == <<case, alike, prog, order, tape, short>>

Junk == <<"junk">>

-----------------------------------------------------------------------------
(* What the expressions mean: a composite function's call is its outputs    *)
(* over its arguments.                                                      *)
RECURSIVE Meaning(_, _, _)
Meaning(g, e, sym) ==
  LET nd == g.nodes[e]
      args == [a \in DOMAIN nd.args |-> Meaning(g, nd.args[a], sym)]
      f == g.funcs[nd.f]
      arg(name) == args[At(f.params, name)]
      bound(x) == IF Contains(f.params, x) THEN arg(x) ELSE sym[x]
  IN  CASE nd.op = "sym" -> sym[nd.name]
        [] nd.op = "solve" -> Solution(Matrix(args), RightSide(args), nd.comp)
        [] nd.op = "call" /\ f.outs[nd.out] = 0 -> <<"const", "0">>
        [] nd.op = "call" /\ f.composite ->
             Meaning(g, f.outs[nd.out], [x \in DOMAIN sym \cup ToSet(f.params) |-> bound(x)])
        [] nd.op = "call" -> Applied(nd.f, nd.out, args)
        [] OTHER ->
             Results(CASE nd.op = "const" -> [op |-> "const", v |-> nd.v]
                       [] nd.op = "fn"    -> [op |-> "fn", fn |-> nd.fn]
                       [] nd.op = "dot"   -> [op |-> "dot", n |-> Len(nd.args) \div 2]
                       [] OTHER           -> [op |-> nd.op], args)[0]

PureInputs == {k \in DOMAIN case.inputs : case.mask # None /\ case.mask[k]}

(* Input k's value: a pure one's of the binding, another's of the run.      *)
InputAt(b, r, k) == CASE k \notin PureInputs -> <<"in", k, r>>
                      [] alike         -> <<"in", 0, b>>
                      [] OTHER         -> <<"in", k, b>>
Inputs(b, r) == [k \in DOMAIN case.inputs |-> InputAt(b, r, k)]

Roots == [q \in DOMAIN case.which |-> case.roots[case.which[q]]]
Meanings(b, r) ==
  LET sym == [x \in ToSet(case.inputs) |-> InputAt(b, r, At(case.inputs, x))]
  IN  [q \in DOMAIN Roots |-> Meaning(case.g, Roots[q], sym)]

-----------------------------------------------------------------------------
NoLib(g) == [built |-> [f \in DOMAIN g.funcs |-> <<>>], templates |-> <<>>]
NoTape == [ops |-> <<>>]
Full == [how |-> "full"]

Init ==
  /\ case \in Cases
  /\ alike \in IF case.mask = None \/ case.g.funcs = <<>> THEN {FALSE} ELSE BOOLEAN
  /\ phase = "expressions"
  /\ prog = [p |-> None, lib |-> NoLib(case.g)]
  /\ order = <<>> /\ tape = NoTape /\ short = Full /\ slots = <<>> /\ gather = <<>>
  /\ pc = 1 /\ hi = 0 /\ parts = {} /\ binds = 0 /\ runs = 0 /\ out = <<>>

Pass(from, to) == phase = from /\ phase' = to
                  /\ UNCHANGED <<case, alike, short, slots, gather, pc, hi, parts, binds, runs, out>>

LowerPass ==
  /\ Pass("expressions", "lowered")
  /\ prog' = Lower(case.g, case.roots, case.inputs, case.mask, prog.lib)
  /\ UNCHANGED <<order, tape>>

(* Some of the roots, from the lowering of all: `Lowered::tape`.            *)
ViewPass ==
  /\ Pass("lowered", "viewed")
  /\ prog' = IF case.which = [r \in DOMAIN case.roots |-> r] THEN prog
             ELSE View(case.g, prog.p, [q \in DOMAIN case.which |-> prog.p.roots[case.which[q]]],
                       prog.lib, case.mask # None, PureInputs)
  /\ UNCHANGED <<order, tape>>

FusePass ==
  /\ Pass("viewed", "fused")
  /\ prog' = [prog EXCEPT !.p = FuseAccumulators(@, PureInputs)]
  /\ UNCHANGED <<order, tape>>

SchedulePass ==
  /\ Pass("fused", "scheduled")
  /\ order' = Schedule(prog.p)
  /\ UNCHANGED <<prog, tape>>

EmitPass ==
  /\ phase = "scheduled" /\ phase' = "bare"
  /\ tape' = Emit(prog.p, order, case.mask # None)
  /\ slots' = [s \in 0..(tape'.nWork - 1) |-> Junk]
  /\ gather' = [s \in 0..(tape'.maxArgs - 1) |-> Junk]
  /\ UNCHANGED <<case, alike, prog, order, short, pc, hi, parts, binds, runs, out>>

-----------------------------------------------------------------------------
(* The full tape shortened.  An input is worth a NaN, zero or one, the same *)
(* for all inputs where nothing is selected.                                *)
Valuations ==
  IF \E q \in DOMAIN tape.ops : tape.ops[q].kind = Select \/ short # Full
  THEN [DOMAIN case.inputs -> {<<>>, <<0>>, <<1>>}]
  ELSE {[k \in DOMAIN case.inputs |-> <<1>>]}

(* The conditions of a tape's selects from op `first` on, as a run of it    *)
(* meets them, and the choices they are where the inputs are worth V.       *)
Conditions(t, first, in) ==
  Given(Lift(t), LAMBDA p :
    RootValues([p EXCEPT !.roots = [k \in DOMAIN SelectsFrom(p, first) |->
                                      p.insts[SelectsFrom(p, first)[k]].ins[1]]],
               InOrder(p), in))
Truths(terms, V) == [k \in DOMAIN terms |-> NonZero(Worth(terms[k], V))]
Told(conds) == {Truths(conds, V) : V \in Valuations}
Traces(first) == Told(Conditions(tape, first, Inputs(1, 1)))

Replaced(t, how, keep) ==
  /\ tape' = t /\ short' = how
  /\ slots' = [s \in 0..(t.nWork - 1) |-> IF s < keep THEN slots[s] ELSE Junk]
  /\ gather' = [s \in 0..(t.maxArgs - 1) |-> Junk]
  /\ UNCHANGED <<case, alike, prog, order, pc, hi, parts, binds, runs, out>>

Shortened(how, s, trace, pin, keep) ==
  Replaced(s.tape, [how |-> how, full |-> tape, s |-> s, trace |-> trace, pin |-> pin], keep)

(* Against a trace of the whole tape, any of its selects pinned.            *)
SpecializeTape ==
  /\ phase = "bare" /\ short = Full /\ UNCHANGED phase
  /\ \E trace \in Traces(1) : \E pin \in [DOMAIN trace -> BOOLEAN] :
       Shortened("whole", SpecializeWhole(tape, trace, pin), trace, pin, 0)

(* Against a trace of the main phase, over the state the prolog has left.   *)
SpecializeOnState ==
  /\ phase = "ready" /\ short = Full /\ runs = 0 /\ UNCHANGED phase
  /\ \E trace \in Traces(tape.prologOps + 1), form \in {"each", "count"} :
       \E pin \in [DOMAIN trace -> BOOLEAN] :
         Shortened("main", SpecializeMain(tape, trace, pin, form), trace, pin, tape.stateLen)

(* The full main phase and the shortened one run over the same state,       *)
(* either at any pass.                                                      *)
SwitchBody ==
  /\ phase \in {"ready", "done"} /\ short.how = "main" /\ runs < MaxRuns
  /\ phase' = "ready"
  /\ Replaced(IF tape = short.full THEN short.s.tape ELSE short.full, short, tape.stateLen)

(* The selects of the parameters decided by the pattern of a binding.       *)
DecideSelects ==
  /\ phase = "bare" /\ short = Full /\ case.mask # None /\ UNCHANGED phase
  /\ \E ps \in {ParamSelects(tape, case.mask)} \ {None} :
       \E pattern \in Told(RootValues(ps.conds, InOrder(ps.conds), Inputs(1, 1))) :
         Replaced(Decide(tape, ps, pattern),
                  [how |-> "decided", full |-> tape, ps |-> ps, pattern |-> pattern], 0)

-----------------------------------------------------------------------------
(* One op over the slots `w`, the arguments of a call in `ga`.              *)
ReadIn(w, r) == IF r[1] = "s" THEN w[r[2]] ELSE InputAt(binds, runs, r[2])
Written(w, at, vals) == [s \in DOMAIN w |->
                           IF s - at \in DOMAIN vals THEN vals[s - at] ELSE w[s]]

(* The rows a prolog's instances share: each the first with its arguments.  *)
RowsAt(op) == op.dst + op.kind.ng * op.kind.b.stateLen
ShareRows(w, op) ==
  LET na == Len(op.src) \div op.kind.ng
      args(g) == [a \in 1..na |-> ReadIn(w, op.src[g * na + a])]
      row(g) == MinOf({h \in 0..g : args(h) = args(g)})
  IN  Written(w, RowsAt(op), [g \in 0..(op.kind.ng - 1) |-> <<"row", row(g)>>])

ArgsOf(op) == ArgWidth(op) \div op.kind.ng

(* The gathered arguments of instances g0..g1.                              *)
GatherPart(ga, w, op, g0, g1) ==
  LET na == ArgsOf(op)
      nIn == Len(op.src) \div op.kind.ng
      place(j) == IF op.kind.op = "prolog" \/ op.kind.reads = None THEN j
                  ELSE op.kind.reads[j]
      from(x) == {<<g, j>> \in (g0..g1) \X (1..nIn) : op.args + g * na + place(j) - 1 = x}
  IN  [x \in DOMAIN ga |-> IF from(x) = {} THEN ga[x]
                           ELSE LET at == CHOOSE y \in from(x) : TRUE
                                IN  ReadIn(w, op.src[at[1] * nIn + at[2]])]

(* Instance g's state as its row keeps it: the pure arguments of the row's  *)
(* owner, if the row is whole and of one owner and binding.                 *)
KeptState(w, op, g) ==
  LET block == Last(op.src)[2]
      sl == op.kind.b.stateLen
      row == w[block + op.kind.ng * sl + g]
      at(j) == w[block + row[2] * sl + j]
  IN  IF row[1] = "row" /\ at(0)[1] = "st" /\ \A j \in 0..(sl - 1) :
            at(j) = <<"st", op.kind.b.f, op.kind.b.outs, at(0)[4], j>>
      THEN at(0)[4] ELSE Junk

(* The outputs, or the state row, of instances g0..g1 from their arguments. *)
CallPart(ga, w, op, g0, g1) ==
  LET k == op.kind
      na == ArgsOf(op)
      given(g, a) == ga[op.args + g * na + a - 1]
      width == Len(k.b.outs)
      arg(g, a) ==
        LET kept == KeptState(w, op, g)
            pure == kept[PureRank(k.b.pure, a)]
        IN  IF ~k.stateful \/ ~k.b.pure[a] THEN given(g, a)
            ELSE IF kept = Junk THEN Junk
            ELSE IF (k.reads = None \/ Contains(k.reads, a)) /\ given(g, a) # pure
                 THEN <<"mixed", given(g, a), pure>> ELSE pure
      own == {g \in g0..g1 : w[RowsAt(op) + g] = <<"row", g>>}
      state == [x \in {g * k.b.stateLen + j : g \in own, j \in 0..(k.b.stateLen - 1)} |->
                  <<"st", k.b.f, k.b.outs,
                    [a \in 1..na |-> given(x \div k.b.stateLen, a)], x % k.b.stateLen>>]
      results == [x \in (g0 * width)..(g1 * width + width - 1) |->
                    Applied(k.b.f, k.b.outs[(x % width) + 1],
                            [a \in 1..k.na |-> arg(x \div width, a)])]
  IN  Written(w, op.dst, IF k.op = "prolog" THEN state ELSE results)

RunScalar(w, op) ==
  Written(w, op.dst, Results(op.kind, [a \in DOMAIN op.src |-> ReadIn(w, op.src[a])]))

-----------------------------------------------------------------------------
RegionsAt == {r \in tape.regions : r.starts[1] = pc}
StagesAt == {st \in tape.stages : st.lo = pc}

Begin(from, to, next) ==
  /\ pc' = from /\ hi' = to /\ phase' = next
  /\ UNCHANGED <<compiled, slots, gather, parts>>

(* `eval_prolog`: new pure inputs, and no main phase without one.           *)
EvalProlog ==
  /\ phase \in {"bare", "done"} /\ case.mask # None /\ runs < MaxRuns
  /\ Begin(1, tape.prologOps, "prolog")
  /\ binds' = binds + 1
  /\ UNCHANGED <<runs, out>>

(* `eval_main`, over what the prolog left and new values of the others.     *)
EvalMain ==
  /\ phase \in {"ready", "done"} /\ runs < MaxRuns
  /\ Begin(tape.prologOps + 1, Len(tape.ops), "main")
  /\ runs' = runs + 1
  /\ UNCHANGED <<binds, out>>

(* `eval`: the whole stream.                                                *)
Eval ==
  /\ phase \in {"bare", "done"} /\ runs < MaxRuns
  /\ Begin(1, Len(tape.ops), "main")
  /\ binds' = binds + 1 /\ runs' = runs + 1
  /\ UNCHANGED out

Running == phase \in {"prolog", "main"} /\ parts = {} /\ pc <= hi
RunStays == UNCHANGED <<compiled, phase, hi, binds, runs, out>>

(* An op outside of stages and regions.                                     *)
RunOp ==
  LET op == tape.ops[pc]
      gathered(w) == IF CallOp(op) THEN GatherPart(gather, w, op, 0, op.kind.ng - 1) ELSE gather
      executed(w, ga) ==
        /\ gather' = ga
        /\ slots' = IF CallOp(op) THEN CallPart(ga, w, op, 0, op.kind.ng - 1) ELSE RunScalar(w, op)
      over(w) == executed(w, gathered(w))
  IN  /\ Running /\ RegionsAt = {} /\ StagesAt = {}
      /\ over(IF op.kind.op = "prolog" THEN ShareRows(slots, op) ELSE slots)
      /\ pc' = pc + 1
      /\ UNCHANGED parts /\ RunStays

EnterRegion ==
  /\ Running
  /\ \E r \in RegionsAt :
    /\ parts' = {[kind |-> "ops", at |-> MinOf(PieceStarts(r)[q]), to |-> MaxOr(PieceStarts(r)[q], 0)]
                   : q \in DOMAIN r.starts}
    /\ pc' = r.hi
  /\ UNCHANGED <<slots, gather>> /\ RunStays

(* The rows of all the prologs first, then every call's instances in pieces *)
(* of the length the stage's width gives.                                   *)
EnterStage ==
  /\ Running
  /\ \E st \in StagesAt, len \in PieceLens :
    /\ slots' = FoldLeft(LAMBDA w, i : IF tape.ops[i].kind.op = "prolog"
                                       THEN ShareRows(w, tape.ops[i]) ELSE w,
                         slots, [q \in 1..(st.hi - st.lo + 1) |-> st.lo + q - 1])
    /\ parts' = UNION {{[kind |-> "gather", op |-> i, g0 |-> g,
                         g1 |-> MinOf({g + len - 1, tape.ops[i].kind.ng - 1})]
                          : g \in {x \in 0..(tape.ops[i].kind.ng - 1) : x % len = 0}}
                       : i \in st.lo..st.hi}
    /\ pc' = st.hi + 1
  /\ UNCHANGED gather /\ RunStays

(* A step of one piece: an op of a region's, or a call's piece gathering    *)
(* its arguments and then computing.                                        *)
PieceOp(x) ==
  /\ x.kind = "ops"
  /\ slots' = RunScalar(slots, tape.ops[x.at])
  /\ parts' = (parts \ {x}) \cup IF x.at = x.to THEN {} ELSE {[x EXCEPT !.at = @ + 1]}
  /\ UNCHANGED <<gather, pc>> /\ RunStays

PieceGather(x) ==
  /\ x.kind = "gather"
  /\ gather' = GatherPart(gather, slots, tape.ops[x.op], x.g0, x.g1)
  /\ parts' = (parts \ {x}) \cup {[x EXCEPT !.kind = "compute"]}
  /\ UNCHANGED <<slots, pc>> /\ RunStays

PieceCompute(x) ==
  /\ x.kind = "compute"
  /\ slots' = CallPart(gather, slots, tape.ops[x.op], x.g0, x.g1)
  /\ parts' = parts \ {x}
  /\ UNCHANGED <<gather, pc>> /\ RunStays

RunPiece == \E x \in parts : PieceOp(x) \/ PieceGather(x) \/ PieceCompute(x)

PrologDone ==
  /\ phase = "prolog" /\ parts = {} /\ pc > hi
  /\ phase' = "ready"
  /\ UNCHANGED <<compiled, slots, gather, pc, hi, parts, binds, runs, out>>

WriteOutputs ==
  /\ phase = "main" /\ parts = {} /\ pc > hi
  /\ out' = [q \in DOMAIN tape.outputs |-> ReadIn(slots, tape.outputs[q])]
  /\ phase' = "done"
  /\ UNCHANGED <<compiled, slots, gather, pc, hi, parts, binds, runs>>

(* The caller keeps an instance's state alone and puts it in another        *)
(* buffer: `state_len`.                                                     *)
MoveState ==
  /\ phase = "ready"
  /\ slots' = [s \in DOMAIN slots |-> IF s < tape.stateLen THEN slots[s] ELSE Junk]
  /\ gather' = [s \in DOMAIN gather |-> Junk]
  /\ UNCHANGED <<compiled, phase, pc, hi, parts, binds, runs, out>>

Next == \/ LowerPass \/ ViewPass \/ FusePass \/ SchedulePass \/ EmitPass
        \/ SpecializeTape \/ SpecializeOnState \/ SwitchBody \/ DecideSelects
        \/ EvalProlog \/ EvalMain \/ Eval \/ RunOp \/ EnterRegion \/ EnterStage
        \/ RunPiece \/ PrologDone \/ WriteOutputs \/ MoveState

Spec == Init /\ [][Next]_vars

-----------------------------------------------------------------------------
(* After each pass of the compiler, run in the order the scheduler gives it *)
(* the program still computes what the expressions mean: whatever kernels,  *)
(* fusions, templates and merged calls it formed (compile.rs, passes 1-4).  *)
PassesExact ==
  phase \in {"lowered", "viewed", "fused"} =>
    LET p == prog.p
        sym == [x \in ToSet(case.inputs) |-> InputAt(1, 1, At(case.inputs, x))]
        wanted == IF phase = "lowered" THEN case.roots ELSE Roots
    IN  RootValues(p, Schedule(p), Inputs(1, 1)) =
          [q \in DOMAIN wanted |-> Meaning(case.g, wanted[q], sym)]

(* The list scheduler places every instruction (its debug assertion): the   *)
(* program it is given has no cycle.                                        *)
AllPlaced ==
  phase = "fused" =>
    \A i \in DOMAIN prog.p.insts :
      OnDemand(prog.p, i) \/ Contains(Placeable(prog.p), i)

(* What the pieces still to run of a stage or region read, write and fill   *)
(* of the gather area.                                                      *)
InstancesOf(x) == x.g0..x.g1
ReadsOf(x) ==
  LET op == tape.ops[x.op]
      n == Len(op.src) \div op.kind.ng
      operands == {op.src[a] : a \in UNION {(g * n + 1)..(g * n + n) : g \in InstancesOf(x)}}
  IN  CASE x.kind = "ops" -> UNION {ReadSlots(tape.ops[i]) : i \in x.at..x.to}
        [] x.kind = "compute" -> ReadSlots(op) \ {r[2] : r \in {o \in ToSet(op.src) : o[1] = "s"}}
        [] OTHER -> {r[2] : r \in {o \in operands : o[1] = "s"}}
                      \cup (ReadSlots(op) \ {r[2] : r \in {o \in ToSet(op.src) : o[1] = "s"}})
WritesOf(x) ==
  LET op == tape.ops[x.op]
      width == IF op.kind.op = "prolog" THEN op.kind.b.stateLen ELSE Len(op.kind.b.outs)
  IN  IF x.kind = "ops" THEN UNION {WriteSlots(tape.ops[i]) : i \in x.at..x.to}
      ELSE (op.dst + x.g0 * width)..(op.dst + (x.g1 + 1) * width - 1)
FillsOf(x) ==
  LET op == tape.ops[x.op]
  IN  IF x.kind = "ops" THEN {}
      ELSE (op.args + x.g0 * ArgsOf(op))..(op.args + (x.g1 + 1) * ArgsOf(op) - 1)

(* Pieces of a stage, or of a region, run on several threads: none writes   *)
(* what another one still reads or writes, in the slots or in the gather    *)
(* area (tape/mod.rs plan_stages, compile.rs regions and allocation).       *)
PiecesApart ==
  \A x, y \in parts : x # y =>
    /\ WritesOf(x) \cap (ReadsOf(y) \cup WritesOf(y)) = {}
    /\ FillsOf(x) \cap FillsOf(y) = {}

(* An evaluation writes what the expressions mean over the inputs given to  *)
(* it and to the prolog its buffer holds, whatever ran before, however the  *)
(* pieces interleaved, and after the state alone was moved to a new buffer. *)
OutputsExact ==
  phase = "done" /\ (short = Full \/ tape = short.full) => out = Meanings(binds, runs)

Alike(a, b, V) == \A q \in DOMAIN b : Picked(a[q], V) = Picked(b[q], V)

(* A tape shortened against a trace, run over inputs worth anything: where  *)
(* its guards hold its real outputs are the full tape's, and they hold      *)
(* whenever the run takes the pinned choices again; a select is named as    *)
(* flipped exactly when a guard fails, and one of those named did choose    *)
(* otherwise; and what a prolog checks early are the guards it computed     *)
(* (specialize.rs, shorten, mismatches, holds and flipped).                 *)
GuardsTell ==
  phase = "done" /\ short.how \in {"whole", "main"} /\ tape # short.full =>
    LET s == short.s
        guards == SubSeq(out, s.nReal + 1, Len(out))
        first == IF short.how = "main" THEN short.full.prologOps + 1 ELSE 1
        conds == Conditions(short.full, first, Inputs(binds, runs))
        wanted == Meanings(binds, runs)
    IN  /\ \A V \in Valuations :
             LET nonzero == Truths(guards, V)
                 full == Truths(conds, V)
                 flipped == Flipped(s, nonzero)
             IN  /\ Holds(s, nonzero) => Alike(out, wanted, V)
                 /\ (\A k \in DOMAIN full : short.pin[k] => full[k] = short.trace[k])
                      => Holds(s, nonzero)
                 /\ s.form = "each" => (Holds(s, nonzero) <=> flipped = {})
                 /\ flipped # {} => \E k \in flipped : full[k] # short.trace[k]
        /\ \A early \in s.prologGuards :
             \E g \in DOMAIN guards : /\ ReadIn(slots, early[1]) = guards[g]
                                       /\ early[2] = s.expected[g]

ParametersRead(t) ==
  {k \in PureInputs :
     \E q \in (t.prologOps + 1)..Len(t.ops) : Contains(t.ops[q].src, <<"i", k>>)}

(* A tape decided by a pattern of its parameters' conditions is worth the   *)
(* full one wherever they take it; it has the number of instructions that   *)
(* was counted before it was compiled; and its main phase reads no          *)
(* parameter the full one's does not (specialize.rs, decide, decided).      *)
DecidedExact ==
  phase = "done" /\ short.how = "decided" =>
    LET conds == RootValues(short.ps.conds, InOrder(short.ps.conds), Inputs(binds, runs))
    IN  /\ \A V \in Valuations :
             Truths(conds, V) = short.pattern => Alike(out, Meanings(binds, runs), V)
        /\ Len(tape.ops) = OpsDecided(short.full, short.ps, short.pattern)
        /\ ParametersRead(tape) \subseteq ParametersRead(short.full)
=============================================================================
