----------------------------- MODULE Specialize -----------------------------
(***************************************************************************)
(* The shortening of a compiled tape against a trace of its selects and    *)
(* the deciding of the selects a parameter binding chooses (crates/rsdag/  *)
(* src/tape/specialize.rs): the tape is lifted to a program, transformed,  *)
(* scheduled and emitted again.                                            *)
(*                                                                         *)
(* A select is a function "select" of a condition and its two arms.  A     *)
(* program's select is counted from 1 in the order of its instructions,    *)
(* and a choice is TRUE where the first arm was taken.                     *)
(***************************************************************************)
EXTENDS Emission

Select == [op |-> "fn", fn |-> "select"]
Comparisons == {"lt", "ne"}
IsSelect(inst) == inst.kind = Select
InOrder(p) == [i \in 1..Len(p.insts) |-> i]
SelectsFrom(p, first) == SelectSeq(InOrder(p), LAMBDA i : i >= first /\ IsSelect(p.insts[i]))
MainSelects(t) == Len(SelectSeq(t.ops, LAMBDA op : op.kind = Select))
                  - Len(SelectSeq(SubSeq(t.ops, 1, t.prologOps), LAMBDA op : op.kind = Select))

-----------------------------------------------------------------------------
(* The op among the first k whose block holds a slot then, and an operand   *)
(* as the value it reads there.                                             *)
HeldBy(t, k, s) == MaxOr({i \in 1..k : s \in WriteSlots(t.ops[i])}, 0)
ReadAt(t, k, src) ==
  LET i == HeldBy(t, k, src[2])
  IN  IF src[1] = "s" THEN Value(i, src[2] - t.ops[i].dst) ELSE Input(src[2])

(* Operand a of a kernel is an accumulator its fold does not read.          *)
Unread(k, a) ==
  /\ k.op \in {"gemv", "gemm"} /\ k.acc # None /\ a > Factors(k)
  /\ LET code == k.acc[a - Factors(k) - 1]
     IN  code.self >= 0 \/ code.fold \in {"plain", "neg"}

(* The tape as the program it was emitted from, the prolog's ops pure; what *)
(* is unread is one placeholder behind them.                                *)
Lift(t) ==
  LET n == Len(t.ops)
      unread == \E i \in 1..n, a \in 1..20 : a \in DOMAIN t.ops[i].src /\ Unread(t.ops[i].kind, a)
      operand(i, a) == IF Unread(t.ops[i].kind, a) THEN Value(n + 1, 0)
                       ELSE ReadAt(t, i - 1, t.ops[i].src[a])
      lifted(i) == Inst(t.ops[i].kind, [a \in DOMAIN t.ops[i].src |-> operand(i, a)],
                        t.ops[i].width, i <= t.prologOps)
      placeholder == Inst([op |-> "const", v |-> "nan"], <<>>, 1, TRUE)
  IN  [insts |-> [i \in 1..n |-> lifted(i)] \o IF unread THEN <<placeholder>> ELSE <<>>,
       roots |-> [q \in DOMAIN t.outputs |-> ReadAt(t, n, t.outputs[q])],
       place |-> IF unread THEN n + 1 ELSE 0, kept |-> None]

(* The prolog's values that are the state, where this tape puts them.       *)
KeptLayout(t, p) ==
  [at |-> [i \in DOMAIN p.insts |->
             IF i <= t.prologOps /\ t.ops[i].dst < t.stateLen THEN t.ops[i].dst ELSE -1],
   len |-> t.stateLen]

(* Per instruction its pin [cond, arm, choice], if it is a pinned select.   *)
Pins(p, first, choices, pin) ==
  LET selects == SelectsFrom(p, first)
      number(i) == SelectInSeq(selects, LAMBDA j : j = i)
      pinned(i) == [cond |-> p.insts[i].ins[1], choice |-> choices[number(i)],
                    arm |-> p.insts[i].ins[IF choices[number(i)] THEN 2 ELSE 3]]
  IN  [i \in DOMAIN p.insts |->
         IF Contains(selects, i) /\ pin[number(i)] THEN pinned(i) ELSE None]

(* A pinned select is its arm, through chains of them.                      *)
RECURSIVE Resolved(_, _)
Resolved(pins, r) ==
  IF IsValue(r) /\ r[2] \in DOMAIN pins /\ pins[r[2]] # None
  THEN Resolved(pins, pins[r[2]].arm) ELSE r

-----------------------------------------------------------------------------
(* An instruction of the main phase behind the others, and its value.       *)
Behind(p, kind, ins) == Push(p, Inst(kind, ins, 1, FALSE))
Newest(p) == Value(Len(p.insts), 0)
Number(n) == [op |-> "const", v |-> ToString(n)]

(* Mutant: every condition is taken for its truth.                          *)
MismatchesRaw(p, conds, expected) ==
  LET those(e) == SelectSeq(conds, LAMBDA c : expected[SelectInSeq(conds, LAMBDA d : d = c)] = e)
      held == Behind(p, Number(Len(those(TRUE))), <<>>)
      false == Behind(held, [op |-> "fn", fn |-> "sum"], those(FALSE))
      taken == Behind(false, [op |-> "add"], <<Newest(false), Newest(held)>>)
      true == Behind(taken, [op |-> "fn", fn |-> "sum"], those(TRUE))
  IN  Behind(true, [op |-> "sub"], <<Newest(taken), Newest(true)>>)

(* The truth of each condition: a comparison is its own, another condition   *)
(* is compared with zero.                                                   *)
Tested(p, conds) ==
  LET zero == Behind(p, Number(0), <<>>)
      compared(c) == IsValue(c) /\ c[3] = 0 /\ p.insts[c[2]].kind.op = "fn"
                     /\ p.insts[c[2]].kind.fn \in Comparisons
      truth(s, q) == [p |-> q, truths |-> Append(s.truths, Newest(q))]
  IN  FoldLeft(LAMBDA s, c :
                 IF compared(c) THEN [s EXCEPT !.truths = Append(@, c)]
                 ELSE truth(s, Behind(s.p, [op |-> "fn", fn |-> "ne"], <<c, Newest(zero)>>)),
               [p |-> zero, truths |-> <<>>], conds)

(* The values v summed, and the newest value with the sum added or it less  *)
(* the sum.                                                                 *)
Total(q, v) == IF Len(v) = 1 THEN [p |-> q, sum |-> v[1]]
               ELSE Given(Behind(q, [op |-> "fn", fn |-> "sum"], v),
                          LAMBDA b : [p |-> b, sum |-> Newest(b)])
Adding(q, v) == IF v = <<>> THEN q
                ELSE Given(Total(q, v), LAMBDA s : Behind(s.p, [op |-> "add"], <<s.sum, Newest(q)>>))
Subtracting(q, v) ==
  IF v = <<>> THEN q
  ELSE Given(Total(q, v), LAMBDA s : Behind(s.p, [op |-> "sub"], <<Newest(q), s.sum>>))

(* A value of p counting the conditions whose truth is not the expected one. *)
Mismatches(p, conds, expected) ==
  LET at(e) == SelectSeq([g \in DOMAIN conds |-> g], LAMBDA g : expected[g] = e)
      those(truths, e) == [q \in DOMAIN at(e) |-> truths[at(e)[q]]]
      held(q) == Behind(q, Number(Len(at(TRUE))), <<>>)
  IN  Given(Tested(p, conds), LAMBDA s :
        Subtracting(Adding(held(s.p), those(s.truths, FALSE)), those(s.truths, TRUE)))

(* The distinct conditions of the pinned selects the outputs reach, in the  *)
(* order of the selects from `first` on: what guards the shortened tape,    *)
(* the choice each was traced with, and the guard of each select (0: none). *)
GuardsOf(p, pins, first) ==
  LET direct == [p EXCEPT !.insts = [i \in DOMAIN @ |->
                   IF pins[i] = None THEN @[i]
                   ELSE [@[i] EXCEPT !.ins = <<pins[i].cond, pins[i].arm>>]]]
      rooted == {p.roots[r][2] : r \in {q \in DOMAIN p.roots : IsValue(p.roots[q])}}
      live == ReachedFrom(direct, rooted)
      add(s, i, c) ==
        IF Contains(s.conds, c)
        THEN [s EXCEPT !.of = Append(@, SelectInSeq(s.conds, LAMBDA d : d = c))]
        ELSE [conds |-> Append(s.conds, c), expected |-> Append(s.expected, pins[i].choice),
              of |-> Append(s.of, Len(s.conds) + 1)]
  IN  FoldLeft(LAMBDA s, i :
                 IF i \notin live \/ pins[i] = None THEN [s EXCEPT !.of = Append(@, 0)]
                 ELSE add(s, i, Resolved(pins, pins[i].cond)),
               [conds |-> <<>>, expected |-> <<>>, of |-> <<>>], SelectsFrom(p, first))

Emitted(p, t) == Given(RetainReachable(p), LAMBDA q :
                   [p |-> q, tape |-> Emit(q, Schedule(q), t.prologOps > 0)])

(* p with every pinned select replaced by its arm.                          *)
WithoutPinned(p, pins) ==
  [p EXCEPT !.insts = [i \in DOMAIN @ |-> [@[i] EXCEPT !.ins =
                                            [a \in DOMAIN @ |-> Resolved(pins, @[a])]]],
            !.roots = [r \in DOMAIN @ |-> Resolved(pins, @[r])]]

(* q, the program with the count of mismatches behind it, giving it out.    *)
GivingCount(q) ==
  [q EXCEPT !.roots = Append(@, Newest(q)),
            !.kept = IF @ = None THEN None
                     ELSE [@ EXCEPT !.at = [i \in DOMAIN q.insts |->
                                              IF i \in DOMAIN @ THEN @[i] ELSE -1]]]

(* p, the program of t, with the pinned selects replaced and guarded, each  *)
(* guard an output or their mismatches counted.                             *)
Shorten(t, p, pins, first, form) ==
  LET n == Len(p.roots)
      guarded(guards) ==
        IF form = "count" THEN GivingCount(Mismatches(p, guards.conds, guards.expected))
        ELSE [p EXCEPT !.roots = @ \o guards.conds]
      early(made, g) == LET r == made.p.roots[n + g]
                        IN  ~IsValue(r) \/ (made.p.insts[r[2]].pure /\ made.tape.prologOps > 0)
      checked(made, guards) ==
        IF form = "count" THEN {} ELSE {g \in DOMAIN guards.expected : early(made, g)}
      shortened(made, guards) ==
        [tape |-> made.tape, nReal |-> n, expected |-> guards.expected, form |-> form,
         prologGuards |-> {<<made.tape.outputs[n + g], guards.expected[g]>> :
                             g \in checked(made, guards)},
         guardOf |-> IF form = "count" THEN [k \in DOMAIN guards.of |-> 0] ELSE guards.of]
  IN  Given(GuardsOf(p, pins, first), LAMBDA guards :
        shortened(Emitted(WithoutPinned(guarded(guards), pins), t), guards))

(* `specialize`, the prolog's selects too; `specialize_main`, over the state *)
(* where the tape's own prolog puts it.                                      *)
SpecializeWhole(t, choices, pin) ==
  Given(Lift(t), LAMBDA p : Shorten(t, p, Pins(p, 1, choices, pin), 1, "each"))
SpecializeMain(t, choices, pin, form) ==
  LET first == t.prologOps + 1
  IN  Given(Lift(t), LAMBDA p :
        Shorten(t, [p EXCEPT !.kept = KeptLayout(t, p)], Pins(p, first, choices, pin), first, form))

(* The guard outputs of s hold, given whether each is other than zero, and   *)
(* the selects named as flipped.                                             *)
Holds(s, nonzero) ==
  IF s.form = "count" THEN ~nonzero[1] ELSE nonzero = s.expected
Flipped(s, nonzero) ==
  {k \in DOMAIN s.guardOf : s.guardOf[k] > 0 /\ nonzero[s.guardOf[k]] # s.expected[s.guardOf[k]]}

-----------------------------------------------------------------------------
(* The selects a parameter binding decides: the distinct pure conditions,    *)
(* and of each such select the number of its own.                            *)
ParamSelects(t, pureInputs) ==
  LET pure(p, r) == IF IsValue(r) THEN p.insts[r[2]].pure ELSE pureInputs[r[2]]
      cond(p, i) == p.insts[i].ins[1]
      numbered(p, decided, conds) ==
        [conds |-> [p EXCEPT !.roots = conds],
         of |-> [i \in ToSet(decided) |-> SelectInSeq(conds, LAMBDA c : c = cond(p, i))]]
  IN  Given(Lift(t), LAMBDA p :
      Given(SelectSeq(SelectsFrom(p, 1), LAMBDA i : pure(p, cond(p, i))), LAMBDA decided :
        IF \/ t.prologOps = 0 /\ (\A k \in DOMAIN pureInputs : ~pureInputs[k])
           \/ decided = <<>>
        THEN None
        ELSE numbered(p, decided,
               FoldLeft(LAMBDA s, i : IF Contains(s, cond(p, i)) THEN s ELSE Append(s, cond(p, i)),
                        <<>>, decided))))

Arms(p, ps, pattern) ==
  [i \in DOMAIN ps.of |-> p.insts[i].ins[IF pattern[ps.of[i]] THEN 2 ELSE 3]]

(* An operand as the main phase or the prolog sees it decided: for the main  *)
(* phase a prolog's select whose arm is an input stays.                      *)
RECURSIVE Decided(_, _, _, _)
Decided(p, arm, r, main) ==
  IF ~IsValue(r) \/ r[2] \notin DOMAIN arm THEN r
  ELSE IF ~IsValue(arm[r[2]]) /\ main /\ p.insts[r[2]].pure THEN r
  ELSE Decided(p, arm, arm[r[2]], main)

(* Mutant: the main phase takes a prolog's select's arm though an input.     *)
DecidedProgramThrough(p, arm) ==
  [p EXCEPT !.insts = [i \in DOMAIN @ |-> [@[i] EXCEPT !.ins =
              [a \in DOMAIN @ |-> Decided(p, arm, @[a], FALSE)]]],
            !.roots = [q \in DOMAIN @ |-> Decided(p, arm, @[q], FALSE)]]

DecidedProgram(p, arm) ==
  [p EXCEPT !.insts = [i \in DOMAIN @ |-> [@[i] EXCEPT !.ins =
              [a \in DOMAIN @ |-> Decided(p, arm, @[a], ~p.insts[i].pure)]]],
            !.roots = [q \in DOMAIN @ |-> Decided(p, arm, @[q], TRUE)]]

Decide(t, ps, pattern) ==
  Given(Lift(t), LAMBDA p : Emitted(DecidedProgram(p, Arms(p, ps, pattern)), t).tape)

(* The instructions left when decided, counted without compiling.            *)
OpsDecided(t, ps, pattern) ==
  Given(Lift(t), LAMBDA p : Len(RetainReachable(DecidedProgram(p, Arms(p, ps, pattern))).insts))

-----------------------------------------------------------------------------
(* What a term is worth where input k is worth V[k]: <<n>>, or <<>> for a   *)
(* NaN.  Functions other than these do not tell the selects apart.          *)
Both(Op(_, _), a, b) == IF a = <<>> \/ b = <<>> THEN <<>> ELSE <<Op(a[1], b[1])>>
NonZero(v) == v # <<0>>

RECURSIVE Worth(_, _)
Worth(t, V) ==
  LET a == CHOOSE x \in t[2] : TRUE
      b == IF t[2] = {a} THEN a ELSE CHOOSE x \in t[2] : x # a
      of(i) == Worth(t[3][i], V)
      compare == IF of(1) = <<>> \/ of(2) = <<>> THEN t[2] = "ne"
                 ELSE IF t[2] = "ne" THEN of(1) # of(2) ELSE of(1)[1] < of(2)[1]
  IN  CASE t[1] = "in"    -> V[t[2]]
        [] t[1] = "const" -> IF t = NaN THEN <<>> ELSE <<CHOOSE n \in 0..20 : ToString(n) = t[2]>>
        [] t[1] = "add"   -> Both(LAMBDA x, y : x + y, Worth(a, V), Worth(b, V))
        [] t[1] = "mul"   -> Both(LAMBDA x, y : x * y, Worth(a, V), Worth(b, V))
        [] t[1] = "neg"   -> Both(LAMBDA x, y : x - y, <<0>>, Worth(t[2], V))
        [] t[1] = "fn" /\ t[2] \in Comparisons -> IF compare THEN <<1>> ELSE <<0>>
        [] t[1] = "fn" /\ t[2] = "select" -> IF NonZero(of(1)) THEN of(2) ELSE of(3)
        [] t[1] = "fn" /\ t[2] = "sum" ->
             FoldLeft(LAMBDA s, x : Both(LAMBDA y, z : y + z, s, Worth(x, V)), <<0>>, t[3])
        [] t[1] = "fn"    -> of(1)
        [] OTHER          -> <<1>>

(* A term with each select the arm it picks there.                          *)
RECURSIVE Picked(_, _)
Picked(t, V) ==
  LET all(s) == [q \in DOMAIN s |-> Picked(s[q], V)]
  IN  CASE t[1] \in {"add", "mul"} -> <<t[1], {Picked(x, V) : x \in t[2]}>>
        [] t[1] = "neg"  -> <<"neg", Picked(t[2], V)>>
        [] t[1] = "fn" /\ t[2] = "select" ->
             Picked(IF NonZero(Worth(t[3][1], V)) THEN t[3][2] ELSE t[3][3], V)
        [] t[1] = "fn"   -> <<"fn", t[2], all(t[3])>>
        [] t[1] = "dot"  -> <<"dot", all(t[2]), all(t[3])>>
        [] t[1] = "solve" -> <<"solve", all(t[2]), all(t[3]), t[4]>>
        [] t[1] = "call" -> <<"call", t[2], t[3], all(t[4])>>
        [] OTHER         -> t
=============================================================================
