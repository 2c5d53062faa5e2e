-------------------------------- MODULE Values --------------------------------
(***************************************************************************)
(* What an expression is worth (crates/rsdag/src/eval.rs, semantics.rs),   *)
(* and by definition how it moves: a dual number <<value, derivative>>.    *)
(* The value is the code's; the derivative is the calculus the rules of    *)
(* Autodiff have to agree with, Undef at a kink, a jump and a pole.  A     *)
(* transcendental function is known at the points where it is rational.    *)
(* Systems have two unknowns.                                              *)
(***************************************************************************)
EXTENDS Calls, TLC

Half == <<1, 2>>
Dual(v, d) == <<v, d>>
Still(v) == Dual(v, Q(0))
NoDual == Dual(Undef, Undef)

DPlus(x, y) == Dual(Plus(x[1], y[1]), Plus(x[2], y[2]))
DTimes(x, y) == Dual(Times(x[1], y[1]), Plus(Times(x[2], y[1]), Times(x[1], y[2])))
DNeg(x) == Dual(Minus(x[1]), Minus(x[2]))
Along(x, v, slope) == Dual(v, Times(slope, x[2]))
DPowi(x, n) ==
  Along(x, Power(x[1], n), IF n = 0 THEN Q(0) ELSE Times(Q(n), Power(x[1], n - 1)))
DDiv(x, y) == DTimes(x, DPowi(y, -1))
DSum(xs) == FoldLeft(DPlus, Still(Q(0)), xs)

Whole(x) == x[2] = 1
FloorOf(x) == x[1] \div x[2]
Sign(x) == IF x = Q(0) THEN Q(0) ELSE IF x[1] > 0 THEN Q(1) ELSE Q(-1)
TruncOf(x) == IF x[1] < 0 THEN -FloorOf(Minus(x)) ELSE FloorOf(x)
RoundOf(x) == IF x[1] < 0 THEN -FloorOf(Plus(Minus(x), Half)) ELSE FloorOf(Plus(x, Half))

(* The rational root of a square, Undef for another number.                 *)
Root(x) == LET r(n) == {k \in 0..n : k * k = n}
           IN  IF x[1] < 0 \/ r(x[1]) = {} \/ r(x[2]) = {} THEN Undef
               ELSE Ratio(CHOOSE k \in r(x[1]) : TRUE, CHOOSE k \in r(x[2]) : TRUE)

(* Functions at the points where they and their slopes are rational.        *)
Known ==
  LET at(op, x, v, d) == <<op, x>> :> <<v, d>>
      zero(op) == at(op, Q(0), Q(0), Q(1))
  IN  zero("sin") @@ zero("tan") @@ zero("sinh") @@ zero("tanh") @@ zero("atan") @@ zero("log1p")
      @@ zero("expm1") @@ zero("asin") @@ zero("asinh") @@ zero("atanh")
      @@ at("exp", Q(0), Q(1), Q(1)) @@ at("cos", Q(0), Q(1), Q(0)) @@ at("cosh", Q(0), Q(1), Q(0))
      @@ at("ln", Q(1), Q(0), Q(1)) @@ at("acos", Q(0), Undef, Q(-1))
      @@ at("atan", Q(1), Undef, Half) @@ at("log1p", Q(1), Undef, Half)
      @@ at("atanh", Half, Undef, <<4, 3>>) @@ at("log2", Q(1), Q(0), Undef)
      @@ at("log10", Q(1), Q(0), Undef) @@ at("erf", Q(0), Q(0), Undef)
      @@ at("erfc", Q(0), Q(1), Undef) @@ at("cbrt", Q(1), Q(1), <<1, 3>>)
      @@ at("cbrt", Q(-1), Q(-1), <<1, 3>>) @@ at("cbrt", Q(8), Q(2), <<1, 12>>)
      @@ at("tgamma", Q(1), Q(1), Undef) @@ at("lgamma", Q(1), Q(0), Undef)

Steps == {"sign", "floor", "ceil", "round", "trunc"}
StepOf(op, x) == CASE op = "sign" -> Sign(x)
                   [] op = "floor" -> Q(FloorOf(x))
                   [] op = "ceil" -> Q(-FloorOf(Minus(x)))
                   [] op = "round" -> Q(RoundOf(x))
                   [] op = "trunc" -> Q(TruncOf(x))
Jumps(op, x) == CASE op = "sign" -> x = Q(0)
                  [] op = "round" -> Whole(Plus(x, Half))
                  [] OTHER -> Whole(x)

(* Value and slope of a unary function at a rational point.                 *)
UnaryAt(op, x) ==
  CASE op \in Steps -> <<StepOf(op, x), IF Jumps(op, x) THEN Undef ELSE Q(0)>>
    [] op = "abs" -> <<Times(x, Sign(x)), IF x = Q(0) THEN Undef ELSE Sign(x)>>
    [] op = "sqrt" /\ ~Less(Q(0), x) -> <<Q(0), IF x = Q(0) THEN Undef ELSE Q(0)>>
    [] op = "sqrt" /\ Less(Q(0), x) -> <<Root(x), Times(Half, Invert(Root(x)))>>
    [] op = "ln" /\ Less(x, LnFloor) -> <<Undef, Q(0)>>
    [] OTHER -> IF <<op, x>> \in DOMAIN Known THEN Known[op, x] ELSE <<Undef, Undef>>

BinaryAt(op, x, y) ==
  LET q == Times(x[1], Invert(y[1]))
      square == Plus(Times(x[1], x[1]), Times(y[1], y[1]))
      turn == Plus(Times(y[1], x[2]), Minus(Times(x[1], y[2])))
  IN  CASE op = "powf" /\ Whole(y[1]) /\ (y[2] = Q(0) \/ x[1] = Q(1)) -> DPowi(x, y[1][1])
        [] op = "mod" /\ q # Undef ->
             Dual(Plus(x[1], Minus(Times(y[1], Q(TruncOf(q))))),
                  IF Whole(q) THEN Undef ELSE Plus(x[2], Minus(Times(y[2], Q(TruncOf(q))))))
        [] op = "atan2" -> Dual(IF x[1] = Q(0) /\ Less(Q(0), y[1]) THEN Q(0) ELSE Undef,
                                Times(turn, Invert(square)))
        [] op = "hypot" -> Dual(Root(square), Times(Plus(Times(x[1], x[2]), Times(y[1], y[2])),
                                                    Invert(Root(square))))
        [] OTHER -> NoDual

(* The extremal of duals, Undef in its slope where two that move apart tie. *)
ExtremalOf(op, xs) ==
  LET beats(x, y) == IF op = "max" THEN Less(y, x) ELSE Less(x, y)
      best == {i \in DOMAIN xs : \A j \in DOMAIN xs : ~beats(xs[j][1], xs[i][1])}
      one == CHOOSE i \in best : \A j \in best : i <= j
  IN  Dual(xs[one][1], IF \A i \in best : xs[i][2] = xs[one][2] THEN xs[one][2] ELSE Undef)

ReduceAt(op, xs) ==
  CASE op = "sum" -> DSum(xs)
    [] op = "prod" -> FoldLeft(DTimes, Still(Q(1)), xs)
    [] op \in {"min", "max"} ->
         IF \E i \in DOMAIN xs : xs[i][1] = Undef THEN NoDual ELSE ExtremalOf(op, xs)

DotAt(x, y) == DSum([i \in DOMAIN x |-> DTimes(x[i], y[i])])

(* Component i of the solution of two equations.                            *)
SolveAt(m, b, i) ==
  LET minor(p, q, r, s) == DPlus(DTimes(p, s), DNeg(DTimes(q, r)))
      above == IF i = 1 THEN minor(b[1], m[2], b[2], m[4]) ELSE minor(m[1], b[1], m[3], b[2])
  IN  DDiv(above, minor(m[1], m[2], m[3], m[4]))

(* The dual of one node over its operands', no call. *)
NodeAt(e, x) ==
  CASE e.op = "const" -> Still(e.k)
    [] e.op = "add" -> DPlus(x[1], x[2])
    [] e.op = "mul" -> DTimes(x[1], x[2])
    [] e.op = "neg" -> DNeg(x[1])
    [] e.op = "pow" -> DPowi(x[1], e.k[1])
    [] e.op \in Unaries -> IF x[1][1] = Undef THEN NoDual
                           ELSE LET u == UnaryAt(e.op, x[1][1]) IN Along(x[1], u[1], u[2])
    [] e.op \in Binaries -> IF Undef \in {x[1][1], x[2][1]} THEN NoDual
                            ELSE BinaryAt(e.op, x[1], x[2])
    [] e.op \in Comparisons -> IF Undef \in {x[1][1], x[2][1]} THEN NoDual
                               ELSE Still(IF Compares(e.op, x[1][1], x[2][1]) THEN Q(1) ELSE Q(0))
    [] e.op = "select" -> CASE x[1][1] = Undef -> NoDual
                            [] x[1][1] = Q(0) -> x[3]
                            [] OTHER -> x[2]
    [] e.op \in Reductions -> ReduceAt(e.op, x)
    [] e.op = "dot" -> DotAt(Halves(x)[1], Halves(x)[2])
    [] e.op = "solve" -> SolveAt(SubSeq(x, 1, 4), SubSeq(x, 5, 6), e.k[1])

(* The dual of e where env gives the symbols theirs: a body runs over its   *)
(* parameters at the arguments, its other symbols as the caller's.          *)
RECURSIVE Ev(_, _, _)
Ev(g, e, env) ==
  CASE e.op = "sym" -> IF e.k[1] \in DOMAIN env THEN env[e.k[1]] ELSE NoDual
    [] e.op = "call" ->
         LET out == Output(g, Func(e), Out(e))
             params == g.funcs[Func(e)].params
             args == FullArgs(e)
             at == [p \in DOMAIN args |-> Ev(g, args[p], env)]
             bound == [s \in Range(params) |-> at[CHOOSE p \in DOMAIN params : params[p] = s]]
         IN  IF out.t = "zero" THEN Still(Q(0)) ELSE Ev(g, out.e, bound @@ env)
    [] OTHER -> NodeAt(e, [i \in DOMAIN e.a |-> Ev(g, e.a[i], env)])

(* At a point, by symbol: the value; the derivative by one of the symbols.  *)
ValueAt(g, e, pt) == Ev(g, e, [s \in DOMAIN pt |-> Still(pt[s])])[1]
SlopeAt(g, e, s, pt) ==
  Ev(g, e, [t \in DOMAIN pt |-> Dual(pt[t], IF t = s THEN Q(1) ELSE Q(0))])[2]
=============================================================================
