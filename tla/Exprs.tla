-------------------------------- MODULE Exprs --------------------------------
(***************************************************************************)
(* Expressions and their constructors (crates/rsdag/src/graph/mod.rs,      *)
(* node.rs, field.rs), and what an expression is worth at a point          *)
(* (eval.rs, semantics.rs).                                                *)
(*                                                                         *)
(* Nodes are hash-consed: one node per structure.  An expression is that   *)
(* structure, so two equal ones are one node and operand order under a     *)
(* commutative operation, which is by node, is left open.  A symbol is a   *)
(* number.  Constants are exact rationals; a value that is no rational     *)
(* (an infinity, a NaN, a transcendental one) is Undef.                    *)
(***************************************************************************)
EXTENDS Integers, Sequences, FiniteSets, SequencesExt

CONSTANTS MaxExp,        \* the widest exponent of a power node (i32::MAX)
          PowfAsPowiMax, \* the constant real exponents that are integer powers
          ExactPowiMax,  \* the powers of constants that are folded
          ExpLimit,      \* above it exp is its tangent there
          LnFloor        \* at and below it ln is constant

ASSUME ExponentAssumption ==
  /\ {MaxExp, PowfAsPowiMax, ExactPowiMax} \subseteq Nat
  /\ 1 < MaxExp /\ 1 <= PowfAsPowiMax
  /\ PowfAsPowiMax <= MaxExp

(* `In` over a value that it names many times.                              *)
Given(v, In(_)) == In(v)

-----------------------------------------------------------------------------
(* The field of rationals: <<numerator, denominator>> in lowest terms.      *)

Undef == <<0, 0>>
Q(n) == <<n, 1>>

Magnitude(n) == IF n < 0 THEN -n ELSE n
RECURSIVE Gcd(_, _)
Gcd(a, b) == IF b = 0 THEN a ELSE Gcd(b, a % b)

Lowest(n, d, g) == IF d < 0 THEN <<-(n \div g), -(d \div g)>> ELSE <<n \div g, d \div g>>
Ratio(n, d) == IF d = 0 THEN Undef ELSE Lowest(n, d, Gcd(Magnitude(n), Magnitude(d)))

Plus(x, y) == Ratio(x[1] * y[2] + y[1] * x[2], x[2] * y[2])
Times(x, y) == Ratio(x[1] * y[1], x[2] * y[2])
Minus(x) == <<-x[1], x[2]>>
Invert(x) == Ratio(x[2], x[1])
RECURSIVE Power(_, _)
Power(x, n) == CASE n = 0 -> Q(1)
                 [] n > 0 -> Times(x, Power(x, n - 1))
                 [] n < 0 -> Invert(Power(x, -n))
Less(x, y) == x[1] * y[2] < y[1] * x[2]

Compares(c, x, y) == CASE c = "gt" -> Less(y, x)
                       [] c = "ge" -> ~Less(x, y)
                       [] c = "lt" -> Less(x, y)
                       [] c = "le" -> ~Less(y, x)
                       [] c = "eq" -> x = y
                       [] c = "ne" -> x # y

(* Whether the power of a constant is one.                                  *)
Folds(x, n) == /\ x # Undef /\ (x # Q(0) \/ n >= 0)
               /\ Magnitude(n) <= ExactPowiMax \/ x \in {Q(1), Q(-1)}

-----------------------------------------------------------------------------
(* Nodes: the operation, what it carries beside its operands, the operands. *)

Node(op, k, a) == [op |-> op, k |-> k, a |-> a]
Const(v) == Node("const", v, <<>>)
Sym(s) == Node("sym", <<s>>, <<>>)
Zero == [op |-> "const", k |-> <<0, 1>>, a |-> <<>>]
One == [op |-> "const", k |-> <<1, 1>>, a |-> <<>>]
IsConst(e) == e.op = "const"

Unaries == {"exp", "ln", "sqrt", "sin", "cos", "floor", "sinh", "cosh", "tanh", "atan", "tan",
            "log10", "log2", "log1p", "expm1", "cbrt", "abs", "sign", "ceil", "round", "trunc",
            "asin", "acos", "asinh", "acosh", "atanh", "erf", "erfc", "lgamma", "tgamma",
            "digamma", "trigamma"}
Binaries == {"powf", "mod", "atan2", "hypot"}
Comparisons == {"gt", "ge", "lt", "le", "eq", "ne"}
Reductions == {"sum", "prod", "min", "max"}

-----------------------------------------------------------------------------
(* The constructors: what folds or collapses is no node of its own.         *)

BothConst(x, y) == IsConst(x) /\ IsConst(y)
Add(x, y) ==
  CASE x = Zero -> y
    [] x # Zero /\ y = Zero -> x
    [] OTHER -> IF BothConst(x, y) THEN Const(Plus(x.k, y.k)) ELSE Node("add", <<>>, <<x, y>>)

Mul(x, y) ==
  CASE Zero \in {x, y} -> Zero
    [] One \in {x, y} /\ Zero \notin {x, y} -> IF x = One THEN y ELSE x
    [] OTHER -> IF BothConst(x, y) THEN Const(Times(x.k, y.k)) ELSE Node("mul", <<>>, <<x, y>>)

Neg(x) == CASE IsConst(x) -> Const(Minus(x.k))
            [] x.op = "neg" -> x.a[1]
            [] OTHER -> Node("neg", <<>>, <<x>>)

Sub(x, y) == Add(x, Neg(y))

Fits(n) == -MaxExp - 1 <= n /\ n <= MaxExp
Wide(x, n) == Node("powf", <<>>, <<x, Const(Q(n))>>)

(* Mutant: the exponents of a power of a power multiplied unchecked. *)
PowUnchecked(x, n) ==
  CASE n = 0 -> One
    [] n = 1 -> x
    [] n \notin {0, 1} /\ x.op = "pow" -> Node("pow", <<x.k[1] * n>>, x.a)
    [] OTHER -> Node("pow", <<n>>, <<x>>)
RECURSIVE Pow(_, _)
Pow(x, n) ==
  CASE n = 0 -> One
    [] n = 1 -> x
    [] n \notin {0, 1} /\ ~Fits(n) -> Wide(x, n)
    [] n \notin {0, 1} /\ Fits(n) /\ IsConst(x) /\ Folds(x.k, n) -> Const(Power(x.k, n))
    [] n \notin {0, 1} /\ Fits(n) /\ x.op = "pow" /\ Fits(x.k[1] * n) -> Pow(x.a[1], x.k[1] * n)
    [] OTHER -> Node("pow", <<n>>, <<x>>)

Recip(x) == Pow(x, -1)
Div(x, y) == Mul(x, Recip(y))

(* The values a function has at a constant however it is computed.          *)
AtZero == [exp |-> 1, sin |-> 0, cos |-> 1, sinh |-> 0, cosh |-> 1, tanh |-> 0, sqrt |-> 0]
AtOne == [ln |-> 0, sqrt |-> 1]

RECURSIVE Unary(_, _)
Unary(op, x) ==
  CASE op = "abs" /\ x.op \in {"abs", "sqrt"} -> x
    [] op = "abs" /\ x.op = "neg" -> Unary("abs", x.a[1])
    [] x = Zero /\ op \in DOMAIN AtZero -> Const(Q(AtZero[op]))
    [] x = One /\ op \in DOMAIN AtOne -> Const(Q(AtOne[op]))
    [] OTHER -> Node(op, <<>>, <<x>>)

IsSmall(e) == IsConst(e) /\ e.k[2] = 1 /\ Magnitude(e.k[1]) <= PowfAsPowiMax

Binary(op, x, y) ==
  IF op = "powf" /\ IsSmall(y) THEN Pow(x, y.k[1]) ELSE Node(op, <<>>, <<x, y>>)

Cmp(c, x, y) ==
  CASE IsConst(x) /\ IsConst(y) -> IF Compares(c, x.k, y.k) THEN One ELSE Zero
    [] OTHER -> Node(c, <<>>, <<x, y>>)

Select(c, x, y) == CASE c = Zero -> y
                     [] IsConst(c) /\ c # Zero -> x
                     [] ~IsConst(c) /\ x = y -> x
                     [] OTHER -> Node("select", <<>>, <<c, x, y>>)

UnitOf(op) == IF op = "prod" THEN Q(1) ELSE Q(0)
Combined(op, args) ==
  FoldLeft(LAMBDA acc, e : CASE ~IsConst(e) -> acc
                             [] IsConst(e) /\ op = "sum" -> Plus(acc, e.k)
                             [] OTHER -> Times(acc, e.k), UnitOf(op), args)

(* The constants of a reduction are combined; a zero factor is the product. *)
Reduce(op, args) ==
  Given(Combined(op, args), LAMBDA combined :
  LET open == SelectSeq(args, LAMBDA e : ~IsConst(e))
      rest == CASE op \in {"min", "max"} -> args
                [] op \in {"sum", "prod"} /\ combined = UnitOf(op) -> open
                [] OTHER -> Append(open, Const(combined))
  IN  CASE op = "prod" /\ combined = Q(0) -> Zero
        [] op # "prod" /\ rest = <<>> -> Zero
        [] op = "prod" /\ combined # Q(0) /\ rest = <<>> -> One
        [] ~(op = "prod" /\ combined = Q(0)) /\ Len(rest) = 1 -> rest[1]
        [] OTHER -> Node(op, <<>>, rest))

Dot(x, y) == CASE x = <<>> -> Zero
               [] Len(x) = 1 -> Mul(x[1], y[1])
               [] OTHER -> Node("dot", <<>>, x \o y)
Halves(a) == <<SubSeq(a, 1, Len(a) \div 2), SubSeq(a, Len(a) \div 2 + 1, Len(a))>>

(* The components of the solution of a system, the matrix by rows.          *)
Solve(m, b) ==
  IF Len(b) = 1 THEN <<Div(b[1], m[1])>> ELSE [i \in DOMAIN b |-> Node("solve", <<i>>, m \o b)]
Unknowns(e) == CHOOSE n \in 1..Len(e.a) : n * n + n = Len(e.a)
Matrix(e) == SubSeq(e.a, 1, Unknowns(e) * Unknowns(e))
RightSide(e) == SubSeq(e.a, Unknowns(e) * Unknowns(e) + 1, Len(e.a))

(* `e` over other operands: folded again.  Calls are in Calls.              *)
Build(e, ops) ==
  CASE e.op \in {"const", "sym"} -> e
    [] e.op = "add" -> Add(ops[1], ops[2])
    [] e.op = "mul" -> Mul(ops[1], ops[2])
    [] e.op = "neg" -> Neg(ops[1])
    [] e.op = "pow" -> Pow(ops[1], e.k[1])
    [] e.op \in Unaries -> Unary(e.op, ops[1])
    [] e.op \in Binaries -> Binary(e.op, ops[1], ops[2])
    [] e.op \in Comparisons -> Cmp(e.op, ops[1], ops[2])
    [] e.op = "select" -> Select(ops[1], ops[2], ops[3])
    [] e.op \in Reductions -> Reduce(e.op, ops)
    [] e.op = "dot" -> Dot(Halves(ops)[1], Halves(ops)[2])
    [] e.op = "solve" -> LET e2 == Node("solve", e.k, ops)
                         IN  Solve(Matrix(e2), RightSide(e2))[e.k[1]]

RECURSIVE Nodes(_)
Nodes(e) == {e} \cup UNION {Nodes(e.a[i]) : i \in DOMAIN e.a}
=============================================================================
