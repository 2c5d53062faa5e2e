------------------------------ MODULE Nonlinear ------------------------------
(***************************************************************************)
(* How an expression depends on chosen variables (crates/rsdag/src/        *)
(* nonlinearity.rs): the degree of the polynomial it is, or that it is     *)
(* none and what it takes part in that breaks it.                          *)
(***************************************************************************)
EXTENDS Calls

CONSTANT MaxDegree  \* the widest degree (u32::MAX in the code)

ASSUME DegreeAssumption == MaxDegree \in Nat \ {0}

Unbounded == -1
Bounded(n) == IF n > MaxDegree THEN Unbounded ELSE n
DegreePlus(a, b) == IF Unbounded \in {a, b} THEN Unbounded ELSE IF a < b THEN b ELSE a
(* Mutant: the degree of a product is that of a sum.                        *)
DegreeTimesAsPlus(a, b) == DegreePlus(a, b)
DegreeTimes(a, b) == IF Unbounded \in {a, b} THEN Unbounded ELSE Bounded(a + b)
DegreePower(a, n) == IF a = Unbounded THEN Unbounded ELSE Bounded(a * n)

(* A class: the degree, and the transcendental operations, "rational",      *)
(* "piecewise" and "opaque" among its flags.                                *)
Class(degree, flags) == [degree |-> degree, flags |-> flags]
Constant == Class(0, {})
Absorbed(cs) == UNION {c.flags : c \in Range(cs)}
Joined(cs, degree, flag) == Class(degree, Absorbed(cs) \cup flag)
AllConstant(cs) == \A c \in Range(cs) : c = Constant
Summed(cs) == FoldLeft(LAMBDA d, c : DegreePlus(d, c.degree), 0, cs)
Multiplied(cs) == FoldLeft(LAMBDA d, c : DegreeTimes(d, c.degree), 0, cs)

(* A node, no leaf and no call, of its operands' classes.                   *)
ClassifyNode(e, cs) ==
  LET n == e.k[1]
      xy == Halves(cs)
      moving == ~AllConstant(cs)
  IN  CASE e.op = "neg" -> cs[1]
        [] e.op \in {"add", "sum"} -> Joined(cs, Summed(cs), {})
        [] e.op \in {"mul", "prod"} -> Joined(cs, Multiplied(cs), {})
        [] e.op = "pow" /\ moving /\ n > 0 -> [cs[1] EXCEPT !.degree = DegreePower(@, n)]
        [] e.op = "pow" /\ moving /\ n < 0 -> Joined(cs, Unbounded, {"rational"})
        [] e.op \in Unaries /\ moving -> Joined(cs, Unbounded, {e.op})
        [] e.op \in Binaries /\ moving -> Joined(cs, Unbounded, {})
        [] e.op \in Comparisons \cup {"min", "max"} /\ moving -> Joined(cs, Unbounded, {"piecewise"})
        [] e.op = "solve" /\ moving -> Joined(cs, Unbounded, {"rational"})
        [] e.op = "select" /\ cs[1] = Constant ->
             Joined(cs, DegreePlus(cs[2].degree, cs[3].degree), {})
        [] e.op = "select" /\ cs[1] # Constant -> Joined(cs, Unbounded, {"piecewise"})
        [] e.op = "dot" ->
             Joined(cs, Summed([i \in DOMAIN xy[1] |->
                                  Class(DegreeTimes(xy[1][i].degree, xy[2][i].degree), {})]), {})
        [] OTHER -> Constant

(* A call is classified through its body, the parameters of the arguments'  *)
(* classes: every other symbol of the body is taken for constant.           *)
RECURSIVE Classify(_, _, _)
Classify(g, e, leaf) ==
  LET ops == IF e.op = "call" THEN FullArgs(e) ELSE e.a
      cs == [i \in DOMAIN ops |-> Classify(g, ops[i], leaf)]
      out == Output(g, Func(e), Out(e))
      params == g.funcs[Func(e)].params
      inner == [s \in Range(params) |-> cs[CHOOSE p \in DOMAIN params : params[p] = s]]
  IN  CASE e.op = "sym" -> IF e.k[1] \in DOMAIN leaf THEN leaf[e.k[1]] ELSE Constant
        [] e.op = "call" /\ out.t = "zero" -> Constant
        [] e.op = "call" /\ out.t = "slot" ->
             IF AllConstant(cs) THEN Constant ELSE Joined(cs, Unbounded, {"opaque"})
        [] e.op = "call" /\ out.t = "expr" -> Classify(g, out.e, inner)
        [] e.op \notin {"sym", "call"} -> ClassifyNode(e, cs)

(* A system: the worst degree and all flags.                                *)
Nonlinearity(g, roots, vars) ==
  LET cs == [i \in DOMAIN roots |-> Classify(g, roots[i], [s \in vars |-> Class(1, {})])]
  IN  Joined(cs, Summed(cs), {})
=============================================================================
