------------------------------- MODULE Autodiff -------------------------------
(***************************************************************************)
(* Differentiation (crates/rsdag/src/autodiff.rs, graph/calls.rs): forward *)
(* sweeps, reverse sweeps, the derivative outputs and the vector-Jacobian  *)
(* products of functions, sparse Jacobians.                                *)
(*                                                                         *)
(* An operator here returns the graph, which derivatives of called         *)
(* functions grow, and what it built.                                      *)
(***************************************************************************)
EXTENDS Rewrites

CONSTANT ReverseMin  \* REVERSE_MIN_TOUCHED: what a reverse sweep pays from

ASSUME SweepAssumption == ReverseMin \in Nat \ {0}

Irrational == Const(Undef)
Ratio2(n, d) == Const(Ratio(n, d))
Square(x) == Mul(x, x)
Scaled(x, y, r) == <<Mul(x, r), Mul(y, r)>>
Turned(p) == <<p[1], Neg(p[2])>>

(* The function a derivative is made of.                                    *)
Partner(op) == CASE op = "sin" -> "cos" [] op = "cos" -> "sin"
                 [] op = "sinh" -> "cosh" [] op = "cosh" -> "sinh"
                 [] op = "abs" -> "sign" [] op = "digamma" -> "trigamma"
                 [] op \in {"lgamma", "tgamma"} -> "digamma"
                 [] OTHER -> op

(* What is under the fraction bar, of x, its square and the square of f.    *)
Denominator(op, x, x2, f2) == CASE op = "log1p" -> Add(One, x)
                                [] op = "cbrt" -> Mul(Ratio2(3, 1), f2)
                                [] op \in {"atan", "asinh"} -> Add(One, x2)
                                [] op = "acosh" -> Sub(x2, One)
                                [] OTHER -> Sub(One, x2)

(* d op(x) / d x up to its sign, f the partner's value.                     *)
FactorOf(op, x, f, x2, f2) ==
  CASE op \in {"exp", "expm1"} ->
         Select(Cmp("gt", x, Const(ExpLimit)), IF op = "exp" THEN Irrational ELSE Add(f, One),
                Unary("exp", x))
    [] op = "ln" -> Select(Cmp("le", x, Const(LnFloor)), Zero, Recip(x))
    [] op = "sqrt" -> Select(Cmp("le", x, Zero), Zero, Mul(Ratio2(1, 2), Recip(f)))
    [] op = "tanh" -> Sub(One, f2)
    [] op = "tan" -> Add(One, f2)
    [] op \in {"log10", "log2"} -> Mul(Irrational, Recip(x))
    [] op \in {"floor", "sign", "ceil", "round", "trunc"} -> Zero
    [] op \in {"atan", "log1p", "cbrt", "atanh"} -> Recip(Denominator(op, x, x2, f2))
    [] op \in {"asin", "acos", "asinh", "acosh"} -> Recip(Unary("sqrt", Denominator(op, x, x2, f2)))
    [] op \in {"erf", "erfc"} -> Mul(Irrational, Unary("exp", Neg(x2)))
    [] op = "tgamma" -> Mul(Unary("tgamma", x), f)
    [] op = "trigamma" -> Irrational  \* the code has none, and panics
    [] OTHER -> f
Signed(negative, e) == IF negative THEN Neg(e) ELSE e
FactorBy(op, x, f) ==
  Signed(op \in {"cos", "acos", "erfc"}, FactorOf(op, x, f, Square(x), Square(f)))
UnaryFactor(op, x) == FactorBy(op, x, Unary(Partner(op), x))

(* d op(x, y) / d x and / d y. *)
BinaryPartials(op, x, y) ==
  CASE op = "powf" -> <<Mul(y, Binary("powf", x, Sub(y, One))),
                        Mul(Binary("powf", x, y), Unary("ln", x))>>
    [] op = "mod" -> <<One, Neg(Unary("trunc", Div(x, y)))>>
    [] op = "atan2" -> Turned(Scaled(y, x, Recip(Add(Square(x), Square(y)))))
    [] op = "hypot" -> Scaled(x, y, Recip(Node("hypot", <<>>, <<x, y>>)))

(* Of each factor the product of the others. *)
Cofactors(xs) ==
  LET product(es) == FoldLeft(Mul, One, es)
      suffix(i) == FoldRight(Mul, SubSeq(xs, i + 1, Len(xs)), One)
  IN  [i \in DOMAIN xs |-> Mul(product(SubSeq(xs, 1, i - 1)), suffix(i))]

PowerFactor(x, n) == Mul(Ratio2(n, 1), Pow(x, n - 1))

(* Mutant: the extremum moves to what does not beat it.                     *)
BeatsLast(op) == IF op = "max" THEN "lt" ELSE "gt"
(* The comparison that moves a running extremum to the next element.        *)
Beats(op) == IF op = "max" THEN "gt" ELSE "lt"
Running(op, xs, i) == FoldLeft(LAMBDA m, x : Reduce(op, <<m, x>>), xs[1], SubSeq(xs, 2, i))
Conds(op, xs) == [i \in 2..Len(xs) |-> Cmp(Beats(op), xs[i], Running(op, xs, i - 1))]

(* The rule of a node whose operands have the derivatives d, by position.   *)
Rule(e, d) ==
  LET x == e.a
      moving == Ascending({i \in DOMAIN x : d[i] # Zero})
      ab == Halves(x) dab == Halves(d)
  IN  CASE e.op = "add" -> Add(d[1], d[2])
        [] e.op = "mul" -> Add(Mul(d[1], x[2]), Mul(x[1], d[2]))
        [] e.op = "neg" -> Neg(d[1])
        [] e.op = "pow" -> Mul(PowerFactor(x[1], e.k[1]), d[1])
        [] e.op \in Unaries -> Mul(UnaryFactor(e.op, x[1]), d[1])
        [] e.op \in Binaries -> Given(BinaryPartials(e.op, x[1], x[2]),
                                      LAMBDA p : Add(Mul(p[1], d[1]), Mul(p[2], d[2])))
        [] e.op = "select" -> Select(x[1], d[2], d[3])
        [] e.op = "sum" -> Reduce("sum", d)
        [] e.op = "prod" ->
             Reduce("sum", [j \in DOMAIN moving |-> Mul(d[moving[j]], Cofactors(x)[moving[j]])])
        [] e.op \in {"min", "max"} ->
             FoldLeft(LAMBDA m, i : Select(Conds(e.op, x)[i], d[i], m), d[1],
                      [j \in 1..Len(x) - 1 |-> j + 1])
        [] e.op = "dot" ->
             Reduce("sum", [i \in DOMAIN ab[1] |-> Add(Mul(dab[1][i], ab[2][i]),
                                                       Mul(ab[1][i], dab[2][i]))])
        [] e.op = "solve" ->
             LET n == Unknowns(e)
                 y == Solve(Matrix(e), RightSide(e))
                 row(r) == SubSeq(d, (r - 1) * n + 1, r * n)
             IN  Solve(Matrix(e), [r \in 1..n |-> Sub(d[n * n + r], Dot(row(r), y))])[e.k[1]]

-----------------------------------------------------------------------------
(* Reverse sweeps: the nodes under f in an order with operands first and    *)
(* the components of a system together.                                     *)

RECURSIVE Post(_, _, _)
Post(g, e, done) ==
  IF e \in Range(done) THEN done
  ELSE LET under == FoldLeft(LAMBDA acc, c : Post(g, c, acc), done, Operands(g, e))
       IN  under \o (IF e.op = "solve" THEN Solve(Matrix(e), RightSide(e)) ELSE <<e>>)

RECURSIVE Cone(_, _)
Cone(g, e) == {e} \cup UNION {Cone(g, c) : c \in Range(CarryingOps(g, e))}

(* The arena: nodes of f's cone by id. *)
Ascend(g, f) == LET cone == Cone(g, f) IN SelectSeq(Post(g, f, <<>>), LAMBDA e : e \in cone)

Active(g, e, wrt) == \E x \in Cone(g, e) : x.op = "sym" /\ x.k[1] \in Range(wrt)

SiteOf(e) == <<Func(e), At(e), e.a>>
(* Mutant: the adjoints of a system solved by the system itself. *)
TransposedNot(m, n) == m
Transposed(m, n) == [k \in DOMAIN m |-> m[((k - 1) % n) * n + (k - 1) \div n + 1]]

(* What the adjoint z of e gives its operands, by position: <<operand, term>>. *)
Contributions(e, z) ==
  LET x == e.a
      n == Len(x)
      h == n \div 2
      to(i, t) == <<x[i], t>>
      cond(i) == IF i = 1 THEN One ELSE Conds(e.op, x)[i]
      tail(i) == FoldLeft(LAMBDA t, k : Mul(t, Sub(One, Conds(e.op, x)[k])), One,
                          [j \in 1..n - i |-> n + 1 - j])
  IN  CASE e.op \in {"add", "sum"} -> [i \in 1..n |-> to(i, z)]
        [] e.op = "mul" -> <<to(1, Mul(z, x[2])), to(2, Mul(z, x[1]))>>
        [] e.op = "neg" -> <<to(1, Neg(z))>>
        [] e.op = "pow" -> <<to(1, Mul(z, PowerFactor(x[1], e.k[1])))>>
        [] e.op \in Unaries -> <<to(1, Mul(z, UnaryFactor(e.op, x[1])))>>
        [] e.op \in Binaries -> Given(BinaryPartials(e.op, x[1], x[2]),
                                      LAMBDA p : <<to(1, Mul(z, p[1])), to(2, Mul(z, p[2]))>>)
        [] e.op = "select" -> <<to(2, Select(x[1], z, Zero)), to(3, Select(x[1], Zero, z))>>
        [] e.op = "prod" -> [i \in 1..n |-> to(i, Mul(z, Cofactors(x)[i]))]
        [] e.op \in {"min", "max"} -> [i \in 1..n |-> to(i, Mul(z, Mul(cond(i), tail(i))))]
        [] e.op = "dot" -> [i \in 1..n |-> to(i, Mul(z, IF i <= h THEN x[i + h] ELSE x[i - h]))]
        [] OTHER -> <<>>

(* A whole system: the adjoints of all its components in one transposed     *)
(* solve.                                                                   *)
SolveContributions(e, xbar) ==
  LET n == Unknowns(e)
      m == Matrix(e)
      y == Solve(m, RightSide(e))
      bbar == Solve(Transposed(m, n), xbar)
      into(k) == IF k > n * n THEN bbar[k - n * n]
                 ELSE Neg(Mul(bbar[(k - 1) \div n + 1], y[((k - 1) % n) + 1]))
  IN  [k \in DOMAIN e.a |-> <<e.a[k], into(k)>>]

(* The sweep: s = [g, adj, sym, pending], adj the terms per node of the     *)
(* cone; only active operands take any.                                     *)
Pushed(s, terms, act) ==
  [s EXCEPT !.adj = [e \in DOMAIN @ |->
     @[e] \o (IF e \in act THEN LET mine == SelectSeq(terms, LAMBDA t : t[1] = e)
                                IN  [j \in DOMAIN mine |-> mine[j][2]]
              ELSE <<>>)]]

Siblings(e) == Solve(Matrix(e), RightSide(e))
Take(s, e) == IF e \in DOMAIN s.adj THEN Reduce("sum", s.adj[e]) ELSE Zero

SweepNode(s, e, act) ==
  Given(Take(s, e), LAMBDA z :
  LET sib == Siblings(e)
      taken == [s EXCEPT !.adj[e] = <<>>]
      alone == [s EXCEPT !.adj = [x \in DOMAIN @ |-> IF x \in Range(sib) THEN <<>> ELSE @[x]]]
  IN  CASE s.adj[e] = <<>> \/ z = Zero -> taken
        [] s.adj[e] # <<>> /\ z # Zero /\ e.op = "sym" -> [taken EXCEPT !.sym = (e.k[1] :> z) @@ @]
        [] s.adj[e] # <<>> /\ z # Zero /\ e.op = "call" ->
             [taken EXCEPT !.pending = Append(@, <<e, z>>)]
        [] s.adj[e] # <<>> /\ z # Zero /\ e.op = "solve" ->
             Pushed(alone, SolveContributions(e, [j \in DOMAIN sib |-> Take(s, sib[j])]), act)
        [] OTHER -> Pushed(taken, Contributions(e, z), act))

(* Of a function the parameters of its model, which are asked for one by    *)
(* one, and its globals.                                                    *)
IsModelParam(g, f, p) == p \in g.funcs[f].pure \/ p > Len(g.funcs[f].params)
OperandSymbol(g, f, p) == OperandSymbols(g, f)[p]

(* No tangent is narrower: the operands a sweep by `wrt` walks.             *)
Moves(g, e, wrt, narrow) == narrow => wrt \in SupportIn(g, e)

(* Derivatives by position among n operands, and through a call the sum of  *)
(* its derivative outputs, each times what its operand's is.                *)
Spread(at, ds, n) ==
  [i \in 1..n |-> IF i \in Range(at) THEN ds[CHOOSE j \in DOMAIN at : at[j] = i] ELSE Zero]
ThroughCall(e, ks, ds) ==
  <<ks[1], FoldLeft(LAMBDA acc, j : Add(acc, Mul(CallIn(ks[1], Func(e), ks[2][j], At(e), e.a), ds[j])),
                    Zero, [j \in DOMAIN ds |-> j])>>

RECURSIVE Tangent(_, _, _, _), Chained(_, _, _), Gradient(_, _, _), Carry(_, _, _),
          DerivativeOutput(_, _, _, _), DerivativeOutputs(_, _, _, _), Derive(_, _, _, _),
          VjpFunction(_, _, _, _)

(* d e / d wrt. *)
Tangent(g, e, wrt, narrow) ==
  IF e.op = "sym" THEN <<g, IF e.k[1] = wrt THEN One ELSE Zero>>
  ELSE Chained(e, Carrying(g, e),
               Thread(LAMBDA h, c : IF Moves(h, c, wrt, narrow) THEN Tangent(h, c, wrt, narrow)
                                    ELSE <<h, Zero>>, g, CarryingOps(g, e)))

(* The operands of e at positions `at` have the derivatives of `r`.         *)
Chained(e, at, r) ==
  Given(SelectSeq([j \in DOMAIN at |-> j], LAMBDA j : r[2][j] # Zero), LAMBDA moving :
    CASE moving = <<>> -> <<r[1], Zero>>
      [] e.op = "call" /\ moving # <<>> ->
           ThroughCall(e, DerivativeOutputs(r[1], Func(e), Out(e), [j \in DOMAIN moving |-> at[moving[j]]]),
                       [j \in DOMAIN moving |-> r[2][moving[j]]])
      [] OTHER -> <<r[1], Rule(e, Spread(at, r[2], Len(e.a)))>>)

(* The index of d outs[out] / d params[p]: derived on first demand.         *)
DerivativeOutput(g, f, out, p) ==
  LET pushed(r) == PushOutput(r[1], f, AsOutput(r[2]), Derivative(out, p))
      last(h) == <<h, Len(h.funcs[f].outs)>>
  IN  IF DerivativeAt(g, f, out, p) # 0 THEN <<g, DerivativeAt(g, f, out, p)>>
      ELSE Given(Derive(g, f, out, p), LAMBDA h :
             CASE DerivativeAt(h, f, out, p) # 0 -> <<h, DerivativeAt(h, f, out, p)>>
               [] DerivativeAt(h, f, out, p) = 0 /\ Output(h, f, out).t # "expr" ->
                    last(pushed(<<h, Zero>>))
               [] OTHER ->
                    last(pushed(Tangent(h, Output(h, f, out).e, OperandSymbol(h, f, p), FALSE))))

(* Every output that depends on a parameter of no model, in one sweep.      *)
Derive(g, f, out, p) ==
  LET fun == g.funcs[f]
      wrt == OperandSymbol(g, f, p)
      roots == SelectSeq([k \in DOMAIN fun.outs |-> k],
                         LAMBDA k : /\ fun.roles[k] = NoRole /\ fun.outs[k].t = "expr"
                                    /\ wrt \in SupportIn(g, fun.outs[k].e)
                                    /\ DerivativeAt(g, f, k, p) = 0)
      named(r) == FoldLeft(LAMBDA h, j : PushOutput(h, f, AsOutput(r[2][j]), Derivative(roots[j], p)),
                           r[1], [j \in DOMAIN roots |-> j])
  IN  IF fun.roles[out] # NoRole \/ IsModelParam(g, f, p) THEN g
      ELSE named(Thread(LAMBDA h, k : Tangent(h, fun.outs[k].e, wrt, TRUE), g, roots))

(* Model parameters asked for together come of one reverse sweep.           *)
DerivativeOutputs(g, f, out, ps) ==
  LET missing == SelectSeq(ps, LAMBDA p : IsModelParam(g, f, p) /\ DerivativeAt(g, f, out, p) = 0)
      by == [j \in DOMAIN missing |-> OperandSymbol(g, f, missing[j])]
      named(r) == FoldLeft(LAMBDA h, j : PushOutput(h, f, AsOutput(r[2][j]), Derivative(out, missing[j])),
                           r[1], [j \in DOMAIN missing |-> j])
  IN  Thread(LAMBDA h, p : DerivativeOutput(h, f, out, p),
             IF Output(g, f, out).t = "expr" /\ Len(missing) >= ReverseMin
             THEN named(Gradient(g, Output(g, f, out).e, by)) ELSE g,
             ps)

FreshSymbol(g) == 100 + Len(g.order)
Fresh(g, n) == FoldLeft(LAMBDA acc, j : <<Intern(acc[1], FreshSymbol(acc[1])),
                                          Append(acc[2], FreshSymbol(acc[1]))>>,
                        <<g, <<>>>>, [j \in 1..n |-> j])

(* The function whose output i is d (sum_j c_j outs[j]) / d params[ps[i]].  *)
VjpFunction(g, f, outs, ps) ==
  LET known == {v \in g.vjps : v[1] = <<f, outs, ps>>}
      c == Fresh(g, Len(outs))
      shown == SelectSeq([j \in DOMAIN outs |-> j], LAMBDA j : Output(g, f, outs[j]).t = "expr")
      psi == Reduce("sum", [i \in DOMAIN shown |->
                              Mul(Sym(c[2][shown[i]]), Output(g, f, outs[shown[i]]).e)])
      made(r) == Function(g.funcs[f].params \o c[2], g.funcs[f].pure,
                          [i \in DOMAIN ps |-> Expr(r[2][i])], FALSE)
      kept(r, n) == <<[PushFunction(r[1], made(r)) EXCEPT !.vjps = @ \cup {<<<<f, outs, ps>>, n>>}], n>>
  IN  IF known # {} THEN <<g, (CHOOSE v \in known : TRUE)[2]>>
      ELSE Given(Gradient(c[1], psi, [i \in DOMAIN ps |-> OperandSymbol(g, f, ps[i])]),
                 LAMBDA r : kept(r, Len(r[1].funcs) + 1))

(* The adjoints of a site's outputs, `calls` of <<call, adjoint>>, through  *)
(* the call: the vector-Jacobian product, or the derivative outputs.        *)
Carry(s, calls, act) ==
  LET g == s.g
      f == Func(calls[1][1])
      operands == Operands(g, calls[1][1])
      moved(e) == {p \in OutputSupport(g, f, Out(e)) : operands[p] \in act}
      moving == Ascending(UNION {moved(calls[i][1]) : i \in DOMAIN calls})
      symbolic == \A i \in DOMAIN calls : Output(g, f, Out(calls[i][1])).t # "slot"
      byOut == SortSeq(calls, LAMBDA x, y : Out(x[1]) < Out(y[1]))
      args == FullArgs(calls[1][1]) \o [i \in DOMAIN byOut |-> byOut[i][2]]
      swept(v) == Pushed([s EXCEPT !.g = v[1]],
                         [i \in DOMAIN moving |-> <<operands[moving[i]], CallOf(v[1], v[2], i, args)>>],
                         act)
      terms(c, ps, ks) ==
        [i \in DOMAIN ps |->
           <<operands[ps[i]], Mul(c[2], CallIn(ks[1], f, ks[2][i], At(c[1]), c[1].a))>>]
      one(t, c, ps, ks) == Pushed([t EXCEPT !.g = ks[1]], terms(c, ps, ks), act)
  IN  IF symbolic /\ Len(moving) >= ReverseMin
      THEN swept(VjpFunction(g, f, [i \in DOMAIN byOut |-> Out(byOut[i][1])], moving))
      ELSE FoldLeft(LAMBDA t, c :
                      Given(Ascending(moved(c[1])), LAMBDA ps :
                        one(t, c, ps, DerivativeOutputs(t.g, f, Out(c[1]), ps))), s, calls)

(* d f / d wrt[j] for every j, in one sweep.  A site's adjoints are carried *)
(* at its first node, when every output of it has its own.                  *)
Gradient(g, f, wrt) ==
  Given(Ascend(g, f), LAMBDA nodes :
  Given({e \in Range(nodes) : Active(g, e, wrt)}, LAMBDA act :
  LET first(k) == /\ nodes[k].op = "call"
                  /\ \A j \in 1..k - 1 : nodes[j].op = "call" => SiteOf(nodes[j]) # SiteOf(nodes[k])
      start == [g |-> g, sym |-> <<>>, pending |-> <<>>,
                adj |-> [e \in Range(nodes) |-> IF e = f /\ f \in act THEN <<One>> ELSE <<>>]]
      here(t, k) == {j \in DOMAIN t.pending : SiteOf(t.pending[j][1]) = SiteOf(nodes[k])}
      picked(t, js) == [i \in DOMAIN Ascending(js) |-> t.pending[Ascending(js)[i]]]
      others(t, js) == [t EXCEPT !.pending = picked(t, DOMAIN @ \ js)]
  IN  Given(FoldLeft(LAMBDA s, k :
                       Given(SweepNode(s, nodes[k], act), LAMBDA t :
                         IF first(k) /\ here(t, k) # {}
                         THEN Carry(others(t, here(t, k)), picked(t, here(t, k)), act) ELSE t),
                     start, [j \in DOMAIN nodes |-> Len(nodes) + 1 - j]), LAMBDA end :
        <<end.g,
          [j \in DOMAIN wrt |-> IF wrt[j] \in DOMAIN end.sym THEN end.sym[wrt[j]] ELSE Zero]>>)))

-----------------------------------------------------------------------------
(* Sparse Jacobians: per root a function from the columns it moves with to  *)
(* its derivatives; a row that touches many in one reverse sweep.           *)
SparseJacobian(g, roots, wrt) ==
  LET touched == [i \in DOMAIN roots |->
                    Flow(g, roots[i], "carries",
                         [s \in Range(wrt) |-> {j \in DOMAIN wrt : wrt[j] = s}])]
      wide(i) == Cardinality(touched[i]) >= ReverseMin
      columnsOf(i) == Ascending(touched[i])
      rowsOf(j) == Ascending({i \in DOMAIN roots : j \in touched[i] /\ ~wide(i)})
      row(i, js, r) == <<r[1], [k \in DOMAIN js |-> <<i, js[k], r[2][k]>>]>>
      column(j, is, r) == <<r[1], [k \in DOMAIN is |-> <<is[k], j, r[2][k]>>]>>
      entry(entries, i, j) == CHOOSE n \in entries : n[1] = i /\ n[2] = j
      byRow(entries) ==
        [i \in DOMAIN roots |->
           [j \in {n[2] : n \in {m \in entries : m[1] = i /\ m[3] # Zero}} |-> entry(entries, i, j)[3]]]
      all(rows, columns) ==
        <<columns[1], byRow(UNION {Range(es) : es \in Range(rows[2]) \cup Range(columns[2])})>>
  IN  Given(Thread(LAMBDA h, i :
                     IF wide(i)
                     THEN row(i, columnsOf(i),
                              Gradient(h, roots[i], [k \in DOMAIN columnsOf(i) |-> wrt[columnsOf(i)[k]]]))
                     ELSE <<h, <<>>>>, g, [i \in DOMAIN roots |-> i]), LAMBDA rows :
        all(rows, Thread(LAMBDA h, j :
                           column(j, rowsOf(j),
                                  Thread(LAMBDA k, i : Tangent(k, roots[i], wrt[j], TRUE), h, rowsOf(j))),
                         rows[1], [j \in DOMAIN wrt |-> j])))

(* The roots at syms all zero and their coefficients, or where one is not   *)
(* affine in them.                                                          *)
AffineIn(g, roots, syms) ==
  LET bends(jac, i) == \E j \in DOMAIN jac[2][i] : DependsOn(jac[1], jac[2][i][j], Range(syms))
      Into(h, e) == Subst(h, e, [s \in Range(syms) |-> Zero])
      beside(rest, jac) == <<rest[1], TRUE, rest[2], jac[2]>>
  IN  Given(SparseJacobian(g, roots, syms), LAMBDA jac :
        IF \E i \in DOMAIN roots : bends(jac, i) THEN <<jac[1], FALSE, <<>>, <<>>>>
        ELSE beside(Thread(Into, jac[1], roots), jac))

(* The gradient of the outputs weighed by fresh symbols. *)
Vjp(g, outs, wrt) ==
  LET w == Fresh(g, Len(outs))
      psi == Reduce("sum", [i \in DOMAIN outs |-> Mul(Sym(w[2][i]), outs[i])])
  IN  Given(Gradient(w[1], psi, wrt), LAMBDA r : <<r[1], w[2], r[2]>>)
=============================================================================
