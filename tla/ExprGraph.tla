------------------------------ MODULE ExprGraph ------------------------------
(***************************************************************************)
(* The expression graph under the calls its users make of it               *)
(* (crates/rsdag/src/graph, autodiff.rs, transform.rs): nodes and calls    *)
(* built, derivatives taken forward and in reverse, Jacobians, affine      *)
(* parts and degrees, substitutions, inlining, specialization, and a       *)
(* library graph that derives and is imported.  One expression is worked   *)
(* on, each call on what the one before made, and the graph keeps what the *)
(* calls added.                                                            *)
(*                                                                         *)
(* Every property compares what a call built with what it promised, at the *)
(* points of Points, where the promise is a rational number.               *)
(***************************************************************************)
EXTENDS Autodiff, Nonlinear, Values

CONSTANTS Cases,     \* the graphs to start from: [own, lib, root, libRoot, calls]
          Over(_),   \* the nodes to build over an expression, unfolded
          Maps,      \* the substitutions
          Pins,      \* the symbols pinned to constants
          Wrt,       \* the symbols differentiated by, in order
          Points     \* where values are compared, by symbol

VARIABLES own,   \* the graph
          lib,   \* another one, imported from
          imp,   \* the functions of lib imported, by its number
          cur,   \* the expression worked on
          libCur,\* an expression of lib
          last,  \* the call made last: [op, of, by, is]
          left   \* the calls left to make, the bound of the model

vars == <<own, lib, imp, cur, libCur, last, left>>

Call(op, of, by, is) == [op |-> op, of |-> of, by |-> by, is |-> is]
NoCall == Call("none", <<>>, <<>>, <<>>)

Init ==
  \E c \in Cases :
    /\ own = c.own /\ lib = c.lib /\ cur = c.root /\ libCur = c.libRoot
    /\ imp = <<>> /\ last = NoCall /\ left = c.calls

(* A call of `own` that made the graph g and of `cur` the expression e.     *)
Makes(g, e, call) ==
  /\ left > 0
  /\ own' = g /\ cur' = e /\ last' = call
  /\ left' = left - 1
  /\ UNCHANGED <<lib, imp, libCur>>

(* What a call made, while one is left to make.                             *)
Made(v) == IF left > 0 THEN {v} ELSE {}

(* A constructor over cur.                                                  *)
BuildNode ==
  \E n \in Over(cur) :
    LET e == Build(n, n.a) IN Makes(own, e, Call("build", n, <<>>, e))

(* An output of a function called, some of its parameters bound and the     *)
(* others passed.                                                           *)
Arguments(f) == LET n == Len(own.funcs[f].params)
                IN  {[p \in 1..n |-> IF p = q THEN cur ELSE Sym(Wrt[((p + 1) % Len(Wrt)) + 1])] : q \in 1..n}
BindAndCall ==
  \E f \in DOMAIN own.funcs : \E k \in DOMAIN own.funcs[f].outs, full \in Arguments(f),
                                 at \in SUBSET DOMAIN own.funcs[f].params :
    LET passed == Ascending(DOMAIN full \ at)
        e == CallBound(own, f, k, [p \in at |-> full[p]], [j \in DOMAIN passed |-> full[passed[j]]])
    IN  Makes(own, e, Call("call", <<f, k>>, full, e))

(* A template is instantiated again: its user keeps it.                     *)
Substitute ==
  \E m \in Maps : \E r \in Made(Subst(own, cur, m)) :
                   \E e \in {cur, r[2]} : Makes(r[1], e, Call("rewrite", cur, m, r[2]))
InlineCalls ==
  \E which \in {"all", "composite"} :
    \E r \in Made(Inline(own, cur, which)) : Makes(r[1], r[2], Call("rewrite", cur, <<>>, r[2]))
Specialize ==
  \E r \in Made(SpecializeCalls(own, cur)) : Makes(r[1], r[2], Call("rewrite", cur, <<>>, r[2]))
PinSymbols ==
  \E m \in Pins : \E r \in Made(Pin(own, cur, m)) : Makes(r[1], r[2], Call("rewrite", cur, m, r[2]))

Differentiate ==
  \E s \in Range(Wrt) :
    \E r \in Made(Tangent(own, cur, s, FALSE)) :
      Makes(r[1], r[2], Call("differentiate", <<cur>>, <<s>>, <<<<r[2]>>>>))
TakeGradient ==
  \E r \in Made(Gradient(own, cur, Wrt)) :
    \E j \in DOMAIN Wrt : Makes(r[1], r[2][j], Call("gradient", <<cur>>, Wrt, <<r[2]>>))

(* The columns of a row by their place, the structural zeros filled in.     *)
Dense(row) == [j \in DOMAIN Wrt |-> IF j \in DOMAIN row THEN row[j] ELSE Zero]
Rows == <<cur, Mul(cur, Sym(Wrt[1]))>>
Jacobian ==
  \E r \in Made(SparseJacobian(own, Rows, Wrt)) :
    Makes(r[1], cur, Call("jacobian", Rows, Wrt, [i \in DOMAIN r[2] |-> Dense(r[2][i])]))
Affine ==
  \E j \in DOMAIN Wrt :
    \E r \in Made(AffineIn(own, <<cur>>, <<Wrt[j]>>)) :
      /\ r[2]
      /\ Makes(r[1], cur, Call("affine", cur, Wrt[j],
                               <<r[3][1], IF 1 \in DOMAIN r[4][1] THEN r[4][1][1] ELSE Zero>>))
TakeVjp ==
  LET outs == <<cur, Sym(Wrt[1])>>
  IN  \E r \in Made(Vjp(own, outs, Wrt)) : Makes(r[1], cur, Call("vjp", outs, r[2], r[3]))

(* The kind of dependence on one of the symbols, and on all of them.        *)
ClassifyRoot ==
  \E syms \in {{s} : s \in Range(Wrt)} \cup {Range(Wrt)} :
    Makes(own, cur, Call("classify", cur, syms, Nonlinearity(own, <<cur>>, syms)))

(* The library derives an output of a function of its own.                  *)
LibDerives ==
  /\ left > 0
  /\ \E f \in DOMAIN lib.funcs : \E k \in DOMAIN lib.funcs[f].outs,
                                    p \in DOMAIN OperandSymbols(lib, f) :
       \E r \in Made(DerivativeOutput(lib, f, k, p)) :
         /\ lib' = r[1]
         /\ libCur' = CallIn(r[1], f, r[2], <<>>, [q \in DOMAIN lib.funcs[f].params |->
                                                    Sym(lib.funcs[f].params[q])])
  /\ last' = NoCall /\ left' = left - 1
  /\ UNCHANGED <<own, imp, cur>>

ImportFromLib ==
  /\ left > 0
  /\ \E r \in Made(ImportExprs(lib, [g |-> own, imp |-> imp], <<libCur>>)) :
       /\ own' = r[1].g /\ imp' = r[1].imp /\ cur' = r[2][1]
       /\ last' = Call("import", libCur, <<>>, r[2][1])
  /\ left' = left - 1
  /\ UNCHANGED <<lib, libCur>>

(* The bound of the model reached. *)
Done == left = 0 /\ UNCHANGED vars

Next == \/ BuildNode \/ BindAndCall
        \/ Substitute \/ InlineCalls \/ Specialize \/ PinSymbols
        \/ Differentiate \/ TakeGradient \/ Jacobian \/ Affine \/ TakeVjp \/ ClassifyRoot
        \/ LibDerives \/ ImportFromLib \/ Done

Spec == Init /\ [][Next]_vars

-----------------------------------------------------------------------------
(* What a call promises.  `wanted` is Undef where nothing is.               *)
Meets(wanted, got) == wanted # Undef => got = wanted
Of(op) == last.op = op

(* A constructor folds only what is equal everywhere, and a call with       *)
(* parameters bound is the call of the body over all its arguments          *)
(* (calls.rs:469).                                                          *)
BuildExact ==
  \A pt \in Points :
    /\ Of("build") => Meets(ValueAt(own, last.of, pt), ValueAt(own, last.is, pt))
    /\ Of("call") =>
         LET f == last.of[1]
             at == [p \in DOMAIN last.by |-> ValueAt(own, last.by[p], pt)]
             inner == [s \in Range(own.funcs[f].params) |->
                         at[CHOOSE p \in DOMAIN at : own.funcs[f].params[p] = s]]
         IN  Meets(ValueAt(own, Output(own, f, last.of[2]).e, inner @@ pt), ValueAt(own, last.is, pt))

(* However powers are composed and derived, no node holds an exponent wider *)
(* than its field (mod.rs:562).                                             *)
ExponentsFit ==
  \A e \in {cur} \cup UNION {{o.e : o \in Exprs(own, f)} : f \in DOMAIN own.funcs} :
    \A n \in Nodes(e) : n.op = "pow" => Fits(n.k[1])

(* An expression rewritten is worth what it was, its symbols as the         *)
(* substitution has them all at once (transform.rs:179): through bodies     *)
(* that read them as globals, copies, bindings and folds.                   *)
RewrittenExactly ==
  Of("rewrite") =>
    \A pt \in Points :
      LET env == [s \in DOMAIN pt |->
                    IF s \in DOMAIN last.by THEN ValueAt(own, last.by[s], pt) ELSE pt[s]]
      IN  Meets(ValueAt(own, last.of, env), ValueAt(own, last.is, pt))

Behind == \E c \in own.rebound : Len(own.funcs[c[3]].outs) < Len(own.funcs[c[1]].outs)

(* So it is while no copy is behind the function it copies (calls.rs:234).  *)
RewritesExact == ~Behind => RewrittenExactly

(* What a sweep built by row and symbol is what the expression's rows move  *)
(* by it.                                                                   *)
SlopesMet ==
  \A i \in DOMAIN last.of, j \in DOMAIN last.by, pt \in Points :
    Meets(SlopeAt(own, last.of[i], last.by[j], pt), ValueAt(own, last.is[i][j], pt))

(* Forward: the derivative, of derivatives too, through calls whose         *)
(* derivative outputs are made on the way (autodiff.rs:14).                 *)
TangentsExact == Of("differentiate") => SlopesMet

(* Reverse: one sweep gives the same, through shared nodes, systems and the *)
(* sites of calls, each taken when all its consumers were (autodiff.rs:659).*)
AdjointsExact ==
  /\ Of("gradient") => SlopesMet
  /\ Of("vjp") =>
       \A j \in DOMAIN Wrt, pt \in Points :
         LET weights == [i \in DOMAIN last.of |-> Q(i + 1)]
             env == [s \in Range(last.by) |->
                       weights[CHOOSE i \in DOMAIN last.by : last.by[i] = s]] @@ pt
             slopes == [i \in DOMAIN last.of |->
                          Times(weights[i], SlopeAt(own, last.of[i], Wrt[j], pt))]
         IN  Meets(Plus(slopes[1], slopes[2]), ValueAt(own, last.is[j], env))

(* A sparse Jacobian leaves out only entries that are zero, whichever mode  *)
(* gave a row (autodiff.rs:539).                                            *)
JacobianComplete == Of("jacobian") => SlopesMet

Jumping == Steps \cup Comparisons \cup {"mod"}

(* A root taken for affine is its rest and its coefficients                 *)
(* (autodiff.rs:614): said of roots with no jumps, whose derivative by a    *)
(* symbol tells of all their dependence on it.                              *)
AffineExact ==
  Of("affine") /\ ~Behind /\ {n.op : n \in Nodes(last.of)} \cap Jumping = {} =>
    \A pt \in Points :
      LET whole == ValueAt(own, last.of, pt)
          parts == Plus(ValueAt(own, last.is[1], pt),
                        Times(ValueAt(own, last.is[2], pt), pt[last.by]))
      IN  whole # Undef /\ parts # Undef => parts = whole

(* The symbols the bodies under e read and no argument gives: those of the  *)
(* functions it reaches that are no parameters of theirs.                   *)
RECURSIVE Reached(_, _)
Reached(g, e) ==
  LET fs == {Func(c) : c \in FreeCalls(e)}
  IN  fs \cup UNION {UNION {Reached(g, o.e) : o \in Exprs(g, f)} : f \in fs}
Unseen(g, e) == UNION {GlobalSet(g, f) : f \in Reached(g, e)}
ParametersUnder(g, e) == UNION {Range(g.funcs[f].params) : f \in Reached(g, e)}

(* The difference of order n of e along a line the symbols move along.       *)
AlongLine(pt, syms, t) ==
  [s \in DOMAIN pt |-> IF s \in syms THEN Plus(pt[s], Q(t * s)) ELSE pt[s]]
Binomial(n, k) == Cardinality(kSubset(k, 1..n))
Difference(e, syms, pt, n) ==
  FoldLeft(Plus, Q(0),
           [i \in 1..(n + 1) |-> Times(Q((IF i % 2 = 0 THEN -1 ELSE 1) * Binomial(n, i - 1)),
                                      ValueAt(own, e, AlongLine(pt, syms, i - 1)))])

(* An expression of degree d by some symbols is a polynomial of no higher   *)
(* degree along any line they move along: its differences of order d + 1    *)
(* vanish; and what breaks a polynomial leaves it no degree                 *)
(* (nonlinearity.rs:131).  Said where no body reads one of the symbols as a *)
(* global, nor a parameter of a caller of its.                              *)
DegreesExact ==
  Of("classify") /\ Unseen(own, cur) \cap (last.by \cup ParametersUnder(own, cur)) = {} =>
    /\ last.is.flags # {} => last.is.degree = Unbounded
    /\ last.is.degree # Unbounded =>
         \A pt \in Points : Difference(cur, last.by, pt, last.is.degree + 1) \in {Q(0), Undef}

NamedIn(g) ==
  \A f \in DOMAIN g.funcs : \A k \in DOMAIN g.funcs[f].outs :
    LET role == g.funcs[f].roles[k] IN
    role # NoRole =>
      /\ role[2] \in DOMAIN OperandSymbols(g, f)
      /\ \A pt \in Points :
           Meets(SlopeAt(g, Output(g, f, role[1]).e, OperandSymbol(g, f, role[2]), pt),
                 ValueAt(g, Output(g, f, k).e, pt))

(* Among expressions of lib a call that import makes of the wrong output:   *)
(* its function was imported before, and the function returned for it       *)
(* (compose.rs:28) has no such output, or another derivative in its place.  *)
Outgrown(es) ==
  \E c \in UNION {FreeCalls(e) : e \in es} :
    LET f == Func(c)
        ours == own.funcs[imp[f]].roles
    IN  /\ f \in DOMAIN imp
        /\ Out(c) \in DOMAIN ours => ours[Out(c)] # lib.funcs[f].roles[Out(c)]

(* The bodies of lib that own has.                                          *)
Brought ==
  UNION {{lib.funcs[f].outs[k].e : k \in DOMAIN lib.funcs[f].outs \cap DOMAIN own.funcs[imp[f]].outs} :
           f \in DOMAIN imp}

(* The output a function names a derivative of another by an operand is     *)
(* that, in every copy, specialization and import of it (func.rs:250): of   *)
(* imports said while no body calls an output derived since its function's  *)
(* import.                                                                  *)
DerivativesNamed == NamedIn(lib) /\ (~Outgrown(Brought) => NamedIn(own))

(* An expression imported is worth what it is at home (compose.rs:83), its  *)
(* functions' copies shared or not, through one map however often           *)
(* (compose.rs:15).                                                         *)
ImportedExactly ==
  Of("import") =>
    \A pt \in Points : Meets(ValueAt(lib, last.of, pt), ValueAt(own, last.is, pt))

(* So it is while neither it nor a body it reaches calls an output that a   *)
(* function derived after its import.  Such a call has the index it has at  *)
(* home (compose.rs:126), where the function imported keeps the outputs it  *)
(* came with, against "derivative outputs kept" (compose.rs:13): it stops   *)
(* the program, or names another derivative.                                *)
ImportsExact == ~Outgrown({libCur} \cup Brought) => ImportedExactly

=============================================================================
