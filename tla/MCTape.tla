------------------------------- MODULE MCTape -------------------------------
(***************************************************************************)
(* Tape on small expressions: each case brings out one part of the         *)
(* compiler, together every kernel, fold, call and phase.                  *)
(***************************************************************************)
EXTENDS Tape

Sym(x) == [op |-> "sym", name |-> x, args |-> <<>>]
Bin(op, a, b) == [op |-> op, args |-> <<a, b>>]
Neg(a) == [op |-> "neg", args |-> <<a>>]
Fn(f, args) == [op |-> "fn", fn |-> f, args |-> args]
DotOf(args) == [op |-> "dot", args |-> args]
SolveOf(args, i) == [op |-> "solve", args |-> args, comp |-> i]
Call(f, k, args) == [op |-> "call", f |-> f, out |-> k, args |-> args]
Case(nodes, funcs, roots, inputs, mask, which) ==
  [g |-> [nodes |-> nodes, funcs |-> funcs], roots |-> roots, inputs |-> inputs,
   mask |-> mask, which |-> which]
NoFuncs == <<>>
Whole(roots) == [r \in DOMAIN roots |-> r]

(* A product fused into a sum, a shared one not, a negation as a subtraction. *)
Scalars ==
  Case(<<Sym("p"), Sym("x"), Sym("y"), Bin("mul", 1, 2), Bin("add", 4, 3), Bin("mul", 2, 3),
         Neg(6), Bin("add", 5, 7), Bin("add", 6, 8), Fn("sin", <<9>>), Neg(10), Bin("add", 3, 11)>>,
       NoFuncs, <<9, 12>>, <<"p", "x", "y">>, <<TRUE, FALSE, FALSE>>, <<1, 2>>)

(* Rows of one matrix, folded with an accumulator each: subtracted, added,  *)
(* negated, and one with another row.                                       *)
Rows ==
  Case(<<Sym("p"), Sym("q"), Sym("x"), Sym("y"),
         DotOf(<<1, 2, 3, 4>>), DotOf(<<2, 2, 3, 4>>), DotOf(<<1, 1, 3, 4>>),
         Neg(5), Bin("add", 4, 8), Neg(7), Bin("add", 6, 10)>>,
       NoFuncs, <<9, 11>>, <<"p", "q", "x", "y">>, <<TRUE, TRUE, FALSE, FALSE>>, <<1, 2>>)

(* Two kernels, the second over the first, accumulators that order them.    *)
Chained ==
  Case(<<Sym("p"), Sym("x"), Sym("y"),
         DotOf(<<1, 2, 2, 3>>), DotOf(<<2, 1, 2, 3>>), Bin("add", 4, 3), Bin("mul", 5, 2),
         DotOf(<<1, 1, 6, 7>>), DotOf(<<3, 1, 6, 7>>),
         Fn("sin", <<6>>), Bin("add", 8, 10), Neg(9), Bin("add", 7, 12)>>,
       NoFuncs, <<11, 13>>, <<"p", "x", "y">>, <<TRUE, FALSE, FALSE>>, <<1, 2>>)

(* The same rows over two vectors.                                          *)
Matrices ==
  Case(<<Sym("p"), Sym("q"), Sym("x"), Sym("y"),
         DotOf(<<1, 2, 3, 4>>), DotOf(<<2, 1, 3, 4>>), DotOf(<<1, 2, 4, 3>>), DotOf(<<2, 1, 4, 3>>),
         Bin("add", 5, 3), Bin("add", 6, 7)>>,
       NoFuncs, <<9, 10, 8>>, <<"p", "q", "x", "y">>, <<TRUE, TRUE, FALSE, FALSE>>, <<1, 2, 3>>)

(* Two right sides against one matrix, and a system of another.             *)
Systems ==
  Case(<<Sym("p"), Sym("q"), Sym("x"), Sym("y"),
         SolveOf(<<1, 2, 2, 1, 3, 4>>, 0), SolveOf(<<1, 2, 2, 1, 4, 4>>, 1),
         SolveOf(<<2, 2, 1, 1, 3, 4>>, 0), SolveOf(<<2, 2, 1, 1, 4, 3>>, 1), Bin("add", 5, 6)>>,
       NoFuncs, <<9, 7, 8>>, <<"p", "q", "x", "y">>, <<TRUE, TRUE, FALSE, FALSE>>, <<1, 2, 3>>)

Device == [params |-> <<"a", "b">>, outs |-> <<1, 1>>, composite |-> FALSE, extern |-> TRUE,
           pure |-> <<TRUE, FALSE>>, stateLen |-> 2, reads |-> <<2>>]
Plain2 == [params |-> <<"a">>, outs |-> <<1, 1>>, composite |-> FALSE, extern |-> FALSE,
           pure |-> <<FALSE>>, stateLen |-> 0, reads |-> None]

(* Calls with a state, three instances over pure arguments some share, one  *)
(* after the others, and calls of another function beside them.             *)
Devices ==
  Case(<<Sym("p"), Sym("q"), Sym("x"), Sym("y"),
         Call(1, 1, <<1, 3>>), Call(1, 1, <<2, 3>>), Call(1, 1, <<1, 4>>),
         Call(2, 1, <<3>>), Call(2, 1, <<4>>), Bin("add", 5, 6), Bin("add", 7, 10),
         Call(2, 2, <<11>>), Bin("add", 8, 9), Bin("add", 12, 13)>>,
       <<Device, Plain2>>, <<14>>, <<"p", "q", "x", "y">>, <<TRUE, TRUE, FALSE, FALSE>>, <<1>>)

\* params as symbols of the graph: nodes 1..2 are a, b
Comp(outs) == [params |-> <<"a", "b">>, outs |-> outs, composite |-> TRUE, extern |-> FALSE,
               pure |-> <<FALSE, FALSE>>, stateLen |-> 0, reads |-> None]

(* A composite function whose body calls another, called at two places, its  *)
(* calls merged across them; a view of one root narrows them.               *)
Composites ==
  Case(<<Sym("a"), Sym("b"), Call(1, 1, <<1, 2>>), Call(1, 2, <<1, 2>>), Bin("mul", 3, 2),
         Bin("add", 5, 4), Sym("p"), Sym("x"), Sym("y"),
         Call(2, 1, <<7, 8>>), Call(2, 1, <<7, 9>>), Call(2, 2, <<7, 9>>), Bin("add", 10, 11)>>,
       <<[Device EXCEPT !.extern = FALSE], Comp(<<6, 4>>)>>, <<13, 12>>, <<"p", "x", "y">>,
       <<TRUE, FALSE, FALSE>>, <<2>>)

(* Independent chains of ops, in a prolog and in the main phase.             *)
Chains ==
  Case(<<Sym("p"), Sym("q"), Sym("x"), Sym("y"),
         Fn("sin", <<1>>), Fn("cos", <<5>>), Fn("sin", <<2>>), Fn("cos", <<7>>),
         Fn("sin", <<3>>), Bin("mul", 9, 6), Fn("sin", <<4>>), Bin("mul", 11, 8)>>,
       NoFuncs, <<10, 12>>, <<"p", "q", "x", "y">>, <<TRUE, TRUE, FALSE, FALSE>>, <<1, 2>>)

(* One call of a body before a kernel, one over the kernel's output, merged: *)
(* what reads the first comes before the kernel and depends on it.          *)
Merged2 ==
  Case(<<Sym("a"), Call(1, 1, <<1>>), Sym("x"), Sym("y"), Sym("z"),
         Call(2, 1, <<3>>), Fn("sin", <<6>>), DotOf(<<3, 4, 4, 5>>), DotOf(<<5, 4, 4, 5>>),
         Call(2, 1, <<8>>), Neg(9), Bin("add", 11, 7), Fn("cos", <<10>>)>>,
       <<Plain2, [Plain2 EXCEPT !.outs = <<2>>, !.composite = TRUE]>>, <<13, 12>>,
       <<"x", "y", "z">>, None, <<1, 2>>)

(* A call whose operand's slot is free for the call after it.                *)
Reuse ==
  Case(<<Sym("x"), Sym("y"), Call(2, 1, <<2>>), Fn("sin", <<1>>), Call(1, 1, <<4>>),
         Call(1, 2, <<4>>), Bin("mul", 3, 5), Bin("mul", 3, 6), Bin("mul", 7, 8)>>,
       <<Plain2, Plain2>>, <<9>>, <<"x", "y">>, <<FALSE, FALSE>>, <<1>>)

(* Kernels pure enough for a prolog, with accumulators that are not.         *)
PureRows ==
  Case(<<Sym("p"), Sym("q"), Sym("x"), Sym("y"),
         DotOf(<<1, 2, 1, 2>>), DotOf(<<2, 2, 1, 2>>), Neg(5), Bin("add", 3, 7), Bin("add", 1, 6),
         Bin("mul", 8, 9), Bin("mul", 3, 9)>>,
       NoFuncs, <<10, 11>>, <<"p", "q", "x", "y">>, <<TRUE, TRUE, FALSE, FALSE>>, <<1, 2>>)

(* Two rows of one kernel and the sums, negations and functions of them.     *)
Folds ==
  {Case(<<Sym("p"), Sym("x"), Sym("y"), DotOf(<<1, v, 1, v>>), DotOf(<<v, 2, 1, v>>),
          Fn("sin", <<a>>), Neg(b), Bin("add", c[1], c[2]), Bin("add", d[1], d[2])>>,
        NoFuncs, <<9, r>>, <<"p", "x", "y">>, <<TRUE, v = 1, FALSE>>, <<1, 2>>) :
     v \in {1, 2}, a \in {4}, b \in {4, 5}, c \in {x \in (4..7) \X (3..7) : x[1] # x[2]},
     d \in {x \in {5, 7, 8} \X (3..6) : x[1] # x[2]}, r \in {3}}
Hashed == {c \in Folds : ToSet(c.g.nodes[8].args) # ToSet(c.g.nodes[9].args)}

(* Selects: of the prolog with a parameter for an arm, under one condition,  *)
(* one the condition of another, and one an arm of another.                 *)
Fn3(c, a, b) == Fn("select", <<c, a, b>>)
Choosing ==
  Case(<<Sym("p"), Sym("x"), Sym("y"), Fn("sin", <<1>>), Fn3(1, 1, 4), Fn("lt", <<2, 3>>),
         Bin("mul", 2, 3), Fn3(6, 5, 7), Fn3(8, 2, 7), Bin("add", 5, 9)>>,
       NoFuncs, <<10, 6>>, <<"p", "x", "y">>, <<TRUE, FALSE, FALSE>>, <<1, 2>>)
SharedCondition ==
  Case(<<Sym("p"), Sym("x"), Sym("y"), Fn("lt", <<1, 2>>), Fn("cos", <<3>>), Fn3(4, 1, 5),
         Fn("sin", <<1>>), Fn3(7, 6, 3), Fn3(4, 8, 2), Bin("mul", 6, 9), Neg(10)>>,
       NoFuncs, <<11, 9>>, <<"p", "x", "y">>, <<TRUE, FALSE, FALSE>>, <<1>>)

(* Calls of devices as arms: a state the shortened main phase leaves unread. *)
Regional ==
  Case(<<Sym("p"), Sym("x"), Sym("y"), Fn("lt", <<2, 3>>), Call(1, 1, <<1, 2>>),
         Call(1, 1, <<3, 3>>), Fn("sin", <<1>>), Bin("mul", 5, 7), Fn3(4, 8, 6)>>,
       <<Device, Plain2>>, <<9>>, <<"p", "x", "y">>, <<TRUE, FALSE, FALSE>>, <<1>>)

Unsplit(c) == [c EXCEPT !.mask = None]
MCCases ==
  LET all == {Scalars, Rows, Chained, Matrices, Systems, Devices, Composites, Chains, Reuse,
           PureRows, Choosing, SharedCondition, Regional}
  IN  all \cup {Unsplit(c) : c \in all} \cup Hashed
MCMerged == {Merged2}
=============================================================================
