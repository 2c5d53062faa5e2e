------------------------------- MODULE MCGraph -------------------------------
(***************************************************************************)
(* The instance of ExprGraph: symbols 1 to 3 are differentiated by, 3 is   *)
(* the one bodies read as a global, 4 to 6 are parameters.                 *)
(***************************************************************************)
EXTENDS ExprGraph

X == Sym(1)
Y == Sym(2)
Z == Sym(3)
P == Sym(4)
R == Sym(5)
Two == Const(Q(2))

MCWrt == <<1, 2, 3>>
MCPoints == {<<Q(1), Q(2), Q(3), Q(2), Q(-1), Q(1)>>,
             <<Q(0), Q(1), Q(-2), Q(3), <<1, 2>>, Q(2)>>,
             <<<<1, 2>>, Q(-1), Q(1), Q(0), Q(2), Q(3)>>}
MCMaps == {2 :> Mul(X, Z), 3 :> Add(X, Two), (1 :> Y) @@ (2 :> X)}
MCPins == {1 :> Two, (2 :> Zero) @@ (3 :> One)}
MCExpLimit == Q(4)
MCLnFloor == <<1, 100>>

(* Over a symbol every operation, over what they make the ones that nest. *)
Nests(e) ==
  {Node("neg", <<>>, <<e>>), Node("pow", <<2>>, <<e>>), Node("pow", <<-1>>, <<e>>),
   Node("mul", <<>>, <<e, X>>), Node("add", <<>>, <<e, Y>>), Node("powf", <<>>, <<e, Two>>),
   Node("abs", <<>>, <<e>>), Node("sum", <<>>, <<e, Two, X, Node("const", Q(-2), <<>>)>>),
   Node("select", <<>>, <<Node("gt", <<>>, <<e, Y>>), e, Z>>), Node("max", <<>>, <<e, Y, X>>)}
Flat(e) ==
  {Node(op, <<>>, <<e>>) : op \in Unaries \ {"trigamma"}}
  \cup {Node(op, <<>>, <<e, Y>>) : op \in Binaries \cup {"add"}}
  \cup {Node("prod", <<>>, <<e, Y, Z>>), Node("prod", <<>>, <<e, Zero>>), Node("min", <<>>, <<Y, e, Z>>),
        Node("dot", <<>>, <<e, Y, Z, e>>), Node("solve", <<1>>, <<e, Y, Two, One, Z, e>>),
        Node("select", <<>>, <<Node("le", <<>>, <<One, Two>>), e, Z>>)}
MCOver(e) == IF e.op = "sym" THEN Flat(e) \cup Nests(e) ELSE Nests(e)

(* Functions: over parameters 4 and 5, reading 3.                          *)
Pair == Function(<<4, 5>>, {}, <<Expr(Add(Mul(P, R), Z)), Expr(Pow(P, 2))>>, FALSE)
Model == Function(<<4, 5>>, {1, 2}, <<Expr(Mul(Mul(P, R), Z)), ZeroOut>>, FALSE)
Single == Function(<<4>>, {}, <<Expr(Mul(P, Z)), Expr(Pow(P, 2))>>, FALSE)
Shifted == Function(<<4>>, {}, <<Expr(Add(P, Z)), Expr(Pow(P, 2))>>, FALSE)
Extern == [Function(<<4, 5>>, {}, <<Slot(Add(P, Mul(Two, R))), Slot(One), Slot(Two)>>, TRUE)
             EXCEPT !.roles = <<NoRole, Derivative(1, 1), Derivative(1, 2)>>]
With(fs) == [NoGraph EXCEPT !.funcs = fs, !.order = <<1, 2, 3, 4, 5>>]
Calling(g, k, args) == CallOf(g, Len(g.funcs), k, args)
(* A caller whose parameter is the symbol its callee reads as a global. *)
Binder(g) == Function(<<3, 5>>, {}, <<Expr(Calling(g, 1, <<R, R>>)), Expr(Mul(Z, R))>>, FALSE)
Caller(g) == Function(<<3, 5>>, {}, <<Expr(Add(CallOf(g, 1, 1, <<R>>), CallOf(g, 2, 1, <<Z>>)))>>, FALSE)
BinderOf(g) == PushFunction(g, Binder(g))

Case(g, root, other, libRoot, calls) ==
  [own |-> g, root |-> root, lib |-> other, libRoot |-> libRoot, calls |-> calls]
Alone(g, root) == Case(g, root, NoGraph, One, 2)
System == Solve(<<X, Y, Two, One>>, <<Z, X>>)

MCCases ==
  LET pair == With(<<Pair>>)
      single == With(<<Single>>)
      model == With(<<Model>>)
      binder == BinderOf(pair)
      shared == With(<<Single, Shifted>>)
      library == PushFunction(shared, Caller(shared))
      derived == DerivativeOutput(library, 1, 1, 1)[1]
  IN  {Alone(With(<<>>), X),
       Case(With(<<>>), Mul(System[1], Add(System[2], X)), NoGraph, One, 1),
       Alone(pair, Mul(Calling(pair, 1, <<X, Y>>), Calling(pair, 2, <<X, Y>>))),
       Alone(pair, CallBound(pair, 1, 1, 2 :> Two, <<Mul(X, Y)>>)),
       Alone(binder, Calling(binder, 1, <<X, Mul(Y, Z)>>)),
       Alone(model, Calling(model, 1, <<X, Two>>)),
       Alone(single, Add(Calling(single, 1, <<X>>), Calling(single, 2, <<X>>))),
       Alone(With(<<Extern>>), Mul(Calling(With(<<Extern>>), 1, <<X, Y>>), Z)),
       Case(single, One, library, Calling(library, 1, <<Y, X>>), 3),
       Case(single, One, derived, CallOf(derived, 1, 1, <<X>>), 3)}

(* A template over one function, instantiated and derived in turn. *)
MCCopyCases == {Case(With(<<Single>>), Calling(With(<<Single>>), 1, <<X>>), NoGraph, One, 3)}
MCNothing(e) == {}
=============================================================================
