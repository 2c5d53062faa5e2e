-------------------------------- MODULE Calls --------------------------------
(***************************************************************************)
(* Functions and the calls of them (crates/rsdag/src/graph/calls.rs,       *)
(* graph/flow.rs, func.rs): parameters bound once for many calls, the      *)
(* symbols a body reads as globals, the operands an output reads.  A graph *)
(* `g` is its functions, its symbols in the order they were made, and the  *)
(* copies of functions it keeps.                                           *)
(*                                                                         *)
(* Functions, outputs and parameters are numbered from 1.                  *)
(***************************************************************************)
EXTENDS Exprs

NoGraph == [funcs |-> <<>>, order |-> <<>>, rebound |-> {}, made |-> {}, vjps |-> {}]

Expr(e) == [t |-> "expr", e |-> e]
Slot(e) == [t |-> "slot", e |-> e]  \* of an extern body, which computes e
ZeroOut == [t |-> "zero", e |-> Zero]
AsOutput(e) == IF e = Zero THEN ZeroOut ELSE Expr(e)
NoRole == <<>>
Derivative(out, p) == <<out, p>>

(* A function: its parameters and which are model parameters; its outputs   *)
(* and of each the derivative it is.                                        *)
Function(params, pure, outs, extern) ==
  [params |-> params, pure |-> pure, outs |-> outs, extern |-> extern,
   roles |-> [k \in DOMAIN outs |-> NoRole]]

PushFunction(g, f) == [g EXCEPT !.funcs = Append(@, f)]
PushOutput(g, f, out, role) ==
  [g EXCEPT !.funcs[f].outs = Append(@, out), !.funcs[f].roles = Append(@, role)]
Intern(g, s) == IF \E i \in DOMAIN g.order : g.order[i] = s THEN g
                ELSE [g EXCEPT !.order = Append(@, s)]
InternAll(g, syms) == FoldLeft(LAMBDA h, s : Intern(h, s), g, syms)

(* Indexing past the outputs stops the program: no value.                   *)
Output(g, f, k) ==
  IF k \in DOMAIN g.funcs[f].outs THEN g.funcs[f].outs[k] ELSE Expr(Const(Undef))
DerivativeAt(g, f, out, p) ==
  LET ks == {k \in DOMAIN g.funcs[f].roles : g.funcs[f].roles[k] = Derivative(out, p)}
  IN  IF ks = {} THEN 0 ELSE CHOOSE k \in ks : \A j \in ks : j <= k

(* Op(h, e) over the elements of es, the graph threaded: the graph, results. *)
Thread(Op(_, _), g, es) ==
  FoldLeft(LAMBDA acc, e : LET r == Op(acc[1], e) IN <<r[1], Append(acc[2], r[2])>>,
           <<g, <<>>>>, es)

Ascending(S) == SetToSortSeq(S, LAMBDA a, b : a < b)

-----------------------------------------------------------------------------
(* Calls: a node of the function, the output and the bound positions, over  *)
(* the arguments passed and then the expressions bound.                     *)

Func(e) == e.k[1]
Out(e) == e.k[2]
At(e) == SubSeq(e.k, 3, Len(e.k))
Passed(e) == SubSeq(e.a, 1, Len(e.a) - Len(At(e)))

(* An output no argument moves is its value. *)
CallIn(g, f, k, at, ops) ==
  LET out == Output(g, f, k)
  IN  CASE out.t = "zero" -> Zero
        [] out.t = "expr" /\ IsConst(out.e) -> out.e
        [] OTHER -> Node("call", <<f, k>> \o at, ops)

(* The call of f with the parameters in DOMAIN bound bound. *)
CallBound(g, f, k, bound, args) ==
  LET at == Ascending(DOMAIN bound)
  IN  CallIn(g, f, k, at, args \o [j \in DOMAIN at |-> bound[at[j]]])
CallOf(g, f, k, args) == CallIn(g, f, k, <<>>, args)

(* Mutant: the passed arguments keep their places beside the bound ones. *)
SlotOfPassed(at, p, nPassed) ==
  IF \E j \in DOMAIN at : at[j] = p THEN nPassed + 1 ELSE p
(* The slot of parameter p: a bound expression, or an argument passed. *)
SlotOf(at, p, nPassed) ==
  LET before == Cardinality({j \in DOMAIN at : at[j] < p})
  IN  IF \E j \in DOMAIN at : at[j] = p THEN nPassed + before + 1 ELSE p - before
FullArgs(e) == [p \in DOMAIN e.a |-> e.a[SlotOf(At(e), p, Len(Passed(e)))]]

Rebuild(g, e, ops) ==
  IF e.op = "call" THEN CallIn(g, Func(e), Out(e), At(e), ops) ELSE Build(e, ops)

-----------------------------------------------------------------------------
(* What expressions mention and read.                                       *)

Exprs(g, f) == {o \in Range(g.funcs[f].outs) : o.t = "expr"}
Mentioned(e) == {x.k[1] : x \in {y \in Nodes(e) : y.op = "sym"}}
FreeCalls(e) == {x \in Nodes(e) : x.op = "call"}
IsComposite(g, f) == \E o \in Exprs(g, f) : FreeCalls(o.e) # {}

RECURSIVE GlobalSet(_, _)
GlobalSet(g, f) ==
  UNION {Mentioned(o.e) \cup UNION {GlobalSet(g, Func(c)) : c \in FreeCalls(o.e)} :
           o \in Exprs(g, f)} \ Range(g.funcs[f].params)
FreeSymbols(g, e) == Mentioned(e) \cup UNION {GlobalSet(g, Func(c)) : c \in FreeCalls(e)}

(* The globals of f, by the place of their node in the graph. *)
Globals(g, f) == LET read == GlobalSet(g, f) IN SelectSeq(g.order, LAMBDA s : s \in read)

(* A call's operands: its arguments by parameter, then f's globals. *)
OperandSymbols(g, f) == g.funcs[f].params \o Globals(g, f)
Operands(g, e) ==
  IF e.op = "call"
  THEN FullArgs(e) \o [j \in DOMAIN Globals(g, Func(e)) |-> Sym(Globals(g, Func(e))[j])]
  ELSE e.a

-----------------------------------------------------------------------------
(* The structural analysis: an expression's set is the union of what its    *)
(* operands' are, a symbol's the leaf's; a call reads the operands its      *)
(* output reads.                                                            *)

(* The leading operands that carry no derivative. *)
Inert(e) == CASE e.op \in Comparisons -> 2
              [] e.op = "select" -> 1
              [] OTHER -> 0
(* Mutant: one branch of a select is taken for inert with its condition. *)
SkippedBranch(e, through) == IF e.op = "select" THEN 2 ELSE Inert(e)
Skipped(e, through) == IF through = "carries" THEN Inert(e) ELSE 0

RECURSIVE Flow(_, _, _, _), Carried(_, _, _, _), ReadsOf(_, _, _, _, _)
Flow(g, e, through, leaf) ==
  LET ops == Operands(g, e)
  IN  CASE e.op = "sym" -> IF e.k[1] \in DOMAIN leaf THEN leaf[e.k[1]] ELSE {}
        [] OTHER -> Carried(g, e, through, [p \in DOMAIN ops |-> Flow(g, ops[p], through, leaf)])

(* The union of what the operands e reads are. *)
Carried(g, e, through, of) ==
  UNION {of[p] : p \in IF e.op = "call"
                       THEN ReadsOf(g, Func(e), Out(e), through, {p \in DOMAIN of : of[p] # {}})
                       ELSE (Skipped(e, through) + 1)..Len(of)}

(* Of the operands `moving`, those output k of f reads. *)
ReadsOf(g, f, k, through, moving) ==
  LET out == Output(g, f, k)
      syms == OperandSymbols(g, f)
  IN  CASE out.t = "zero" -> {}
        [] out.t = "slot" -> moving
        [] OTHER -> Flow(g, out.e, through,
                         [s \in {syms[p] : p \in moving} |-> {p \in moving : syms[p] = s}])

OutputSupport(g, f, k) == ReadsOf(g, f, k, "carries", DOMAIN OperandSymbols(g, f))
Identity(S) == [s \in S |-> {s}]
SupportIn(g, e) == Flow(g, e, "carries", Identity(FreeSymbols(g, e)))
(* Mutant: what carries no derivative is no dependence. *)
DependsOnCarried(g, e, syms) == Flow(g, e, "carries", Identity(syms)) # {}
DependsOn(g, e, syms) == Flow(g, e, "reads", Identity(syms)) # {}

(* The operands a derivative of e reads, by position. *)
Carrying(g, e) ==
  CASE e.op = "call" -> Ascending(OutputSupport(g, Func(e), Out(e)))
    [] OTHER -> [i \in 1..(Len(e.a) - Inert(e)) |-> i + Inert(e)]
CarryingOps(g, e) ==
  Given(Carrying(g, e), LAMBDA at : [i \in DOMAIN at |-> Operands(g, e)[at[i]]])
=============================================================================
