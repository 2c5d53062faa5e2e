------------------------------ MODULE Lowering ------------------------------
(***************************************************************************)
(* The lowering of expressions to a program (crates/rsdag/src/tape/        *)
(* compile.rs, passes 1 and 2): the reachable forest, the kernels its      *)
(* members form, an order of units, the instructions; composite functions  *)
(* as templates expanded per instance, their leaf calls merged.            *)
(*                                                                         *)
(* A graph `g` is [nodes, funcs].  A node is [op, args] with the fields of *)
(* its op: `sym` (name), `const` (v), `fn` (fn), `call` (f, out), `solve`  *)
(* (comp); operands come before it, and equal nodes are one node.  A call's*)
(* args are its whole operand list, bound expressions and globals included.*)
(* A function is [params, outs, composite, extern, pure, stateLen, reads]: *)
(* outs[k] is its output's expression, or 0 for a zero output.             *)
(***************************************************************************)
EXTENDS Programs

CONSTANTS GemvMinRows,     \* GEMV_MIN_ROWS
          SolveBatchMaxN,  \* SOLVE_BATCH_MAX_N
          SolveBatchMaxK   \* SOLVE_BATCH_MAX_K

RECURSIVE Reachable(_, _, _)
Reachable(g, todo, seen) ==
  IF todo = {} THEN seen
  ELSE Reachable(g, UNION {ToSet(g.nodes[e].args) : e \in todo} \ (seen \cup todo),
                 seen \cup todo)

Root(n) == MaxOr({q \in 0..n : q * q <= n}, 0)
SystemSize(list) == MaxOr({n \in 0..Len(list) : n * n + n <= Len(list)}, 0)
Halves(list) == LET n == Len(list) \div 2 IN <<Slice(list, 0, n), Slice(list, n, n)>>

(* Pass 1.  Purity: what depends on pure inputs alone; a symbol that is no  *)
(* input is a constant.  Fusion into an addition: a product or a negation   *)
(* that addition alone uses, the first operand before the second.  The      *)
(* calls of one site name its operands once.                                *)
Analyze(g, roots, inputs, mask) ==
  LET n == Len(g.nodes)
      base == Reachable(g, ToSet(roots), {})
      index(s) == MaxOr({k \in DOMAIN inputs : inputs[k] = s}, 0)
      pure(t, e) ==
        LET nd == g.nodes[e]
        IN  mask # None /\ IF nd.op = "sym" THEN index(nd.name) = 0 \/ mask[index(nd.name)]
                           ELSE \A a \in DOMAIN nd.args : t[nd.args[a]]
      counted(e) == ~\E d \in base : /\ d < e /\ g.nodes[d].op = "call"
                                     /\ g.nodes[e].op = "call"
                                     /\ g.nodes[d].args = g.nodes[e].args
      uses(x) == Cardinality({<<e, a>> \in base \X (1..20) :
                   counted(e) /\ a \in DOMAIN g.nodes[e].args /\ g.nodes[e].args[a] = x})
      fusable(x) == /\ ~Contains(roots, x) /\ uses(x) = 1
                    /\ g.nodes[x].op \in {"mul", "neg"}
      into(e) == LET a == g.nodes[e].args[1]  b == g.nodes[e].args[2]
                 IN  IF fusable(a) THEN a ELSE IF fusable(b) THEN b ELSE 0
      adds == {e \in base : g.nodes[e].op = "add"}
  IN  [g |-> g, roots |-> roots, base |-> base, split |-> mask # None, index |->
         [e \in base |-> IF g.nodes[e].op = "sym" THEN index(g.nodes[e].name) ELSE 0],
       pure |-> Tabulate(pure, n),
       fused |-> [e \in base |-> IF e \in adds THEN into(e) ELSE 0]]

Fused(F, e) == \E d \in F.base : F.fused[d] = e

Site(F, e) == <<F.g.nodes[e].f, F.g.nodes[e].args>>
Calls(F) == {e \in F.base : F.g.nodes[e].op = "call"}
Composite(F, f) == F.g.funcs[f].composite

(* The outputs a call is made for.                                          *)
CallSet(F, site) == Ascending({F.g.nodes[e].out : e \in {d \in Calls(F) : Site(F, d) = site}})

-----------------------------------------------------------------------------
(* The kernel groups: calls of one function and output set, row dots by     *)
(* their vector, solves by their list, members of one depth, so that none   *)
(* reads another's output.  A group is [key, members].                      *)
Groups(F) ==
  LET g == F.g
      nd(e) == g.nodes[e]
      sites(f) == {Site(F, e) : e \in {d \in Calls(F) : g.nodes[d].f = f}}
      batched(f) == ~Composite(F, f) /\ Cardinality(sites(f)) >= 2
      rows(x) == {e \in F.base : nd(e).op = "dot" /\ Halves(nd(e).args)[2] = x}
      member == {e \in F.base :
        CASE nd(e).op = "call"  -> batched(nd(e).f)
          [] nd(e).op = "dot"   -> Cardinality(rows(Halves(nd(e).args)[2])) >= GemvMinRows
          [] OTHER -> nd(e).op = "solve"}
      depthOf(t, e) == MaxOr({t[nd(e).args[a]] : a \in DOMAIN nd(e).args}, 0)
                         + IF e \in member THEN 1 ELSE 0
      depth == Tabulate(depthOf, Len(g.nodes))
      key(e) ==
        CASE nd(e).op = "call" -> <<"call", depth[e], F.pure[e], nd(e).f, CallSet(F, Site(F, e))>>
          [] nd(e).op = "dot"  -> <<"gemv", depth[e], F.pure[e], Halves(nd(e).args)[2]>>
          [] OTHER             -> <<"solve", depth[e], F.pure[e], nd(e).args>>
      first == {e \in member : \A d \in member : key(d) = key(e) => e <= d}
      order == Ascending(first)
  IN  [q \in DOMAIN order |->
         [key |-> key(order[q]), members |-> Ascending({d \in member : key(d) = key(order[q])})]]

(* The groups of each class, of those able and alike, at its first one      *)
(* under the key for the class, the others left empty.                      *)
ClassOf(groups, c) == LET s == Ascending(c) IN [r \in DOMAIN s |-> groups[s[r]]]
Merged(groups, class, key) ==
  LET all(q) == ClassOf(groups, class[q])
  IN  [q \in DOMAIN groups |->
         IF Cardinality(class[q]) < 2 THEN groups[q]
         ELSE IF q # MinOf(class[q]) THEN [groups[q] EXCEPT !.members = <<>>]
         ELSE [key |-> key[class[q]],
               members |-> FlattenSeq([r \in DOMAIN all(q) |-> all(q)[r].members])]]

(* Vectors over the same rows: one product of matrices.                     *)
MergeGemm(F, groups) ==
  LET rows(gr) == {Halves(F.g.nodes[gr.members[q]].args)[1] : q \in DOMAIN gr.members}
      able(gr) == gr.key[1] = "gemv" /\ Len(gr.members) >= GemvMinRows
      alike(a, b) == rows(a) = rows(b) /\ a.key[2] = b.key[2] /\ a.key[3] = b.key[3]
      join(gs) == <<"gemm", gs[1].key[2], gs[1].key[3], SetToSeq(rows(gs[1])),
                    [q \in DOMAIN gs |-> gs[q].key[4]]>>
      class == [q \in DOMAIN groups |->
                  {r \in DOMAIN groups : /\ able(groups[q]) /\ able(groups[r])
                                         /\ alike(groups[q], groups[r])}]
      several == {c \in ToSet(class) : Cardinality(c) > 1}
  IN  Merged(groups, class, [c \in several |-> join(ClassOf(groups, c))])

(* Right-hand sides against one matrix: one solve of several.               *)
Matrix(list) == Slice(list, 0, SystemSize(list) * SystemSize(list))
RightSide(list) == SubSeq(list, Len(Matrix(list)) + 1, Len(list))

MergeSolves(groups) ==
  LET able(gr) == gr.key[1] = "solve"
      alike(a, b) == Matrix(a.key[4]) = Matrix(b.key[4]) /\ a.key[2] = b.key[2]
                     /\ a.key[3] = b.key[3]
      join(gs) == <<"many", gs[1].key[2], gs[1].key[3], [q \in DOMAIN gs |-> gs[q].key[4]]>>
      class == [q \in DOMAIN groups |->
                  {r \in DOMAIN groups : /\ able(groups[q]) /\ able(groups[r])
                                         /\ alike(groups[q], groups[r])}]
      several == {c \in ToSet(class) : Cardinality(c) > 1}
  IN  Merged(groups, class, [c \in several |-> join(ClassOf(groups, c))])

(* Solves of one shape: one batch of systems side by side, small ones only. *)
Lists(gr) == IF gr.key[1] = "solve" THEN <<gr.key[4]>> ELSE gr.key[4]
MergeBatches(groups) ==
  LET able(gr) == /\ gr.key[1] \in {"solve", "many"} /\ gr.members # <<>>
                  /\ SystemSize(Lists(gr)[1]) <= SolveBatchMaxN
                  /\ Len(Lists(gr)) <= SolveBatchMaxK
      alike(a, b) == /\ Len(Lists(a)[1]) = Len(Lists(b)[1]) /\ Len(Lists(a)) = Len(Lists(b))
                     /\ a.key[2] = b.key[2] /\ a.key[3] = b.key[3]
      join(gs) == <<"batch", gs[1].key[2], gs[1].key[3], [q \in DOMAIN gs |-> Lists(gs[q])]>>
      class == [q \in DOMAIN groups |->
                  {r \in DOMAIN groups : /\ able(groups[q]) /\ able(groups[r])
                                         /\ alike(groups[q], groups[r])}]
      several == {c \in ToSet(class) : Cardinality(c) > 1}
  IN  Merged(groups, class, [c \in several |-> join(ClassOf(groups, c))])

(* A vector of too few rows at its depth, or calls of one list, no kernel.  *)
Kernel(F, gr) ==
  CASE gr.key[1] = "gemv" -> Len(gr.members) >= GemvMinRows
    [] gr.key[1] = "call" -> Cardinality({Site(F, e) : e \in ToSet(gr.members)}) >= 2
    [] OTHER -> gr.members # <<>>

Kernels(F) == SelectSeq(MergeBatches(MergeSolves(MergeGemm(F, Groups(F)))),
                        LAMBDA gr : Kernel(F, gr))

-----------------------------------------------------------------------------
(* Every unit after its operands: a node, or the group it is in by its      *)
(* first member; the calls of one site are one unit; a fused operand is     *)
(* none, its consumer reads its operands.  Depth first from the roots.      *)
UnitOf(F, kernels, e) ==
  LET of == {q \in DOMAIN kernels : Contains(kernels[q].members, e)}
  IN  IF of # {} THEN kernels[MinOf(of)].members[1]
      ELSE IF F.g.nodes[e].op = "call"
           THEN MinOf({d \in Calls(F) : Site(F, d) = Site(F, e)}) ELSE e

UnitDeps(F, kernels, u) ==
  LET of == {q \in DOMAIN kernels : Contains(kernels[q].members, u)}
      members == IF of = {} THEN <<u>> ELSE kernels[MinOf(of)].members
      args(e) == F.g.nodes[e].args
      through(e) == FlattenSeq([a \in DOMAIN args(e) |->
                      IF F.fused[e] = args(e)[a] THEN args(args(e)[a]) ELSE <<args(e)[a]>>])
      raw == FlattenSeq([m \in DOMAIN members |-> through(members[m])])
      deps == [d \in DOMAIN raw |-> UnitOf(F, kernels, raw[d])]
  IN  FoldLeft(LAMBDA s, d : IF Contains(s, d) THEN s ELSE Append(s, d), <<>>, deps)

RECURSIVE UnitOrder(_, _, _, _)
UnitOrder(F, kernels, stack, order) ==
  IF stack = <<>> THEN order
  ELSE LET top == Last(stack)
           open == SelectSeq(UnitDeps(F, kernels, top[1]), LAMBDA d : ~Contains(order, d))
       IN  IF Contains(order, top[1]) THEN UnitOrder(F, kernels, Front(stack), order)
           ELSE IF top[2] THEN UnitOrder(F, kernels, Front(stack), Append(order, top[1]))
           ELSE UnitOrder(F, kernels, Append(Front(stack), <<top[1], TRUE>>)
                            \o [d \in DOMAIN open |-> <<open[d], FALSE>>], order)
=============================================================================
