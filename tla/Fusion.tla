------------------------------- MODULE Fusion -------------------------------
(***************************************************************************)
(* The accumulator fusion of the product kernels (crates/rsdag/src/tape/   *)
(* compile.rs, pass 3) over the dynamic order of Topo: an output whose one *)
(* consumer adds, subtracts or negates it is folded by its kernel, and the *)
(* consumer vanishes.                                                      *)
(***************************************************************************)
EXTENDS Topo

(* The search to its end, the two sides in turn.                           *)
RECURSIVE Settle(_, _, _)
Settle(t, p, s) ==
  IF s.outcome # "none" THEN s
  ELSE Settle(t, p, IF s.turn = "f" THEN ForwardEdge(t, s)
                    ELSE BackwardEdge(t, Operands(p), s))

(* Kernel k reads a unless a depends on k; the order after, and whether.    *)
ReadInto(t, p, k, a) ==
  LET settled(s) == IF s.outcome = "cycle" THEN [t |-> Searched(t, s), fits |-> FALSE]
                    ELSE [t |-> Moved(t, s), fits |-> TRUE]
  IN  IF Before(t, a, k) THEN [t |-> Joined(t, a, k), fits |-> TRUE]
      ELSE settled(Settle(t, p, Search(t, k, a)))

-----------------------------------------------------------------------------
(* The uses of a kernel's output: its readings, a root counting for two.    *)
UseCount(p, this) ==
  Cardinality({<<j, a>> \in (1..Len(p.insts)) \X (1..20) :
                 a \in DOMAIN p.insts[j].ins /\ p.insts[j].ins[a] = this})
    + 2 * Cardinality({r \in DOMAIN p.roots : p.roots[r] = this})
Consumer(p, this) == CHOOSE j \in 1..Len(p.insts) : Contains(p.insts[j].ins, this)

(* Mutant: a subtraction of either side folds as one of the other.          *)
FoldOfEitherSide(inst, this) ==
  LET other == IF inst.ins[1] = this THEN inst.ins[2] ELSE inst.ins[1]
  IN  IF inst.kind.op \in {"sub", "add"} THEN <<inst.kind.op, other>>
      ELSE IF inst.kind.op = "neg" THEN <<"neg", this>> ELSE None

(* What the consumer folds the output with, and how; no fold is `None`.     *)
FoldOf(inst, this) ==
  CASE inst.kind.op = "sub" /\ inst.ins[2] = this -> <<"sub", inst.ins[1]>>
    [] inst.kind.op = "add" ->
         <<"add", IF inst.ins[1] = this THEN inst.ins[2] ELSE inst.ins[1]>>
    [] inst.kind.op = "neg" -> <<"neg", this>>
    [] OTHER -> None

(* The accumulators the foldable outputs would take: not another output of  *)
(* the kernel, nor a value read off one.                                    *)
FoldHints(p0, p, kernels) ==
  {h \in (1..Len(p0.insts)) \X kernels :
     \E c \in 0..(p0.insts[h[2]].nOut - 1) :
       LET this == Value(h[2], c)
           fold == FoldOf(p.insts[Consumer(p0, this)], this)
       IN  /\ UseCount(p0, this) = 1
           /\ fold # None /\ fold[1] # "neg"
           /\ IsValue(fold[2]) /\ fold[2][2] = h[1]
           /\ h[1] # h[2] /\ h[2] \notin Reads(p.insts[h[1]])}

(* A reference to a consumer folded away is to its kernel's output.         *)
RECURSIVE Through(_, _)
Through(alias, r) == IF IsValue(r) /\ r[2] \in DOMAIN alias
                     THEN Through(alias, alias[r[2]]) ELSE r

(* Whether kernel k may read instruction i, s.topo asked from the first     *)
(* accumulator after its kernel on: until then the lowering's order is one. *)
Fits(s, p, k, i) ==
  IF s.topo = None /\ i < k THEN [t |-> None, fits |-> TRUE]
  ELSE ReadInto(IF s.topo # None THEN s.topo
                ELSE NewTopo(p, FoldHints(s.p0, p, s.kernels), k, s.taken), p, k, i)

(* Output c of kernel k folded into `acc`, where its consumer j takes it in  *)
(* the way `fold` says.  s.codes, s.accs, s.fused, s.taken and s.held are    *)
(* the kernel's so far.                                                      *)
FoldInto(s, p, k, c, j, fold, acc, pureInputs) ==
  LET hole == Value(p.place, 0)
      with(code, r) == [s EXCEPT !.codes[c] = code, !.accs[c] = r, !.fused = @ \cup {<<c, j>>}]
      code == [fold |-> fold[1], self |-> -1]
      asked(answer) ==
        IF answer.fits
        THEN [with(code, acc) EXCEPT !.topo = answer.t, !.taken = @ \cup {acc[2]}]
        ELSE [s EXCEPT !.topo = answer.t]
  IN  CASE fold[1] = "neg" -> with(code, hole)
        [] fold[1] # "neg" /\ IsValue(acc) /\ acc[2] = k ->
             IF acc[3] = c \/ s.codes[acc[3]] # Plain THEN s
             ELSE [with([code EXCEPT !.self = acc[3]], hole) EXCEPT !.held = @ \cup {acc[3]}]
        [] fold[1] # "neg" /\ IsValue(acc) /\ acc[2] # k ->
             IF p.insts[k].pure /\ ~p.insts[acc[2]].pure THEN s ELSE asked(Fits(s, p, k, acc[2]))
        [] OTHER -> IF p.insts[k].pure /\ acc[2] \notin pureInputs THEN s ELSE with(code, acc)

(* Output c of kernel k, folded if it can be.                                *)
FoldOutput(s, p, k, c, pureInputs) ==
  LET this == Value(k, c)
      j == Consumer(s.p0, this)
  IN  IF UseCount(s.p0, this) # 1 \/ j \in s.dead \/ c \in s.held THEN s
      ELSE Given(FoldOf(p.insts[j], this), LAMBDA fold :
             IF fold = None THEN s
             ELSE FoldInto(s, p, k, c, j, fold, Through(s.alias, fold[2]), pureInputs))

(* One kernel: its outputs in turn, then its accumulators its operands.     *)
FuseKernel(s, k, pureInputs) ==
  LET n == s.p.insts[k].nOut
      placed == IF s.p.place # 0 THEN s.p
                ELSE [Push(s.p, Inst([op |-> "const", v |-> "nan"], <<>>, 1, TRUE))
                        EXCEPT !.place = Len(s.p.insts) + 1]
      begin(p) == [s EXCEPT !.codes = [c \in 0..(n - 1) |-> Plain],
                            !.accs = [c \in 0..(n - 1) |-> Value(p.place, 0)],
                            !.fused = {}, !.taken = {}, !.held = {}]
      folded(p, done) == [p EXCEPT !.insts[k].ins = @ \o [c \in 1..n |-> done.accs[c - 1]],
                                   !.insts[k].kind.acc = done.codes]
      fused(p, done) ==
        IF done.fused = {} THEN [done EXCEPT !.p = p]
        ELSE [done EXCEPT !.p = folded(p, done),
                          !.dead = @ \cup {f[2] : f \in done.fused},
                          !.alias = [j \in DOMAIN @ \cup {f[2] : f \in done.fused} |->
                             IF j \in DOMAIN @ THEN @[j]
                             ELSE Value(k, (CHOOSE f \in done.fused : f[2] = j)[1])]]
  IN  Given(placed, LAMBDA p :
        fused(p, FoldLeft(LAMBDA u, c : FoldOutput(u, p, k, c, pureInputs), begin(p),
                          [c \in 1..n |-> c - 1])))

(* Pass 3.  The uses and their consumers are those before it.               *)
FuseAccumulators(p, pureInputs) ==
  LET kernels == {i \in 1..Len(p.insts) : IsKernel(p.insts[i])}
      plain == {i \in kernels : p.insts[i].kind.acc = None}
      start == [p0 |-> p, p |-> p, kernels |-> kernels, topo |-> None, alias |-> <<>>,
                dead |-> {}, codes |-> <<>>, accs |-> <<>>, fused |-> {}, taken |-> {},
                held |-> {}]
      without(s) == IF s.dead = {} THEN s.p
                    ELSE Compact(s.p, s.dead, [r \in Refs(s.p) |-> Through(s.alias, r)])
  IN  IF plain = {} THEN p
      ELSE without(FoldLeft(LAMBDA u, k : FuseKernel(u, k, pureInputs), start, Ascending(plain)))
=============================================================================
