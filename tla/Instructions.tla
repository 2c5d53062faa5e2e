---------------------------- MODULE Instructions ----------------------------
(***************************************************************************)
(* The instructions of a forest (crates/rsdag/src/tape/compile.rs, the     *)
(* rest of pass 2): one per unit of Lowering's order, the calls of a       *)
(* composite function its template over their operands, and the calls the  *)
(* templates left apart merged.                                            *)
(*                                                                         *)
(* `lib` is what the graph keeps between compilations: the bodies built of *)
(* each function, in that order, and the templates.                        *)
(***************************************************************************)
EXTENDS Lowering

(* A body of f carrying the outputs `outs`, slot by slot.                   *)
Bundle(g, f, outs) ==
  [f |-> f, outs |-> outs, pure |-> g.funcs[f].pure, stateLen |-> g.funcs[f].stateLen,
   reads |-> g.funcs[f].reads]

Expressions(g, f, set) == SelectSeq(set, LAMBDA k : g.funcs[f].outs[k] # 0)
Covers(g, b, set) == ToSet(Expressions(g, b.f, set)) \subseteq ToSet(b.outs)

(* The body serving `set`, of its expressions alone if `exact`, the first   *)
(* smallest, else one of exactly its expressions, built and kept.           *)
BodyOf(g, lib, f, set, exact) ==
  LET serves(b) == /\ Covers(g, b, set)
                   /\ exact => Len(b.outs) = Len(Expressions(g, f, set))
      built == lib.built[f]
      able == {q \in DOMAIN built : serves(built[q])}
      best == {q \in able : \A r \in able : Len(built[q].outs) <= Len(built[r].outs)}
      fresh == Bundle(g, f, Expressions(g, f, set))
  IN  IF g.funcs[f].extern
      THEN [body |-> Bundle(g, f, [k \in DOMAIN g.funcs[f].outs |-> k]), lib |-> lib]
      ELSE IF able # {} THEN [body |-> built[MinOf(best)], lib |-> lib]
      ELSE [body |-> fresh, lib |-> [lib EXCEPT !.built[f] = Append(@, fresh)]]

BodyFor(g, lib, f, set) == BodyOf(g, lib, f, set, FALSE)
BodyExact(g, lib, f, set) == BodyOf(g, lib, f, set, TRUE)

(* Calls keep state in the caller: under a split, where the bundle has a    *)
(* state and every argument it flags pure is pure here: `pure` says which   *)
(* arguments of each list are.                                              *)
Stateful(split, b, pure) ==
  /\ split /\ b.stateLen > 0 /\ \E a \in DOMAIN b.pure : b.pure[a]
  /\ \A l \in ToSet(pure) : \A a \in DOMAIN b.pure : b.pure[a] => l[a]

(* The call of b over the argument lists, behind its prolog if stateful;    *)
(* its main phase is given what it reads alone.                             *)
WithCall(p, b, lists, pure, stateful) ==
  LET na == Len(lists[1])
      ng == Len(lists)
      reads == IF stateful /\ b.reads # None /\ Len(b.reads) < na THEN b.reads ELSE None
      picked == IF reads = None THEN [a \in 1..na |-> a] ELSE reads
      pick(which) == FlattenSeq([l \in 1..ng |->
                                   [q \in DOMAIN which |-> lists[l][which[q]]]])
      pures == pick(SelectSeq([a \in 1..na |-> a], LAMBDA a : b.pure[a]))
      prolog == Inst([op |-> "prolog", b |-> b, ng |-> ng], pures, ng * (b.stateLen + 1), TRUE)
      p1 == IF stateful THEN Push(p, prolog) ELSE p
      kind == [op |-> "call", b |-> b, ng |-> ng, na |-> na, reads |-> reads,
               stateful |-> stateful]
  IN  Push(p1, Inst(kind, pick(picked) \o IF stateful THEN <<Value(Len(p1.insts), 0)>> ELSE <<>>,
                    ng * Len(b.outs), pure))

-----------------------------------------------------------------------------
(* A lowering `lw` is [p, value, consts, bodies, lib, expanded].            *)
Last1(lw) == Len(lw.p.insts)
Val(lw, e) == lw.value[e]
Vals(lw, es) == [a \in DOMAIN es |-> lw.value[es[a]]]
Pushed(lw, inst) == [lw EXCEPT !.p = Push(@, inst)]
Assigned(lw, members, ref(_)) ==
  [lw EXCEPT !.value = [e \in DOMAIN @ |-> IF Contains(members, e) THEN ref(e) ELSE @[e]]]
Constant(lw, v) == Pushed(lw, Inst([op |-> "const", v |-> v], <<>>, 1, TRUE))

Distinct(s) == FoldLeft(LAMBDA d, x : IF Contains(d, x) THEN d ELSE Append(d, x), <<>>, s)
At(s, x) == CHOOSE q \in DOMAIN s : s[q] = x

LowerCalls(F, lw, members) ==
  LET f == F.g.nodes[members[1]].f
      set == CallSet(F, Site(F, members[1]))
      got == IF <<f, set>> \in DOMAIN lw.bodies
             THEN [body |-> lw.bodies[<<f, set>>], lib |-> lw.lib]
             ELSE BodyFor(F.g, lw.lib, f, set)
      b == got.body
      sites == Distinct([m \in DOMAIN members |-> F.g.nodes[members[m]].args])
      pure == \A m \in ToSet(members) : F.pure[m]
      stateful == ~pure /\ Stateful(F.split, b,
                    [s \in DOMAIN sites |-> [a \in DOMAIN sites[s] |-> F.pure[sites[s][a]]]])
      called == [lw EXCEPT
        !.p = WithCall(@, b, [s \in DOMAIN sites |-> Vals(lw, sites[s])], pure, stateful),
        !.lib = got.lib,
        !.bodies = [x \in DOMAIN @ \cup {<<f, set>>} |-> IF x \in DOMAIN @ THEN @[x] ELSE b]]
      call == Last1(called)
      carried(e) == Contains(b.outs, F.g.nodes[e].out)
                      /\ F.g.funcs[f].outs[F.g.nodes[e].out] # 0
      ref(e) == Value(call, (At(sites, F.g.nodes[e].args) - 1) * Len(b.outs)
                              + At(b.outs, F.g.nodes[e].out) - 1)
      zero(u, e) == LET z == Constant(u, "0")
                    IN  Assigned(z, <<e>>, LAMBDA x : Value(Last1(z), 0))
      done == Assigned(called, SelectSeq(members, carried), ref)
      bare == SelectSeq(members, LAMBDA e : ~carried(e))
  IN  FoldLeft(zero, done, bare)

(* The instruction of a kernel group, and which output each member is.      *)
LowerGroup(F, lw, gr) ==
  LET args(e) == F.g.nodes[e].args
      ms == gr.members
      pure == gr.key[3]
      over(es) == Vals(lw, FlattenSeq(es))
      row(e) == Halves(args(e))[1]
      column(e) == Halves(args(e))[2]
      systems == CASE gr.key[1] = "solve" -> <<<<gr.key[4]>>>>
                   [] gr.key[1] = "many"  -> <<gr.key[4]>>
                   [] OTHER -> gr.key[4]
      lists == FlattenSeq(systems)
      n == SystemSize(lists[1])
  IN  CASE gr.key[1] = "call" -> LowerCalls(F, lw, ms)
        [] gr.key[1] = "gemv" ->
             LET m == Len(ms)
                 kind == [op |-> "gemv", m |-> m, n |-> Len(gr.key[4]), acc |-> None]
                 rows == [q \in 1..m |-> row(ms[q])]
                 lw1 == Pushed(lw, Inst(kind, over(Append(rows, gr.key[4])), m, pure))
             IN  Assigned(lw1, ms, LAMBDA e : Value(Last1(lw1), At(ms, e) - 1))
        [] gr.key[1] = "gemm" ->
             LET rows == gr.key[4]  xs == gr.key[5]
                 m == Len(rows)  cn == Len(xs)
                 kind == [op |-> "gemm", m |-> m, k |-> Len(xs[1]), n |-> cn, acc |-> None]
                 lw1 == Pushed(lw, Inst(kind, over(rows \o xs), m * cn, pure))
             IN  Assigned(lw1, ms, LAMBDA e : Value(Last1(lw1),
                            (At(rows, row(e)) - 1) * cn + At(xs, column(e)) - 1))
        [] OTHER ->
             LET count == Len(systems)  k == Len(systems[1])
                 kind == [op |-> "solve", n |-> n, k |-> k, count |-> count]
                 ins == over([s \in 1..count |-> Matrix(systems[s][1])]
                               \o [l \in DOMAIN lists |-> RightSide(lists[l])])
                 lw1 == Pushed(lw, Inst(kind, ins, count * n * k, pure))
             IN  Assigned(lw1, ms, LAMBDA e : Value(Last1(lw1),
                            (At(lists, args(e)) - 1) * n + F.g.nodes[e].comp))

(* A leaf, or one instruction, an addition reading through what it fuses.   *)
LowerNode(F, lw, e) ==
  LET nd == F.g.nodes[e]
      x == F.fused[e]
      other == IF nd.args[1] = x THEN nd.args[2] ELSE nd.args[1]
      inner == F.g.nodes[x].args
      kind == CASE nd.op = "fn"  -> [op |-> "fn", fn |-> nd.fn]
                [] nd.op = "dot" -> [op |-> "dot", n |-> Len(nd.args) \div 2]
                [] OTHER         -> [op |-> nd.op]
      inst == IF x = 0 THEN Inst(kind, Vals(lw, nd.args), 1, F.pure[e])
              ELSE IF F.g.nodes[x].op = "mul"
              THEN Inst([op |-> "muladd"], Vals(lw, <<inner[1], inner[2], other>>), 1, F.pure[e])
              ELSE Inst([op |-> "sub"], Vals(lw, <<other, inner[1]>>), 1, F.pure[e])
      lw1 == CASE nd.op = "sym"   -> Constant(lw, "nan")
               [] nd.op = "const" -> Constant(lw, nd.v)
               [] OTHER           -> Pushed(lw, inst)
  IN  IF nd.op = "sym" /\ F.index[e] # 0
      THEN Assigned(lw, <<e>>, LAMBDA d : Input(F.index[e]))
      ELSE Assigned(lw1, <<e>>, LAMBDA d : Value(Last1(lw1), 0))

-----------------------------------------------------------------------------
(* Template t over the operands `args`: its constants the program's of      *)
(* their value, its other instructions appended.  The lowering and, per     *)
(* root of the template, its value.                                         *)
Expand(lw, t, args) ==
  LET n == Len(t.insts)
      const(i) == IsConst(t.insts[i])
      share(u, i) ==
        LET v == t.insts[i].kind.v
            u1 == Constant(u, v)
        IN  IF ~const(i) \/ v \in DOMAIN u.consts THEN u
            ELSE [u1 EXCEPT !.consts = [x \in DOMAIN @ \cup {v} |->
                    IF x \in DOMAIN @ THEN @[x] ELSE Value(Last1(u1), 0)]]
      lw1 == FoldLeft(share, lw, [i \in 1..n |-> i])
      at(i) == Last1(lw1) + Cardinality({j \in 1..i : ~const(j)})
      map(r) == CASE ~IsValue(r)  -> args[r[2]]
                  [] const(r[2])  -> lw1.consts[t.insts[r[2]].kind.v]
                  [] OTHER        -> Value(at(r[2]), r[3])
      rest == SelectSeq([i \in 1..n |-> i], LAMBDA i : ~const(i))
      moved(i) == [t.insts[i] EXCEPT !.ins = [a \in DOMAIN @ |-> map(@[a])]]
  IN  [lw |-> [lw1 EXCEPT !.p.insts = @ \o [q \in DOMAIN rest |-> moved(rest[q])],
                          !.expanded = TRUE],
       values |-> [r \in DOMAIN t.roots |-> map(t.roots[r])]]

RECURSIVE LowerForest(_, _)

(* The template of f for `outs`, its operands pure as the mask says: its    *)
(* expressions over its parameters, lowered once and kept.                  *)
Body(g, f, outs) == [q \in DOMAIN outs |-> g.funcs[f].outs[outs[q]]]
IsZero(g, f, k) == g.funcs[f].outs[k] = 0

(* The program of the lowered expressions, with a zero per zero output.     *)
WithZeros(lw, outs, exprs, zeros) ==
  LET root(k) == IF Contains(exprs, k) THEN lw.p.roots[At(exprs, k)]
                 ELSE Value(Last1(lw) + At(zeros, k), 0)
      full == FoldLeft(LAMBDA u, z : Constant(u, "0"), lw, zeros)
  IN  [full.p EXCEPT !.roots = [q \in DOMAIN outs |-> root(outs[q])]]

Remembered(lib, key, t) == [t |-> t, lib |-> [lib EXCEPT !.templates =
  [x \in DOMAIN @ \cup {key} |-> IF x = key THEN t ELSE @[x]]]]

Template(g, lib, f, outs, mask) ==
  IF <<f, outs, mask>> \in DOMAIN lib.templates
  THEN [t |-> lib.templates[<<f, outs, mask>>], lib |-> lib]
  ELSE Given(Expressions(g, f, outs), LAMBDA exprs :
         Given(LowerForest(Analyze(g, Body(g, f, exprs), g.funcs[f].params, mask), lib),
           LAMBDA lw : Remembered(lw.lib, <<f, outs, mask>>,
             WithZeros(lw, outs, exprs, SelectSeq(outs, LAMBDA k : IsZero(g, f, k))))))

LowerComposite(F, lw, e) ==
  LET site == Site(F, e)
      mask == IF F.split THEN [a \in DOMAIN site[2] |-> F.pure[site[2][a]]] ELSE None
      members == SelectSeq(Ascending(Calls(F)), LAMBDA d : Site(F, d) = site)
      expanded(got) == Expand([lw EXCEPT !.lib = got.lib], got.t, Vals(lw, site[2]))
      assigned(outs, done) ==
        Assigned(done.lw, members, LAMBDA d : done.values[At(outs, F.g.nodes[d].out)])
  IN  Given(CallSet(F, site), LAMBDA outs :
        assigned(outs, expanded(Template(F.g, lw.lib, site[1], outs, mask))))

LowerUnit(F, kernels, lw, u) ==
  LET of == {q \in DOMAIN kernels : Contains(kernels[q].members, u)}
  IN  CASE Fused(F, u) \/ lw.value[u] # None -> lw
        [] of # {} -> LowerGroup(F, lw, kernels[MinOf(of)])
        [] F.g.nodes[u].op = "call" ->
             IF Composite(F, F.g.nodes[u].f) THEN LowerComposite(F, lw, u)
             ELSE LowerCalls(F, lw, SelectSeq(Ascending(Calls(F)),
                                              LAMBDA d : Site(F, d) = Site(F, u)))
        [] OTHER -> LowerNode(F, lw, u)

Rooted(F, lw) == [lw EXCEPT !.p.roots = [r \in DOMAIN F.roots |-> lw.value[F.roots[r]]]]

LowerAlong(F, kernels, start) ==
  FoldLeft(LAMBDA lw, u : LowerUnit(F, kernels, lw, u), start,
           UnitOrder(F, kernels,
             [r \in DOMAIN F.roots |-> <<UnitOf(F, kernels, F.roots[r]), FALSE>>], <<>>))

LowerForest(F, lib) ==
  LET start == [p |-> [insts |-> <<>>, roots |-> <<>>, place |-> 0, kept |-> None],
                value |-> [e \in F.base |-> None], consts |-> <<>>, bodies |-> <<>>,
                lib |-> lib, expanded |-> FALSE]
  IN  Rooted(F, LowerAlong(F, Kernels(F), start))

-----------------------------------------------------------------------------
(* Calls of one bundle, phase, purity and arguments read, at one call depth *)
(* are one call over their instances, each once; their prologs one prolog.  *)
MergeCalls(p) ==
  LET n == Len(p.insts)
      depthOf(t, i) == MaxOr({t[j] : j \in Reads(p.insts[i])}, 0)
                         + IF IsCall(p.insts[i]) THEN 1 ELSE 0
      depth == Tabulate(depthOf, n)
      key(i) == <<p.insts[i].kind.b, p.insts[i].kind.na, p.insts[i].kind.reads,
                  p.insts[i].kind.stateful, p.insts[i].pure, depth[i]>>
      calls == {i \in 1..n : IsCall(p.insts[i])}
      class(i) == Ascending({j \in calls : key(j) = key(i)})
      merging == {i \in calls : Len(class(i)) >= 2}
      prolog(i) == IF p.insts[i].kind.stateful THEN {Last(p.insts[i].ins)[2]} ELSE {}
      own(i) == IF p.insts[i].kind.stateful THEN Front(p.insts[i].ins) ELSE p.insts[i].ins
      part(s, g, ng) == Slice(s, g * (Len(s) \div ng), Len(s) \div ng)
      instance(i, g) ==
        <<part(own(i), g, p.insts[i].kind.ng),
          IF p.insts[i].kind.stateful
          THEN part(p.insts[Last(p.insts[i].ins)[2]].ins, g, p.insts[i].kind.ng) ELSE <<>>>>
      instances(c) == Distinct(FlattenSeq([m \in DOMAIN c |->
                        [g \in 1..p.insts[c[m]].kind.ng |-> instance(c[m], g - 1)]]))
      merge(s, i) ==
        LET c == class(i)
            all == instances(c)
            kind == [p.insts[i].kind EXCEPT !.ng = Len(all)]
            width == Len(kind.b.outs)
            pures == FlattenSeq([x \in DOMAIN all |-> all[x][2]])
            p1 == IF kind.stateful
                  THEN Push(s.p, Inst([op |-> "prolog", b |-> kind.b, ng |-> Len(all)], pures,
                                      Len(all) * (kind.b.stateLen + 1), TRUE))
                  ELSE s.p
            ins == FlattenSeq([x \in DOMAIN all |-> all[x][1]])
                     \o IF kind.stateful THEN <<Value(Len(p1.insts), 0)>> ELSE <<>>
            p2 == Push(p1, Inst(kind, ins, Len(all) * width, p.insts[i].pure))
        IN  [p |-> p2, at |-> [j \in DOMAIN s.at \cup ToSet(c) |->
                                 IF j \in ToSet(c) THEN Len(p2.insts) ELSE s.at[j]]]
      firsts == {i \in merging : class(i)[1] = i}
      done == FoldLeft(merge, [p |-> p, at |-> <<>>], Ascending(firsts))
      to(r) == LET w == Len(p.insts[r[2]].kind.b.outs)
                   x == At(instances(class(r[2])), instance(r[2], r[3] \div w))
               IN  Value(done.at[r[2]], (x - 1) * w + (r[3] % w))
  IN  Compact(done.p, merging \cup UNION {prolog(i) : i \in merging},
              [r \in {x \in Refs(done.p) : IsValue(x) /\ x[2] \in merging} |-> to(r)])

(* Passes 1 and 2.                                                          *)
Lower(g, roots, inputs, mask, lib) ==
  Given(LowerForest(Analyze(g, roots, inputs, mask), lib), LAMBDA lw :
    [p |-> IF lw.expanded THEN MergeCalls(lw.p) ELSE lw.p, lib |-> lw.lib])

-----------------------------------------------------------------------------
(* Every call not all of whose outputs are read, over a body of those that  *)
(* are: its instances' arguments made whole from its list and its prolog's, *)
(* the call and its prolog made anew.                                       *)
NarrowCalls(g, p, lib, split, pureInputs) ==
  LET n == Len(p.insts)
      calls == {i \in 1..n : IsCall(p.insts[i]) /\ ~g.funcs[p.insts[i].kind.b.f].extern}
      width(i) == Len(p.insts[i].kind.b.outs)
      used(i) == {r[3] % width(i) : r \in {x \in Refs(p) : IsValue(x) /\ x[2] = i}}
      needed(i) == SelectSeq([s \in 1..width(i) |-> s], LAMBDA s : s - 1 \in used(i))
      isPure(q, r) == IF IsValue(r) THEN q.insts[r[2]].pure ELSE r[2] \in pureInputs
      lists(i) ==
        LET k == p.insts[i].kind
            list == IF k.reads = None THEN [a \in 1..k.na |-> a] ELSE k.reads
            state == p.insts[Last(p.insts[i].ins)[2]].ins
            nPure == PureRank(k.b.pure, k.na)
            arg(l, a) == IF Contains(list, a)
                         THEN p.insts[i].ins[(l - 1) * Len(list) + At(list, a)]
                         ELSE state[(l - 1) * nPure + PureRank(k.b.pure, a)]
        IN  [l \in 1..k.ng |-> [a \in 1..k.na |-> arg(l, a)]]
      narrow(s, i) ==
        LET k == p.insts[i].kind
            outs == [q \in DOMAIN needed(i) |-> k.b.outs[needed(i)[q]]]
            got == BodyExact(g, s.lib, k.b.f, outs)
            pure == p.insts[i].pure
            stateful == ~pure /\ Stateful(split, got.body,
                    [l \in DOMAIN lists(i) |->
                       [a \in DOMAIN lists(i)[l] |-> isPure(s.p, lists(i)[l][a])]])
            p1 == WithCall(s.p, got.body, lists(i), pure, stateful)
        IN  IF Len(needed(i)) = width(i) \/ got.body = k.b THEN s
            ELSE [p |-> p1, lib |-> got.lib,
                  dead |-> s.dead \cup {i} \cup
                             IF k.stateful THEN {Last(p.insts[i].ins)[2]} ELSE {},
                  at |-> [j \in DOMAIN s.at \cup {i} |->
                            IF j = i THEN Len(p1.insts) ELSE s.at[j]]]
      done == FoldLeft(narrow, [p |-> p, lib |-> lib, dead |-> {}, at |-> <<>>],
                       Ascending(calls))
      to(r) == LET w == width(r[2])
                   b == done.p.insts[done.at[r[2]]].kind.b
                   out == p.insts[r[2]].kind.b.outs[(r[3] % w) + 1]
               IN  Value(done.at[r[2]], (r[3] \div w) * Len(b.outs) + At(b.outs, out) - 1)
  IN  [p |-> Compact(done.p, done.dead,
                    [r \in {x \in Refs(done.p) : IsValue(x) /\ x[2] \in DOMAIN done.at} |-> to(r)]),
       lib |-> done.lib]

(* A tape's program out of one lowered for more roots: the instructions its *)
(* roots reach, its calls computing the outputs it reads.                   *)
View(g, p, which, lib, split, pureInputs) ==
  NarrowCalls(g, RetainReachable([p EXCEPT !.roots = which]), lib, split, pureInputs)
=============================================================================
