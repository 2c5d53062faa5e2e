------------------------------- MODULE Rewrites -------------------------------
(***************************************************************************)
(* Rewriting expressions (crates/rsdag/src/transform.rs, graph/calls.rs,   *)
(* graph/compose.rs): substitution, with copies of the functions whose     *)
(* bodies read what is substituted; calls inlined; calls specialized to    *)
(* the constants they pass; expressions imported from another graph.       *)
(*                                                                         *)
(* An operator here returns the graph and what it rewrote.                 *)
(***************************************************************************)
EXTENDS Calls, TLC

(* The outputs `other` of f with each expression replaced by the next of    *)
(* `new`.                                                                   *)
OutputsOver(g, f, new, other) ==
  LET outs == g.funcs[f].outs
      place(k) == Cardinality({j \in 1..k : outs[j].t = "expr"})
  IN  [k \in DOMAIN outs |-> IF outs[k].t = "expr" THEN new[place(k)] ELSE other[k]]
Bodies(g, f) == LET exprs == SelectSeq(g.funcs[f].outs, LAMBDA o : o.t = "expr")
                IN  [j \in DOMAIN exprs |-> exprs[j].e]

(* Mutant: a call keeps the body it had. *)
BindingNone(g, f, map) == [s \in {} |-> Zero]
(* The binding of f's globals in `map` to something else than themselves.   *)
Binding(g, f, map) ==
  LET bound == {s \in Range(Globals(g, f)) : s \in DOMAIN map /\ map[s] # Sym(s)}
  IN  [s \in bound |-> map[s]]

(* Mutant: a copy keeps every role. *)
KeptRoleAll(role, nParams) == role
(* A derivative by a global is none of the copy's: the copy's globals are   *)
(* others.                                                                  *)
KeptRole(role, nParams) == IF role # NoRole /\ role[2] > nParams THEN NoRole ELSE role

RECURSIVE Subst(_, _, _), Rebound(_, _, _)
Subst(g, e, map) ==
  LET Into(h, x) == Subst(h, x, map)
      called(c, ops) == <<c[1], CallIn(c[1], c[2], Out(e), At(e), ops)>>
  IN  IF e.op = "sym" THEN <<g, IF e.k[1] \in DOMAIN map THEN map[e.k[1]] ELSE e>>
      ELSE Given(Thread(Into, g, e.a), LAMBDA r :
             IF e.op = "call" THEN called(Rebound(r[1], Func(e), map), r[2])
             ELSE <<r[1], Build(e, r[2])>>)

(* The function a call of f runs where `map` holds: one copy per binding.   *)
Rebound(g, f, map) ==
  Given(Binding(g, f, map), LAMBDA binding :
  LET known == {c \in g.rebound : c[1] = f /\ c[2] = binding}
      Into(h, x) == Subst(h, x, binding)
      fun == g.funcs[f]
      copy(es) == [fun EXCEPT
                     !.outs = OutputsOver(g, f, [j \in DOMAIN es |-> Expr(es[j])], @),
                     !.roles = [k \in DOMAIN @ |-> KeptRole(@[k], Len(fun.params))],
                     !.extern = FALSE]
      kept(r, n) == <<[PushFunction(r[1], copy(r[2])) EXCEPT !.rebound = @ \cup {<<f, binding, n>>}], n>>
  IN  CASE DOMAIN binding = {} -> <<g, f>>
        [] DOMAIN binding # {} /\ known # {} -> <<g, (CHOOSE c \in known : TRUE)[3]>>
        [] OTHER -> Given(Thread(Into, g, Bodies(g, f)), LAMBDA r : kept(r, Len(r[1].funcs) + 1)))

(* An instance's arguments substituted into a body of its function.         *)
Instance(g, f, args, body) ==
  LET params == g.funcs[f].params
  IN  Subst(g, body, [s \in Range(params) |-> args[CHOOSE p \in DOMAIN params : params[p] = s]])

(* The calls of the functions `which` names inlined, to the bottom.         *)
Inlines(g, f, which) == IF which = "all" THEN TRUE ELSE IsComposite(g, f)

RECURSIVE Inline(_, _, _)
Inline(g, e, which) ==
  LET Into(h, x) == Inline(h, x, which)
      out == Output(g, Func(e), Out(e))
      inlined == e.op = "call" /\ out.t = "expr" /\ Inlines(g, Func(e), which)
      over(body, ops) == Instance(body[1], Func(e), FullArgs([e EXCEPT !.a = ops]), body[2])
  IN  Given(Thread(Into, g, e.a), LAMBDA r :
        IF inlined THEN over(Inline(r[1], out.e, which), r[2])
        ELSE <<r[1], Rebuild(r[1], e, r[2])>>)

-----------------------------------------------------------------------------
(* Specialization: the constants a call passes, but for model parameters,   *)
(* into a copy of its function that takes the other arguments.              *)

Constants(g, f, full) ==
  LET at == {p \in DOMAIN full : IsConst(full[p]) /\ p \notin g.funcs[f].pure}
  IN  [p \in at |-> full[p]]

KeptParams(g, f, consts) == Ascending(DOMAIN g.funcs[f].params \ DOMAIN consts)

RECURSIVE SpecializeIn(_, _), SpecializeFunction(_, _, _)
SpecializeIn(g, e) ==
  LET f == Func(e)
      full(ops) == FullArgs([e EXCEPT !.a = ops])
      bound(kept) == {j \in DOMAIN kept : \E i \in DOMAIN At(e) : At(e)[i] = kept[j]}
      passed(kept) == Ascending(DOMAIN kept \ bound(kept))
      called(copy, all, kept) ==
        <<copy[1], CallBound(copy[1], copy[2], Out(e), [j \in bound(kept) |-> all[kept[j]]],
                             [j \in DOMAIN passed(kept) |-> all[kept[passed(kept)[j]]]])>>
      over(h, all, consts) == called(SpecializeFunction(h, f, consts), all, KeptParams(g, f, consts))
      specializes(ops) ==
        e.op = "call" /\ ~g.funcs[f].extern /\ DOMAIN Constants(g, f, full(ops)) # {}
  IN  Given(Thread(SpecializeIn, g, e.a), LAMBDA r :
        IF specializes(r[2]) THEN over(r[1], full(r[2]), Constants(g, f, full(r[2])))
        ELSE <<r[1], Rebuild(r[1], e, r[2])>>)

SpecializeFunction(g, f, consts) ==
  LET made == {c \in g.made : c[1] = f /\ c[2] = consts}
      fun == g.funcs[f]
      bound == [s \in {fun.params[p] : p \in DOMAIN consts} |->
                  consts[CHOOSE p \in DOMAIN consts : fun.params[p] = s]]
      Folded(h, x) == Given(Subst(h, x, bound), LAMBDA r : SpecializeIn(r[1], r[2]))
      kept == KeptParams(g, f, consts)
      copy(es) == Function([j \in DOMAIN kept |-> fun.params[kept[j]]],
                           {j \in DOMAIN kept : kept[j] \in fun.pure},
                           OutputsOver(g, f, [j \in DOMAIN es |-> AsOutput(es[j])],
                                       [k \in DOMAIN fun.outs |-> ZeroOut]), FALSE)
      held(r, n) == <<[PushFunction(r[1], copy(r[2])) EXCEPT !.made = @ \cup {<<f, consts, n>>}], n>>
  IN  IF made # {} THEN <<g, (CHOOSE c \in made : TRUE)[3]>>
      ELSE Given(Thread(Folded, g, Bodies(g, f)), LAMBDA r : held(r, Len(r[1].funcs) + 1))

SpecializeCalls(g, e) == SpecializeIn([g EXCEPT !.made = {}], e)

(* What remains of e once the symbols of `map` are no inputs. *)
Pin(g, e, map) == Given(Subst(g, e, map), LAMBDA r : SpecializeCalls(r[1], r[2]))

-----------------------------------------------------------------------------
(* Import: `h` is the importing graph g and the functions of `other`        *)
(* imported so far.                                                         *)

Mentions(other, es) ==
  LET m == UNION {Mentioned(e) : e \in Range(es)} IN SelectSeq(other.order, LAMBDA s : s \in m)

(* Mutant: a function of the same parameters is taken for the one imported. *)
SameParams(a, b) == a.params = b.params
SameFunction(a, b) == ~a.extern /\ a = b

RECURSIVE ImportIn(_, _, _), Import(_, _, _)
ImportIn(other, h, e) ==
  LET Into(i, x) == ImportIn(other, i, x)
      called(c, ops) == <<c[1], CallIn(c[1].g, c[2], Out(e), At(e), ops)>>
  IN  Given(Thread(Into, h, e.a), LAMBDA r :
        IF e.op = "call" THEN called(Import(other, r[1], Func(e)), r[2])
        ELSE <<r[1], Build(e, r[2])>>)

(* Function f: one this graph holds already, the same, is the one to call.  *)
Import(other, h, f) ==
  LET fun == other.funcs[f]
      Into(i, x) == ImportIn(other, i, x)
      interned == InternAll(InternAll(h.g, fun.params), Mentions(other, Bodies(other, f)))
      copy(es) == [fun EXCEPT !.outs = OutputsOver(other, f, [j \in DOMAIN es |-> Expr(es[j])], @)]
      same(g, c) == {n \in DOMAIN g.funcs : SameFunction(c, g.funcs[n])}
      place(g, all) == IF all # {} THEN CHOOSE k \in all : \A j \in all : k <= j
                       ELSE Len(g.funcs) + 1
      held(i, g, n) == <<[g |-> g, imp |-> (f :> n) @@ i.imp], n>>
      joined(i, c, all) == held(i, IF all # {} THEN i.g ELSE PushFunction(i.g, c), place(i.g, all))
  IN  IF f \in DOMAIN h.imp THEN <<h, h.imp[f]>>
      ELSE Given(Thread(Into, [h EXCEPT !.g = interned], Bodies(other, f)), LAMBDA r :
             joined(r[1], copy(r[2]), same(r[1].g, copy(r[2]))))

ImportExprs(other, h, es) ==
  LET Into(i, x) == ImportIn(other, i, x)
  IN  Thread(Into, [h EXCEPT !.g = InternAll(@, Mentions(other, es))], es)
=============================================================================
