------------------------------ MODULE Programs ------------------------------
(***************************************************************************)
(* The program a tape is compiled through (crates/rsdag/src/tape/          *)
(* compile.rs): instructions over operands, each operand an output of      *)
(* another instruction or an input.  What an instruction computes is a     *)
(* term over uninterpreted arithmetic, equal where the code promises the   *)
(* same bits: an addition and a multiplication commute, a subtraction is   *)
(* the addition of the negative, a fused form is the operations it fuses.  *)
(*                                                                         *)
(* Instructions are numbered from 1, the outputs of one from 0.  The flat  *)
(* operand pool and the table of bundles are laid out only in the code:    *)
(* here an instruction has its operands and a call its bundle.             *)
(***************************************************************************)
EXTENDS Integers, Sequences, FiniteSets, SequencesExt

Value(i, c) == <<"v", i, c>>
Input(k) == <<"in", k, 0>>
IsValue(r) == r[1] = "v"

(* `In` over a value that it names many times.                              *)
Given(v, In(_)) == In(v)

None == <<>>
NaN == <<"const", "nan">>

Inst(kind, ins, nOut, pure) == [kind |-> kind, ins |-> ins, nOut |-> nOut, pure |-> pure]
Push(p, inst) == [p EXCEPT !.insts = Append(@, inst)]

IsConst(inst) == inst.kind.op = "const"
IsKernel(inst) == inst.kind.op \in {"gemv", "gemm"}
IsCall(inst) == inst.kind.op = "call"

(* The instructions `inst` reads. *)
Reads(inst) == {inst.ins[a][2] : a \in {b \in DOMAIN inst.ins : IsValue(inst.ins[b])}}

(* The table of Op over 1..n, each entry from the ones before it. *)
Tabulate(Op(_, _), n) ==
  FoldLeft(LAMBDA t, i : Append(t, Op(t, i)), <<>>, [i \in 1..n |-> i])

MaxOr(S, d) == IF S = {} THEN d ELSE CHOOSE x \in S : \A y \in S : y <= x
MinOf(S) == CHOOSE x \in S : \A y \in S : x <= y

(* The place of v in `set` by its key, and `set` in the order of its keys.  *)
Rank(set, key, v) == Cardinality({w \in set : key[w] <= key[v]})
Sorted(set, key) ==
  [q \in 1..Cardinality(set) |-> CHOOSE v \in set : Rank(set, key, v) = q]
Ascending(S) == Sorted(S, [x \in S |-> x])
(* What of s lies in `set`, in its order.                                   *)
Those(s, set) ==
  LET at == Ascending({q \in DOMAIN s : s[q] \in set})
  IN  [i \in DOMAIN at |-> s[at[i]]]

Slice(s, at, n) == SubSeq(s, at + 1, at + n)

-----------------------------------------------------------------------------
(* What instructions compute. *)

Sum(a, b) == <<"add", {a, b}>>
Product(a, b) == <<"mul", {a, b}>>
Negative(a) == <<"neg", a>>
Dot(a, x) == <<"dot", a, x>>

(* A function's output k of the arguments `args`; a zero output is a zero. *)
Applied(f, k, args) == <<"call", f, k, args>>

(* The factors of a product kernel, and the product each output is. *)
Factors(k) == IF k.op = "gemv" THEN k.m * k.n + k.n ELSE (k.m + k.n) * k.k

Products(k, o) ==
  IF k.op = "gemv"
  THEN [c \in 0..(k.m - 1) |-> Dot(Slice(o, c * k.n, k.n), Slice(o, k.m * k.n, k.n))]
  ELSE [c \in 0..(k.m * k.n - 1) |->
          Dot(Slice(o, (c \div k.n) * k.k, k.k), Slice(o, (k.m + (c % k.n)) * k.k, k.k))]

Plain == [fold |-> "plain", self |-> -1]

(* The outputs of a product kernel, each folded with its accumulator: an   *)
(* operand after the factors, or another output's product.                 *)
Folded(k, o) ==
  LET prods == Products(k, o)
      fold(c) ==
        LET code == k.acc[c]
            acc == IF code.self >= 0 THEN prods[code.self] ELSE o[Factors(k) + c + 1]
        IN  CASE code.fold = "plain" -> prods[c]
              [] code.fold = "neg"   -> Negative(prods[c])
              [] code.fold = "add"   -> Sum(acc, prods[c])
              [] code.fold = "sub"   -> Sum(acc, Negative(prods[c]))
  IN  IF k.acc = None THEN prods ELSE [c \in DOMAIN prods |-> fold(c)]

(* A system's solution: component i of the solution of a x = b. *)
Solution(a, b, i) == <<"solve", a, b, i>>

Solutions(k, o) ==
  LET square == k.n * k.n
      column(l) == Slice(o, k.count * square + l * k.n, k.n)
  IN  [c \in 0..(k.count * k.k * k.n - 1) |->
         LET l == c \div k.n
         IN  Solution(Slice(o, (l \div k.k) * square, square), column(l), c % k.n)]

(* The state block of a call's instances: value j of the prolog over `o`. *)
StateValue(b, o, j) == <<"state", b, o, j>>

(* The place of argument a among those its mask calls pure. *)
PureRank(mask, a) == Cardinality({q \in 1..a : mask[q]})

(* The argument a of instance g as a call's body sees it: the operand      *)
(* listed for it, or what the prolog it keeps the state of was given.  A   *)
(* listed argument that is not the prolog's makes the instance's result    *)
(* a mixture of two.                                                       *)
ArgumentOf(k, o, g, a) ==
  LET list == IF k.reads = None THEN [q \in 1..k.na |-> q] ELSE k.reads
      nIn == Len(list)
      at == MaxOr({q \in 1..nIn : list[q] = a}, 0)
      listed == o[g * nIn + at]
      state == o[Len(o)]
      nPure == PureRank(k.b.pure, k.na)
      kept == state[3][g * nPure + PureRank(k.b.pure, a)]
  IN  IF ~k.stateful \/ ~k.b.pure[a] THEN listed
      ELSE IF state[1] # "state" \/ state[2] # k.b THEN <<"lost">>
      ELSE IF at > 0 /\ listed # kept THEN <<"mixed", listed, kept>>
      ELSE kept

Called(k, o) ==
  LET w == Len(k.b.outs)
      args(g) == [a \in 1..k.na |-> ArgumentOf(k, o, g, a)]
  IN  [c \in 0..(k.ng * w - 1) |-> Applied(k.b.f, k.b.outs[(c % w) + 1], args(c \div w))]

(* What each output of an instruction over the operands' values `o` is. *)
Results(k, o) ==
  CASE k.op = "const"  -> [c \in {0} |-> <<"const", k.v>>]
    [] k.op = "add"    -> [c \in {0} |-> Sum(o[1], o[2])]
    [] k.op = "mul"    -> [c \in {0} |-> Product(o[1], o[2])]
    [] k.op = "muladd" -> [c \in {0} |-> Sum(Product(o[1], o[2]), o[3])]
    [] k.op = "sub"    -> [c \in {0} |-> Sum(o[1], Negative(o[2]))]
    [] k.op = "neg"    -> [c \in {0} |-> Negative(o[1])]
    [] k.op = "fn"     -> [c \in {0} |-> <<"fn", k.fn, o>>]
    [] k.op = "dot"    -> [c \in {0} |-> Dot(Slice(o, 0, k.n), Slice(o, k.n, k.n))]
    [] k.op = "call"   -> Called(k, o)
    [] k.op = "prolog" -> [c \in 0..(k.ng * (k.b.stateLen + 1) - 1) |-> StateValue(k.b, o, c)]
    [] k.op = "solve"  -> Solutions(k, o)
    [] OTHER           -> Folded(k, o)

(* The value of a reference, and of every output along an order of the     *)
(* instructions, `in[k]` being input k's.  An operand read before it is    *)
(* computed is no value.                                                   *)
ValueOf(env, in, r) ==
  CASE ~IsValue(r) -> in[r[2]]
    [] r[2] \in DOMAIN env -> env[r[2]][r[3]]
    [] OTHER -> <<"unset">>

ValuesAlong(p, order, in) ==
  LET with(env, i) ==
        LET inst == p.insts[i]
            o == [a \in DOMAIN inst.ins |-> ValueOf(env, in, inst.ins[a])]
            out == Results(inst.kind, o)
        IN  [j \in DOMAIN env \cup {i} |-> IF j = i THEN out ELSE env[j]]
      env[q \in 0..Len(order)] == IF q = 0 THEN <<>> ELSE with(env[q - 1], order[q])
  IN  env[Len(order)]

RootValues(p, order, in) ==
  LET env == ValuesAlong(p, order, in)
  IN  [r \in DOMAIN p.roots |-> ValueOf(env, in, p.roots[r])]

-----------------------------------------------------------------------------
(* Program transformations every pass uses. *)

(* The operands and roots of p. *)
Refs(p) == UNION {ToSet(p.insts[i].ins) : i \in DOMAIN p.insts} \cup ToSet(p.roots)

(* The instructions marked dead dropped, every operand and root in DOMAIN  *)
(* `to` first redirected to a value that stays, the rest renumbered in     *)
(* order.                                                                  *)
Compact(p, dead, to) ==
  LET n == Len(p.insts)
      number(i) == Cardinality({j \in 1..i : j \notin dead})
      map(r) == LET at == IF r \in DOMAIN to THEN to[r] ELSE r
                IN  IF IsValue(at) THEN Value(number(at[2]), at[3]) ELSE at
      stays == Ascending((1..n) \ dead)
      moved(i) == [p.insts[i] EXCEPT !.ins = [a \in DOMAIN @ |-> map(@[a])]]
  IN  [p EXCEPT !.insts = [q \in DOMAIN stays |-> moved(stays[q])],
                !.roots = [r \in DOMAIN @ |-> map(@[r])],
                !.place = IF @ = 0 \/ @ \in dead THEN 0 ELSE number(@),
                !.kept = IF @ = None THEN None
                         ELSE [at |-> [q \in DOMAIN stays |-> @.at[stays[q]]], len |-> @.len]]

(* The instructions `from` reads, directly or through others. *)
ReachedFrom(p, from) ==
  LET more(set) == set \cup UNION {Reads(p.insts[i]) : i \in set}
      reached[q \in 0..Len(p.insts)] == IF q = 0 THEN from ELSE more(reached[q - 1])
  IN  reached[Len(p.insts)]

(* What the roots reach, and a kept state whole. *)
RetainReachable(p) ==
  LET roots == {p.roots[r][2] : r \in {q \in DOMAIN p.roots : IsValue(p.roots[q])}}
      kept == IF p.kept = None THEN {} ELSE {i \in DOMAIN p.kept.at : p.kept.at[i] >= 0}
  IN  Compact(p, (1..Len(p.insts)) \ ReachedFrom(p, roots \cup kept), <<>>)
=============================================================================
