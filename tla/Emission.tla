------------------------------ MODULE Emission ------------------------------
(***************************************************************************)
(* The order and the slots of a program (crates/rsdag/src/tape/compile.rs, *)
(* passes 4 and 5; the stages of tape/mod.rs): the list schedule, the      *)
(* regions of ops that run in pieces, lifetimes and slots, the stages of   *)
(* calls that run together.                                                *)
(*                                                                         *)
(* Positions in the order and ops count from 1, slots from 0.              *)
(***************************************************************************)
EXTENDS Programs

CONSTANTS PieceOps,      \* PIECE_OPS
          RegionMinOps,  \* REGION_MIN_OPS
          PlaceMinRun    \* PLACE_MIN_RUN

Kept(p, i) == p.kept # None /\ p.kept.at[i] >= 0
OnDemand(p, i) == IsConst(p.insts[i]) /\ ~Kept(p, i)
DepsInOrder(inst) ==
  FoldLeft(LAMBDA d, r : IF ~IsValue(r) \/ Contains(d, r[2]) THEN d ELSE Append(d, r[2]),
           <<>>, inst.ins)

(* The values dying with i: it is the only user not placed.                 *)
Kills(p, order, i) ==
  Cardinality({d \in Reads(p.insts[i]) :
    \A u \in 1..Len(p.insts) : d \in Reads(p.insts[u]) /\ u # i => Contains(order, u)})

Entry(p, order, i) == <<IF p.insts[i].pure THEN 1 ELSE 0, Kills(p, order, i), i>>
SameBucket(x, y) == x[1] = y[1] /\ x[2] = y[2]

(* The next of the ready instructions, pure ones first, then the one that   *)
(* kills most, then the latest enabled; an equal one instead that does not  *)
(* read the one just placed.  Constants are placed before their first use.  *)
RECURSIVE ListSchedule(_, _, _, _)
ListSchedule(p, ready, order, last) ==
  LET better(x, y) == \/ ready[x][1] > ready[y][1]
                      \/ ready[x][1] = ready[y][1] /\ ready[x][2] > ready[y][2]
                      \/ SameBucket(ready[x], ready[y]) /\ x > y
      q == CHOOSE x \in DOMAIN ready : \A y \in DOMAIN ready : x = y \/ better(x, y)
      rest == RemoveAt(ready, q)
      q2 == MaxOr({x \in DOMAIN rest : SameBucket(rest[x], ready[q])}, 0)
      other == /\ last # 0 /\ q2 # 0 /\ last \in Reads(p.insts[ready[q][3]])
               /\ last \notin Reads(p.insts[rest[q2][3]])
      i == IF other THEN rest[q2][3] ELSE ready[q][3]
      consts == SelectSeq(DepsInOrder(p.insts[i]),
                          LAMBDA d : OnDemand(p, d) /\ ~Contains(order, d))
      placed == order \o Append(consts, i)
      enabled == {u \in 1..Len(p.insts) :
                    /\ i \in Reads(p.insts[u]) /\ ~OnDemand(p, u)
                    /\ \A d \in Reads(p.insts[u]) : OnDemand(p, d) \/ Contains(placed, d)}
      pushed == [u \in DOMAIN Ascending(enabled) |->
                   Entry(p, placed, Ascending(enabled)[u])]
  IN  IF ready = <<>> THEN order
      ELSE ListSchedule(p, (IF other THEN [rest EXCEPT ![q2] = ready[q]] ELSE rest) \o pushed,
                        placed, i)

(* Pass 4.  What is left over are constants nothing consumes.               *)
Placeable(p) ==
  LET free == Reverse(Ascending({i \in 1..Len(p.insts) : /\ ~OnDemand(p, i)
                                   /\ \A d \in Reads(p.insts[i]) : OnDemand(p, d)}))
  IN  ListSchedule(p, [q \in DOMAIN free |-> Entry(p, <<>>, free[q])], <<>>, 0)

Completed(p, order) ==
  order \o SelectSeq([i \in 1..Len(p.insts) |-> i], LAMBDA i : ~Contains(order, i))
Schedule(p) == Completed(p, Placeable(p))

-----------------------------------------------------------------------------
(* The regions of an order.                                                 *)
PlainOp(inst) == /\ inst.kind.op \notin {"call", "prolog", "gemv", "gemm", "solve"}
                 /\ (inst.kind.op = "fn" => inst.kind.fn # "min")
                 /\ inst.nOut = 1

RECURSIVE Connected(_, _, _)
Connected(p, run, part) ==
  LET more == {i \in run \ part : \E j \in part :
                 j \in Reads(p.insts[i]) \/ i \in Reads(p.insts[j])}
  IN  IF more = {} THEN part ELSE Connected(p, run, part \cup more)

(* A run's constants, then its connected parts in the order of their first  *)
(* op packed into pieces of PieceOps or more; one piece is no region.       *)
SplitRun(p, run, at) ==
  LET work == SelectSeq(run, LAMBDA i : ~IsConst(p.insts[i]))
      consts == SelectSeq(run, LAMBDA i : IsConst(p.insts[i]))
      packed(s, ops) ==
        LET new == s.size >= PieceOps
        IN  [starts |-> IF new THEN Append(s.starts, at + Len(consts) + Len(s.out)) ELSE s.starts,
             size |-> Len(ops) + IF new THEN 0 ELSE s.size,
             out |-> s.out \o ops]
      part(i) == Connected(p, ToSet(work), {i})
      split(done) ==
        IF Len(work) < RegionMinOps \/ Len(done.starts) < 2 THEN [out |-> run, region |-> {}]
        ELSE [out |-> consts \o done.out,
              region |-> {[starts |-> done.starts, hi |-> at + Len(run)]}]
  IN  split(FoldLeft(LAMBDA s, i :
                       IF Contains(s.out, i) THEN s
                       ELSE Given(part(i), LAMBDA js :
                                    packed(s, SelectSeq(work, LAMBDA j : j \in js))),
                     [starts |-> <<>>, size |-> PieceOps, out |-> <<>>], work))

RECURSIVE Regions(_, _, _, _)
Regions(p, order, prologOps, s) ==
  LET k == Len(s.out) + 1
      end == IF k <= prologOps THEN prologOps ELSE Len(order)
      stop == {e \in k..end : ~PlainOp(p.insts[order[e]])}
      with(split) == [out |-> s.out \o split.out, regions |-> s.regions \cup split.region]
  IN  IF k > Len(order) THEN s
      ELSE Given(SubSeq(order, k, MinOf(stop \cup {end + 1}) - 1), LAMBDA run :
             Regions(p, order, prologOps,
               IF run = <<>> THEN [s EXCEPT !.out = Append(@, order[k])]
               ELSE with(SplitRun(p, run, k))))

PieceStarts(r) == [q \in DOMAIN r.starts |->
  r.starts[q]..((IF q < Len(r.starts) THEN r.starts[q + 1] ELSE r.hi) - 1)]

-----------------------------------------------------------------------------
(* The operands a dense kernel reads as runs.                               *)
DenseRuns(inst) ==
  LET k == inst.kind
      lens == CASE k.op = "gemv" -> <<k.m * k.n, k.n>> \o IF k.acc = None THEN <<>> ELSE <<k.m>>
                [] k.op = "gemm" -> <<k.m * k.k, k.n * k.k>>
                                      \o IF k.acc = None THEN <<>> ELSE <<k.m * k.n>>
                [] k.op = "solve" -> <<k.count * k.n * k.n, k.count * k.n * k.k>>
                [] OTHER -> <<>>
      at(q) == FoldLeft(LAMBDA a, b : a + b, 0, SubSeq(lens, 1, q - 1))
  IN  [q \in DOMAIN lens |-> Slice(inst.ins, at(q), lens[q])]

(* Stretches of PlaceMinRun single values or more, none placed yet, get     *)
(* consecutive slots.  s is [next, at], at the slot reserved for a value.   *)
RECURSIVE PlaceRun(_, _, _, _)
PlaceRun(p, state, run, s) ==
  LET able(r) == IsValue(r) /\ p.insts[r[2]].nOut = 1 /\ s.at[r[2]] < 0 /\ state[r[2]] < 0
      stops == {e \in DOMAIN run : ~able(run[e])}
      n == IF stops = {} THEN Len(run) ELSE MinOf(stops) - 1
      rest == SubSeq(run, n + 2, Len(run))
      slot(j) == MaxOr({e \in 1..n : run[e][2] = j}, 0)
  IN  IF run = <<>> THEN s
      ELSE PlaceRun(p, state, rest,
             IF n < PlaceMinRun THEN s
             ELSE [next |-> s.next + n,
                   at |-> [j \in DOMAIN s.at |->
                             IF slot(j) > 0 THEN s.next + slot(j) - 1 ELSE s.at[j]]])

(* The program's values where the order puts them: the last position that   *)
(* reads each, the ones never freed, and the fixed slots.                   *)
Lifetimes(p, order, prologOps, split) ==
  LET n == Len(p.insts)
      pos(i) == CHOOSE k \in 1..n : order[k] = i
      last(j) == MaxOr({k \in 1..n : j \in Reads(p.insts[order[k]])}, 0)
      root(j) == \E r \in ToSet(p.roots) : IsValue(r) /\ r[2] = j
      crossing(j) == split /\ pos(j) <= prologOps /\ last(j) > prologOps /\ j # p.place
      pinned == {j \in 1..n : root(j) \/ crossing(j) \/ Kept(p, j)}
      lay(s, j) == IF j \in pinned THEN [next |-> s.next + p.insts[j].nOut,
                                         at |-> [s.at EXCEPT ![j] = s.next]] ELSE s
      anew == FoldLeft(lay, [next |-> 0, at |-> [j \in 1..n |-> -1]],
                       SubSeq(order, 1, prologOps))
      state == IF p.kept = None THEN anew ELSE [next |-> p.kept.len, at |-> p.kept.at]
      runs == FlattenSeq([k \in 1..n |-> DenseRuns(p.insts[order[k]])])
      over(st) == FoldLeft(LAMBDA s, r : PlaceRun(p, st.at, r, s),
                           [next |-> st.next, at |-> [j \in 1..n |-> -1]], runs)
      lives(st, reserved) ==
        [last |-> [j \in 1..n |-> last(j)], pinned |-> pinned, state |-> st,
         reserved |-> reserved.at, next |-> reserved.next]
  IN  Given(state, LAMBDA st : lives(st, over(st)))

(* The slot of one op: an op's dying operands are freed first, so that it   *)
(* may take one of their slots; in a region a slot a piece frees serves     *)
(* that piece alone until the region is over, and its other slots nobody.   *)
Allocate(p, order, L, pieceOf, s, k) ==
  LET i == order[k]
      inst == p.insts[i]
      piece == pieceOf[k]
      pos(j) == CHOOSE q \in DOMAIN order : order[q] = j
      later0 == IF piece # s.piece THEN s.later \o s.own ELSE s.later
      own0 == IF piece # s.piece THEN <<>> ELSE s.own
      free0 == IF piece # s.piece /\ piece = 0 THEN s.free \o later0 ELSE s.free
      later1 == IF piece # s.piece /\ piece = 0 THEN <<>> ELSE later0
      dying == Ascending({j \in Reads(inst) : L.last[j] = k /\ j \notin L.pinned
                                              /\ L.reserved[j] < 0})
      slots(js) == FlattenSeq([q \in DOMAIN js |->
                     [c \in 1..p.insts[js[q]].nOut |-> s.base[js[q]] + c - 1]])
      mine == slots(SelectSeq(dying, LAMBDA j : pieceOf[pos(j)] = piece))
      others == slots(SelectSeq(dying, LAMBDA j : pieceOf[pos(j)] # piece))
      free == IF piece = 0 THEN free0 \o slots(dying) ELSE free0
      own == IF piece = 0 THEN own0 ELSE own0 \o mine
      later == IF piece = 0 THEN later1 ELSE later1 \o others
      fixed == IF L.state.at[i] >= 0 THEN L.state.at[i]
               ELSE IF inst.nOut = 1 THEN L.reserved[i] ELSE -1
      fromOwn == fixed < 0 /\ inst.nOut = 1 /\ own # <<>>
      fromFree == fixed < 0 /\ inst.nOut = 1 /\ own = <<>> /\ free # <<>>
      d == IF fixed >= 0 THEN fixed ELSE IF fromOwn THEN Last(own)
           ELSE IF fromFree THEN Last(free) ELSE s.next
      operand(r) == IF IsValue(r) THEN <<"s", s.base[r[2]] + r[3]>> ELSE <<"i", r[2]>>
  IN  [base |-> [s.base EXCEPT ![i] = d], piece |-> piece,
       own |-> IF fromOwn THEN Front(own) ELSE own,
       free |-> IF fromFree THEN Front(free) ELSE free, later |-> later,
       next |-> IF fixed < 0 /\ ~fromOwn /\ ~fromFree THEN s.next + inst.nOut ELSE s.next,
       ops |-> Append(s.ops, [kind |-> inst.kind, dst |-> d, width |-> inst.nOut, args |-> 0,
                              src |-> [a \in DOMAIN inst.ins |-> operand(inst.ins[a])]])]

-----------------------------------------------------------------------------
(* The slots a call reads, its state's block among them.                    *)
ReadSlots(op) ==
  {op.src[a][2] : a \in {b \in DOMAIN op.src : op.src[b][1] = "s"}} \cup
  (IF op.kind.op = "call" /\ op.kind.stateful
   THEN Last(op.src)[2]..(Last(op.src)[2] + op.kind.ng * (op.kind.b.stateLen + 1) - 1) ELSE {})
WriteSlots(op) == op.dst..(op.dst + op.width - 1)
CallOp(op) == op.kind.op \in {"call", "prolog"}
(* Mutant: a call may write what an earlier one of its stage reads.         *)
ClashForward(a, b) == (ReadSlots(a) \cup WriteSlots(a)) \cap WriteSlots(b) # {}
Clash(a, b) == \/ ReadSlots(a) \cap WriteSlots(b) # {}
               \/ WriteSlots(a) \cap WriteSlots(b) # {}
               \/ WriteSlots(a) \cap ReadSlots(b) # {}

(* The stages: each maximal run of calls of one phase in which none reads   *)
(* or writes a slot another one writes, of two instances or more.           *)
RECURSIVE PlanStages(_, _, _, _)
PlanStages(ops, prologOps, i, stages) ==
  LET end == IF i <= prologOps THEN prologOps ELSE Len(ops)
      apart(h) == \A q \in i..h : /\ CallOp(ops[q])
                                  /\ \A r \in i..(q - 1) : ~Clash(ops[q], ops[r])
      hi == MaxOr({h \in i..end : apart(h)}, i)
      count == FoldLeft(LAMBDA n, q : n + ops[q].kind.ng, 0, [q \in 1..(hi - i + 1) |-> i + q - 1])
  IN  IF i > Len(ops) THEN stages
      ELSE IF ~CallOp(ops[i]) THEN PlanStages(ops, prologOps, i + 1, stages)
      ELSE PlanStages(ops, prologOps, hi + 1,
             IF count >= 2 THEN stages \cup {[lo |-> i, hi |-> hi]} ELSE stages)

(* The place of a call's arguments in the gather area.                      *)
ArgWidth(op) == op.kind.ng * IF op.kind.op = "call" THEN op.kind.na ELSE Len(op.src) \div op.kind.ng
(* Mutant: every call gathers at the start of the area.                     *)
GatherAtStart(ops, stages, k) == 0
GatherAt(ops, stages, k) ==
  LET st == {x \in stages : k \in x.lo..x.hi}
      lo == (CHOOSE x \in st : TRUE).lo
  IN  IF st = {} THEN 0
      ELSE FoldLeft(LAMBDA a, q : a + ArgWidth(ops[q]), 0, [q \in 1..(k - lo) |-> lo + q - 1])

(* The scratch values an op gathers.                                        *)
Gathers(op) ==
  LET k == op.kind
  IN  CASE k.op = "gemv"  -> k.m * k.n + k.n + k.m
        [] k.op = "gemm"  -> k.m * k.k + k.n * k.k + k.m * k.n
        [] CallOp(op)     -> op.args + ArgWidth(op)
        [] k.op \in {"solve", "dot"} \/ (k.op = "fn" /\ k.fn = "min") -> Len(op.src)
        [] OTHER          -> 0

PrologOps(p, order, split) ==
  IF ~split THEN 0 ELSE MinOf({k \in DOMAIN order : ~p.insts[order[k]].pure} \cup {Len(order) + 1}) - 1

(* The piece of each position of the order, 0 outside of regions.           *)
PieceOf(n, regions) ==
  LET pieces == UNION {{PieceStarts(r)[q] : q \in DOMAIN r.starts} : r \in regions}
      of(k) == {P \in pieces : k \in P}
  IN  [k \in 1..n |-> IF of(k) = {} THEN 0 ELSE MinOf(CHOOSE P \in of(k) : TRUE)]

(* The slots of the order, op by op.                                        *)
Allocated(p, order, L, pieceOf) ==
  FoldLeft(LAMBDA s, k : Allocate(p, order, L, pieceOf, s, k),
           [base |-> [i \in DOMAIN order |-> -1], piece |-> 0, own |-> <<>>, free |-> <<>>,
            later |-> <<>>, next |-> L.next, ops |-> <<>>], [k \in DOMAIN order |-> k])

WithArgs(ops, stages) ==
  [k \in DOMAIN ops |-> IF CallOp(ops[k]) THEN [ops[k] EXCEPT !.args = GatherAt(ops, stages, k)]
                        ELSE ops[k]]

(* Pass 5.                                                                  *)
Emit(p, order0, split) ==
  LET slot(done, r) == IF IsValue(r) THEN <<"s", done.base[r[2]] + r[3]>> ELSE <<"i", r[2]>>
      tape(prologOps, regions, L, done, stages, ops) ==
        [ops |-> ops, maxArgs |-> MaxOr({Gathers(ops[k]) : k \in DOMAIN ops}, 0),
         prologOps |-> prologOps, stages |-> stages, regions |-> regions,
         outputs |-> [r \in DOMAIN p.roots |-> slot(done, p.roots[r])],
         nWork |-> done.next, stateLen |-> L.state.next]
  IN  Given(PrologOps(p, order0, split), LAMBDA prologOps :
      Given(Regions(p, order0, prologOps, [out |-> <<>>, regions |-> {}]), LAMBDA arranged :
      Given(Lifetimes(p, arranged.out, prologOps, split), LAMBDA L :
      Given(Allocated(p, arranged.out, L, PieceOf(Len(order0), arranged.regions)), LAMBDA done :
      Given(PlanStages(done.ops, prologOps, 1, {}), LAMBDA stages :
        tape(prologOps, arranged.regions, L, done, stages, WithArgs(done.ops, stages)))))))
=============================================================================
