-------------------------------- MODULE Topo --------------------------------
(***************************************************************************)
(* The dynamic topological order of the accumulator fusion (crates/rsdag/  *)
(* src/tape/topo.rs): a list of the instructions whose order is compared   *)
(* by labels, kept topological as kernels take accumulators by a two-way   *)
(* search of what lies between the two ends.                               *)
(*                                                                         *)
(* An order `t` is [n, label, list, readers, added]: the instructions are  *)
(* 1..n, `list` runs from the head 0 to the tail n + 1, `readers` are the  *)
(* instructions' readers when the order was taken and `added` the ones the *)
(* pass added; `seen` are the marks searches left, `stamp` the last one's. *)
(***************************************************************************)
EXTENDS Programs

CONSTANTS LabelBits,  \* the width of a label: 64 in the code
          MaxStamp    \* the last stamp of a search: u32::MAX

Powers(b) ==
  LET power[i \in 0..LabelBits] == IF i = 0 THEN 1 ELSE b * power[i - 1] IN power
MaxLabel == Powers(2)[LabelBits] - 1

Place(list, x) == CHOOSE q \in DOMAIN list : list[q] = x

(* The elements `at` in order, their labels evenly spread.                 *)
NewList(at) == <<0>> \o at \o <<Len(at) + 1>>
NewLabels(at) ==
  LET n == Len(at)
      step == MaxLabel \div (n + 2)
  IN  [x \in 0..(n + 1) |-> IF x = 0 THEN 0 ELSE IF x = n + 1 THEN MaxLabel
                            ELSE Place(at, x) * step]

(* A range of 2^i labels is sparse enough with fewer than (4/3)^i elements. *)
Sparse(c, i) == i = LabelBits \/ c * Powers(3)[i] < Powers(4)[i]

(* The aligned range of 2^i labels around `lo`, and what w is in it with.   *)
Base(lo, i) == lo - (lo % Powers(2)[i])
Inside(t, lo, w, i) ==
  {v \in ToSet(t.list) :
     v = w \/ /\ v \notin {0, t.n + 1}
              /\ t.label[v] \in Base(lo, i)..(Base(lo, i) + Powers(2)[i] - 1)}

(* `set` in its order, evenly spread between two labels.                    *)
Spread(t, set, from, to) ==
  LET place == [v \in set |-> Place(t.list, v)]
      gap == (to - from) \div (Cardinality(set) + 1)
  IN  [t EXCEPT !.label = [v \in DOMAIN @ |->
         IF v \in set THEN from + gap * Rank(set, place, v) ELSE @[v]]]

(* The smallest such range that is sparse enough once w is in it is spread. *)
Relabel(t, x, w) ==
  LET lo == t.label[x]
      fits(i) == Sparse(Cardinality(Inside(t, lo, w, i)), i)
      width == CHOOSE i \in 1..LabelBits : fits(i) /\ \A l \in 1..(i - 1) : ~fits(l)
      end == Base(lo, width) + Powers(2)[width]
  IN  Spread(t, Inside(t, lo, w, width),
             IF Base(lo, width) = 0 THEN 1 ELSE Base(lo, width),
             IF end < MaxLabel THEN end ELSE MaxLabel)

(* Mutant: labels one apart count as a gap.                                 *)
InsertAfterTight(t, x, w) ==
  LET q == Place(t.list, x)
      lo == t.label[x]
      hi == t.label[t.list[q + 1]]
      linked == [t EXCEPT !.list = InsertAt(@, q + 1, w)]
  IN  IF hi - lo >= 1 THEN [linked EXCEPT !.label[w] = lo + (hi - lo) \div 2]
      ELSE Relabel(linked, x, w)

(* w linked right after x, in the middle of the gap it lands in.            *)
InsertAfter(t, x, w) ==
  LET q == Place(t.list, x)
      lo == t.label[x]
      hi == t.label[t.list[q + 1]]
      linked == [t EXCEPT !.list = InsertAt(@, q + 1, w)]
  IN  IF hi - lo >= 2 THEN [linked EXCEPT !.label[w] = lo + (hi - lo) \div 2]
      ELSE Relabel(linked, x, w)

(* Every instruction's readers, ascending, kernel k also reading `taken`.   *)
ReadersOf(p, k, taken) ==
  [j \in 1..Len(p.insts) |->
     LET rs == Ascending({i \in 1..Len(p.insts) : j \in Reads(p.insts[i])})
     IN  IF j \in taken /\ ~Contains(rs, k) THEN Append(rs, k) ELSE rs]

(* The instructions ready to be placed: plain ones a stack, kernels by      *)
(* number once the accumulators hinted for them are there, and the others   *)
(* by the hints still open.  One of them is placed.                         *)
Placed(p, readers, hints, s) ==
  LET Open(k) == Cardinality({h \in hints : h[2] = k /\ ~Contains(s.at, h[1])})
      kernels == {k \in s.kernels : Open(k) = 0}
      fewest == {k \in s.kernels : \A l \in s.kernels : Open(k) <= Open(l)}
      i == IF s.ready # <<>> THEN Last(s.ready)
           ELSE IF kernels # {} THEN MinOf(kernels) ELSE MinOf(fewest)
      at == Append(s.at, i)
      freed == Those(readers[i], {r \in ToSet(readers[i]) :
                 \A j \in 1..Len(p.insts) : Contains(readers[j], r) => Contains(at, j)})
      left == IF s.ready # <<>> THEN Front(s.ready) ELSE <<>>
  IN  IF s.ready = <<>> /\ s.kernels = {} THEN s
      ELSE [at |-> at,
            ready |-> left \o Those(freed, {r \in ToSet(freed) : ~IsKernel(p.insts[r])}),
            kernels |-> (s.kernels \ {i}) \cup {r \in ToSet(freed) : IsKernel(p.insts[r])}]

Arrange(p, readers, hints, first) ==
  LET after[q \in 0..Len(p.insts)] ==
        IF q = 0 THEN first ELSE Placed(p, readers, hints, after[q - 1])
  IN  after[Len(p.insts)].at

(* The starting order: a kernel after the accumulators hinted for it where  *)
(* the program allows, and otherwise as late as its readers allow.          *)
NewTopo(p, hints, k, taken) ==
  LET n == Len(p.insts)
      free(readers) == {i \in 1..n : \A j \in 1..n : ~Contains(readers[j], i)}
      arranged(readers, first) ==
        Arrange(p, readers, hints,
          [at |-> <<>>,
           ready |-> Reverse(Ascending({i \in first : ~IsKernel(p.insts[i])})),
           kernels |-> {i \in first : IsKernel(p.insts[i])}])
      topo(readers, at) ==
        [n |-> n, label |-> NewLabels(at), list |-> NewList(at),
         readers |-> readers, added |-> [i \in 1..n |-> <<>>],
         seen |-> [i \in 1..n |-> 0], stamp |-> 0]
  IN  Given(ReadersOf(p, k, taken), LAMBDA readers :
        topo(readers, arranged(readers, free(readers))))

(* What each instruction reads, an input 0.                                 *)
Operands(p) == [w \in DOMAIN p.insts |->
                  [a \in DOMAIN p.insts[w].ins |->
                     IF IsValue(p.insts[w].ins[a]) THEN p.insts[w].ins[a][2] ELSE 0]]

-----------------------------------------------------------------------------
(* The search of one question: may kernel k read a?  `ins(w)` are the       *)
(* instructions w reads, in operand order.                                  *)

Before(t, a, k) == a > t.n \/ t.label[a] < t.label[k]
Joined(t, a, k) ==
  IF a > t.n THEN t ELSE [t EXCEPT !.added[a] = Append(@, k)]

(* Mutant: the stamps start over, the marks stay.                           *)
StampedAgain(t) == [t EXCEPT !.stamp = IF @ > MaxStamp - 4 THEN 2 ELSE @ + 2]
Stamped(t) == IF t.stamp > MaxStamp - 4
              THEN [t EXCEPT !.seen = [w \in DOMAIN @ |-> 0], !.stamp = 2]
              ELSE [t EXCEPT !.stamp = @ + 2]

(* Forward marks are the stamp, backward ones the next number.              *)
Search(t, k, a) ==
  [k |-> k, a |-> a, front |-> <<<<k, 0>>>>, rear |-> <<<<a, 0>>>>, fwd |-> {k}, back |-> {a},
   mark |-> Stamped(t).stamp,
   seen |-> [Stamped(t).seen EXCEPT ![k] = Stamped(t).stamp, ![a] = Stamped(t).stamp + 1],
   turn |-> "f", outcome |-> "none"]

Searched(t, s) == [t EXCEPT !.seen = s.seen, !.stamp = s.mark]

(* Mutant: the search stays at an edge it has looked at.                    *)
BumpedNone(stack) == stack
Bumped(stack) == [stack EXCEPT ![Len(stack)][2] = @ + 1]

(* One forward edge: the next reader of the node on top, toward a.          *)
ForwardEdge(t, s) ==
  IF s.front = <<>> THEN [s EXCEPT !.outcome = "forward"]
  ELSE LET top == Last(s.front)
           out == t.readers[top[1]] \o t.added[top[1]]
           e == top[2] + 1
           r == out[e]
       IN  IF e > Len(out) THEN [s EXCEPT !.front = Front(@), !.turn = "b"]
           ELSE IF r = s.a THEN [s EXCEPT !.outcome = "cycle"]
           ELSE IF s.seen[r] # s.mark /\ t.label[r] < t.label[s.a]
                THEN [s EXCEPT !.front = Append(Bumped(@), <<r, 0>>), !.turn = "b",
                               !.seen[r] = s.mark, !.fwd = @ \cup {r}]
                ELSE [s EXCEPT !.front = Bumped(@), !.turn = "b"]

(* One backward edge: the next operand of the node on top, toward k.        *)
BackwardEdge(t, ins, s) ==
  IF s.rear = <<>> THEN [s EXCEPT !.outcome = "backward"]
  ELSE LET top == Last(s.rear)
           in == ins[top[1]]
           e == top[2] + 1
           j == in[e]
       IN  IF e > Len(in) THEN [s EXCEPT !.rear = Front(@), !.turn = "f"]
           ELSE IF j = s.k THEN [s EXCEPT !.outcome = "cycle"]
           ELSE IF j \in 1..t.n /\ s.seen[j] # s.mark + 1 /\ t.label[j] > t.label[s.k]
                THEN [s EXCEPT !.rear = Append(Bumped(@), <<j, 0>>), !.turn = "f",
                               !.seen[j] = s.mark + 1, !.back = @ \cup {j}]
                ELSE [s EXCEPT !.rear = Bumped(@), !.turn = "f"]

(* The side that ran out is closed under its direction and moves: what a    *)
(* reads right before k, or what reads k right after a.                     *)
Moved(t, s) ==
  LET set == IF s.outcome = "backward" THEN s.back ELSE s.fwd
      sorted == Sorted(set, [v \in set |-> t.label[v]])
      apart == [Searched(t, s) EXCEPT !.list = Those(@, ToSet(@) \ set)]
      start == IF s.outcome = "backward"
               THEN apart.list[Place(apart.list, s.k) - 1] ELSE s.a
      put[q \in 0..Len(sorted)] ==
        IF q = 0 THEN apart
        ELSE InsertAfter(put[q - 1], IF q = 1 THEN start ELSE sorted[q - 1], sorted[q])
  IN  Joined(put[Len(sorted)], s.a, s.k)
=============================================================================
