------------------------------ MODULE TopoOrder ------------------------------
(***************************************************************************)
(* The dynamic topological order as the fusion drives it (crates/rsdag/src/*)
(* tape/topo.rs): kernel after kernel asks whether it may read an          *)
(* instruction, a search of one edge a step answers, a move keeps the      *)
(* order.  What the fusion asks is left open: any instruction, of any      *)
(* program, whatever the hints were.                                       *)
(***************************************************************************)
EXTENDS Topo

CONSTANTS Programs0   \* the programs, each with its hints: [p, hints]

(* What an instruction of n may read, and a program of such instructions.   *)
RefsTo(n) == ({"v"} \X (1..n) \X Nat) \cup ({"in"} \X Nat \X {0})
WellTyped(q) ==
  q \in [insts : Seq([kind : {q.insts[i].kind : i \in DOMAIN q.insts},
                     ins : Seq(RefsTo(Len(q.insts))), nOut : Nat, pure : BOOLEAN]),
         roots : {q.roots}, place : {q.place}, kept : {q.kept}]

(* "The lowered program is acyclic" (topo.rs:157), the fusion asks of its    *)
(* kernels, and there are more labels than instructions.                     *)
WellFormed(c) ==
  /\ WellTyped(c.p) /\ IsFiniteSet(c.hints)
  /\ \E i \in DOMAIN c.p.insts : IsKernel(c.p.insts[i])
  /\ \A set \in SUBSET DOMAIN c.p.insts :
       set # {} => \E i \in set : Reads(c.p.insts[i]) \cap set = {}
  /\ Len(c.p.insts) + 2 <= MaxLabel

ASSUME TopoAssumption ==
  /\ LabelBits \in Nat /\ MaxStamp \in Nat
  /\ \A c \in Programs0 : WellFormed(c)

VARIABLES p,       \* the program, the accumulators of the kernels done in it
          t,       \* the order
          k,       \* the kernel at hand
          taken,   \* what it took
          s        \* the search under way, or <<>>

vars == <<p, t, k, taken, s>>

KernelsAfter(i) == {j \in DOMAIN p.insts : IsKernel(p.insts[j]) /\ j > i}

Init ==
  \E c \in Programs0 :
    /\ p = c.p /\ k = MinOf({j \in DOMAIN c.p.insts : IsKernel(c.p.insts[j])})
    /\ t = NewTopo(c.p, c.hints, k, {})
    /\ taken = {} /\ s = <<>>

(* The kernel's accumulators become operands of it.                         *)
NextKernel ==
  /\ s = <<>> /\ KernelsAfter(k) # {}
  /\ k' = MinOf(KernelsAfter(k))
  /\ p' = [p EXCEPT !.insts[k].ins = @ \o [q \in DOMAIN Ascending(taken) |->
                                             Value(Ascending(taken)[q], 0)]]
  /\ taken' = {}
  /\ UNCHANGED <<t, s>>

(* An accumulator already in order is taken at once.                        *)
Ask(a) ==
  /\ s = <<>> /\ a # k /\ a \notin taken
  /\ IF Before(t, a, k)
     THEN /\ t' = Joined(t, a, k) /\ taken' = taken \cup {a} /\ UNCHANGED s
     ELSE s' = Search(t, k, a) /\ UNCHANGED <<t, taken>>
  /\ UNCHANGED <<p, k>>

Step ==
  /\ s # <<>> /\ s.outcome = "none"
  /\ s' = IF s.turn = "f" THEN ForwardEdge(t, s)
          ELSE BackwardEdge(t, Operands(p), s)
  /\ UNCHANGED <<p, t, k, taken>>

Answer ==
  /\ s # <<>> /\ s.outcome # "none"
  /\ t' = IF s.outcome = "cycle" THEN Searched(t, s) ELSE Moved(t, s)
  /\ taken' = IF s.outcome = "cycle" THEN taken ELSE taken \cup {s.a}
  /\ s' = <<>>
  /\ UNCHANGED <<p, k>>

Next == NextKernel \/ (\E a \in 1..t.n : Ask(a)) \/ Step \/ Answer

(* The search is a loop without a wait: it goes on.                         *)
Spec == Init /\ [][Next]_vars /\ WF_vars(Step)

-----------------------------------------------------------------------------
(* What each instruction reads, what the kernel takes included.             *)
Sources == [i \in 1..t.n |-> Reads(p.insts[i]) \cup IF i = k THEN taken ELSE {}]

(* What `set` depends on: what lies in every set that holds it and what its *)
(* members read.                                                            *)
Closed(reads, set) == \A i \in set : reads[i] \subseteq set
DependsOn(reads, set) ==
  {j \in DOMAIN reads :
     \A C \in SUBSET DOMAIN reads : set \subseteq C /\ Closed(reads, C) => j \in C}

Readers(o, j) == o.readers[j] \o o.added[j]

Orders(n) ==
  [n : {n}, label : [0..(n + 1) -> 0..MaxLabel], list : Seq(0..(n + 1)),
   readers : [1..n -> Seq(1..n)], added : [1..n -> Seq(1..n)],
   seen : [1..n -> Nat], stamp : Nat]

TypeOK ==
  /\ t.n \in Nat /\ t \in Orders(t.n)
  /\ DOMAIN p.insts = 1..t.n /\ Operands(p) \in [1..t.n -> Seq(0..t.n)]
  /\ Sources \in [1..t.n -> SUBSET (1..t.n)]
  /\ k \in 1..t.n

(* An order of a program that reads `reads`.                                *)
OrderOf(o, reads) ==
  /\ Len(o.list) = o.n + 2 /\ ToSet(o.list) = 0..(o.n + 1)
  /\ \A q, r \in DOMAIN o.list : q < r => o.label[o.list[q]] < o.label[o.list[r]]
  /\ \A i \in 1..o.n : \A j \in reads[i] : o.label[j] < o.label[i]
  /\ \A j \in 1..o.n : ToSet(Readers(o, j)) = {i \in 1..o.n : j \in reads[i]}
  /\ \A w \in 1..o.n : o.seen[w] <= o.stamp + 1

(* The labels are an order of the program with everything taken, strictly   *)
(* increasing along the list, which loses no instruction: a relabelling     *)
(* moves no two apart, a move leaves no reader before what it reads.  The   *)
(* readers are those of this program, and no mark a search left is one of   *)
(* the next (topo.rs:160-262).                                              *)
OrderSound == TypeOK /\ OrderOf(t, Sources)

(* A search ends with the truth: it refuses an accumulator exactly if that  *)
(* depends on the kernel, and the side it moves is closed under what it was *)
(* searched along, up to the other end.                                     *)
AnswerExact ==
  s # <<>> /\ s.outcome # "none" =>
    LET below == DependsOn(Sources, {s.a})
    IN  /\ (s.outcome = "cycle") = (s.k \in below)
        /\ s.outcome = "backward" =>
             s.back = {j \in below : t.label[j] > t.label[s.k]}
        /\ s.outcome = "forward" =>
             s.fwd = {j \in 1..t.n : s.k \in DependsOn(Sources, {j}) /\ t.label[j] < t.label[s.a]}

(* Every search comes to an outcome, however the two sides take turns and   *)
(* whatever they meet again (topo.rs:191-244).                              *)
SearchesEnd == []<>(s # <<>> => s.outcome # "none")

-----------------------------------------------------------------------------
(* The search's invariant                                                   *)

Searches(n) ==
  [k : 1..n, a : 1..n, front : Seq((1..n) \X Nat), rear : Seq((1..n) \X Nat),
   fwd : SUBSET (1..n), back : SUBSET (1..n), mark : Nat, seen : [1..n -> Nat],
   turn : {"f", "b"}, outcome : {"none", "cycle", "forward", "backward"}]

(* What the sides may find in search x of order o.                          *)
Above(o, reads, x) ==
  {v \in 1..o.n : x.k \in DependsOn(reads, {v}) /\ o.label[v] < o.label[x.a]}
Below(o, reads, x) == {j \in DependsOn(reads, {x.a}) : o.label[j] > o.label[x.k]}

(* An edge looked at leads nowhere new, short of the other end.             *)
ForwardDone(o, x, r) == r # x.a /\ (o.label[r] < o.label[x.a] => r \in x.fwd)
BackwardDone(o, x, j) == j # x.k /\ (j # 0 /\ o.label[j] > o.label[x.k] => j \in x.back)
ToLookAt(stack, w, e) == \E q \in DOMAIN stack : stack[q][1] = w /\ stack[q][2] < e

(* What is marked was found, is where it may be, and has its edges looked   *)
(* at but for those the stack holds.                                        *)
FoundForward(o, reads, x) ==
  /\ x.k \in x.fwd /\ x.fwd \subseteq Above(o, reads, x)
  /\ \A q \in DOMAIN x.front : x.front[q][1] \in x.fwd
  /\ \A w \in 1..o.n : x.seen[w] = x.mark => w \in x.fwd
  /\ \A v \in x.fwd : \A e \in DOMAIN Readers(o, v) :
       ForwardDone(o, x, Readers(o, v)[e]) \/ ToLookAt(x.front, v, e)
FoundBackward(o, reads, ins, x) ==
  /\ x.a \in x.back /\ x.back \subseteq Below(o, reads, x)
  /\ \A q \in DOMAIN x.rear : x.rear[q][1] \in x.back
  /\ \A w \in 1..o.n : x.seen[w] = x.mark + 1 => w \in x.back
  /\ \A w \in x.back : \A e \in DOMAIN ins[w] :
       BackwardDone(o, x, ins[w][e]) \/ ToLookAt(x.rear, w, e)
Told(reads, x) ==
  /\ x.outcome = "cycle" => x.k \in DependsOn(reads, {x.a})
  /\ x.outcome = "forward" => x.front = <<>>
  /\ x.outcome = "backward" => x.rear = <<>>

Found(o, reads, ins, x) ==
  /\ x \in Searches(o.n) /\ o.label[x.k] < o.label[x.a]
  /\ FoundForward(o, reads, x) /\ FoundBackward(o, reads, ins, x) /\ Told(reads, x)

SearchOK == s # <<>> => s.k = k /\ s.a \notin taken /\ Found(t, Sources, Operands(p), s)
=============================================================================
