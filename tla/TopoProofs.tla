------------------------------ MODULE TopoProofs ------------------------------
(***************************************************************************)
(* The two-way search finds what it looks for, for any program and any     *)
(* order of it: an edge keeps what is found, a side that ran out is closed.*)
(***************************************************************************)
EXTENDS TopoOrder, SequenceTheorems, TLAPS

------------------------------------------------------------------------------
(* Dependence                                                               *)

\* Everything depends on itself.
LEMMA DependsOnItself ==
    ASSUME NEW reads, NEW set, set \subseteq DOMAIN reads
    PROVE  set \subseteq DependsOn(reads, set)
  BY DEF DependsOn

\* What is closed holds all its members depend on.
LEMMA DependsWithin ==
    ASSUME NEW reads, NEW set, NEW C \in SUBSET DOMAIN reads, set \subseteq C, Closed(reads, C)
    PROVE  DependsOn(reads, set) \subseteq C
  BY DEF DependsOn

\* What a dependence reads is one.
LEMMA DependsOnwards ==
    ASSUME NEW n \in Nat, NEW reads \in [1..n -> SUBSET (1..n)], NEW set,
           NEW i \in DependsOn(reads, set), NEW j \in reads[i]
    PROVE  j \in DependsOn(reads, set)
  <1>1. DOMAIN reads = 1..n /\ i \in 1..n /\ j \in 1..n
    BY DEF DependsOn
  <1>2. ASSUME NEW C \in SUBSET DOMAIN reads, set \subseteq C, Closed(reads, C)
        PROVE  j \in C
    <2>1. i \in C
      BY <1>2 DEF DependsOn
    <2>2. QED
      BY <1>2, <2>1 DEF Closed
  <1>3. QED
    BY <1>1, <1>2 DEF DependsOn

\* What reads v depends on what v depends on.
LEMMA DependsThrough ==
    ASSUME NEW n \in Nat, NEW reads \in [1..n -> SUBSET (1..n)],
           NEW r \in 1..n, NEW v \in reads[r], NEW j \in DependsOn(reads, {v})
    PROVE  j \in DependsOn(reads, {r})
  <1>1. DOMAIN reads = 1..n /\ j \in 1..n
    BY DEF DependsOn
  <1>2. ASSUME NEW C \in SUBSET DOMAIN reads, {r} \subseteq C, Closed(reads, C)
        PROVE  j \in C
    <2>1. v \in C
      BY <1>2 DEF Closed
    <2>2. QED
      BY <1>2, <2>1 DEF DependsOn
  <1>3. QED
    BY <1>1, <1>2 DEF DependsOn

------------------------------------------------------------------------------
(* The stack of a side                                                      *)

\* One edge more of the top looked at.
LEMMA BumpedTop ==
    ASSUME NEW S, NEW stack \in Seq(S \X Nat), stack # <<>>
    PROVE  /\ Bumped(stack) \in Seq(S \X Nat) /\ DOMAIN Bumped(stack) = DOMAIN stack
           /\ Len(stack) \in DOMAIN stack
           /\ Bumped(stack)[Len(stack)] = <<stack[Len(stack)][1], stack[Len(stack)][2] + 1>>
           /\ \A q \in DOMAIN stack : q # Len(stack) => Bumped(stack)[q] = stack[q]
  <1> DEFINE n == Len(stack)
             top == stack[n]
  <1>1. n \in DOMAIN stack /\ top \in S \X Nat /\ DOMAIN stack = 1..n /\ n \in Nat
    BY EmptySeq
  <1>2. PICK w \in S, e \in Nat : top = <<w, e>>
    BY <1>1
  <1> HIDE DEF top
  <1>3. [top EXCEPT ![2] = top[2] + 1] = <<w, e + 1>>
    BY <1>2
  <1>4. Bumped(stack) = [stack EXCEPT ![n] = <<w, e + 1>>]
    BY <1>3 DEF Bumped, top
  <1>5. <<w, e + 1>> \in S \X Nat
    BY <1>2
  <1> HIDE DEF n
  <1>6. [stack EXCEPT ![n] = <<w, e + 1>>] \in Seq(S \X Nat)
    BY <1>1, <1>5
  <1>7. QED
    BY <1>1, <1>2, <1>4, <1>6 DEF n, top

\* The stack without its top.
LEMMA PoppedTop ==
    ASSUME NEW S, NEW stack \in Seq(S), stack # <<>>
    PROVE  /\ Front(stack) \in Seq(S)
           /\ DOMAIN Front(stack) = DOMAIN stack \ {Len(stack)}
           /\ \A q \in DOMAIN stack : q # Len(stack) => Front(stack)[q] = stack[q]
  <1>1. Len(stack) \in Nat \ {0}
    BY EmptySeq
  <1>2. Front(stack) = [q \in 1..(Len(stack) - 1) |-> stack[q]]
    BY <1>1 DEF Front
  <1>3. QED
    BY <1>1, <1>2

\* A node on top of a stack.
LEMMA Pushed ==
    ASSUME NEW S, NEW stack \in Seq(S), NEW top \in S
    PROVE  /\ Append(stack, top) \in Seq(S)
           /\ DOMAIN Append(stack, top) = DOMAIN stack \cup {Len(stack) + 1}
           /\ Append(stack, top)[Len(stack) + 1] = top
           /\ \A q \in DOMAIN stack : Append(stack, top)[q] = stack[q]
  OBVIOUS

\* What is left to look at once the top has no more edges.
LEMMA PoppedLeaves ==
    ASSUME NEW S, NEW stack \in Seq(S \X Nat), stack # <<>>,
           NEW w, NEW e \in Nat, ToLookAt(stack, w, e),
           w = Last(stack)[1] => e <= Last(stack)[2]
    PROVE  ToLookAt(Front(stack), w, e)
  <1>1. PICK q \in DOMAIN stack : stack[q][1] = w /\ stack[q][2] < e
    BY DEF ToLookAt
  <1>2. q # Len(stack)
    <2>1. stack[q][2] \in Nat
      BY <1>1
    <2>2. QED
      BY <1>1, <2>1 DEF Last
  <1>3. q \in DOMAIN Front(stack) /\ Front(stack)[q] = stack[q]
    BY <1>2, PoppedTop
  <1>4. QED
    BY <1>1, <1>3 DEF ToLookAt

\* What is left to look at once one more edge of the top was.
LEMMA BumpedLeaves ==
    ASSUME NEW S, NEW stack \in Seq(S \X Nat), stack # <<>>,
           NEW w, NEW e \in Nat, ToLookAt(stack, w, e),
           w = Last(stack)[1] => e # Last(stack)[2] + 1
    PROVE  ToLookAt(Bumped(stack), w, e)
  <1>1. PICK q \in DOMAIN stack : stack[q][1] = w /\ stack[q][2] < e
    BY DEF ToLookAt
  <1>2. CASE q # Len(stack)
    <2>1. q \in DOMAIN Bumped(stack) /\ Bumped(stack)[q] = stack[q]
      BY <1>1, <1>2, BumpedTop
    <2>2. QED
      BY <1>1, <2>1 DEF ToLookAt
  <1>3. CASE q = Len(stack)
    <2>1. /\ q \in DOMAIN Bumped(stack)
          /\ Bumped(stack)[q] = <<stack[q][1], stack[q][2] + 1>>
      BY <1>3, BumpedTop
    <2>2. stack[q][2] \in Nat
      BY <1>1
    <2>3. stack[q][2] + 1 < e
      BY <1>1, <1>3, <2>2 DEF Last
    <2>4. QED
      BY <1>1, <2>1, <2>3 DEF ToLookAt
  <1>4. QED
    BY <1>2, <1>3

\* A push leaves what was left to look at.
LEMMA PushedLeaves ==
    ASSUME NEW S, NEW stack \in Seq(S), NEW top \in S, NEW w, NEW e, ToLookAt(stack, w, e)
    PROVE  ToLookAt(Append(stack, top), w, e)
  BY Pushed DEF ToLookAt

------------------------------------------------------------------------------
(* The forward side                                                         *)

\* What the readers of what was found are.
LEMMA ReadersRead ==
    ASSUME NEW o, NEW reads, o.n \in Nat, o \in Orders(o.n),
           reads \in [1..o.n -> SUBSET (1..o.n)], OrderOf(o, reads),
           NEW v \in 1..o.n
    PROVE  /\ Readers(o, v) \in Seq(1..o.n)
           /\ \A e \in DOMAIN Readers(o, v) :
                 Readers(o, v)[e] \in 1..o.n /\ v \in reads[Readers(o, v)[e]]
           /\ \A i \in 1..o.n : v \in reads[i] =>
                 \E e \in DOMAIN Readers(o, v) : Readers(o, v)[e] = i
  <1>1. Readers(o, v) \in Seq(1..o.n)
    BY DEF Readers, Orders
  <1>2. ToSet(Readers(o, v)) = {i \in 1..o.n : v \in reads[i]}
    BY DEF OrderOf
  <1>3. QED
    BY <1>1, <1>2 DEF ToSet

\* A step of the forward side leaves the other as it was.
LEMMA ForwardFound ==
    ASSUME NEW o, NEW reads, NEW ins, NEW x, Found(o, reads, ins, x),
           NEW y \in Searches(o.n), y.k = x.k, y.a = x.a, y.rear = x.rear,
           y.back = x.back, y.mark = x.mark,
           \A w \in 1..o.n : y.seen[w] = x.mark + 1 => x.seen[w] = x.mark + 1,
           FoundForward(o, reads, y), Told(reads, y)
    PROVE  Found(o, reads, ins, y)
  <1>1. FoundBackward(o, reads, ins, x) /\ o.label[y.k] < o.label[y.a]
    BY DEF Found
  <1>2. FoundBackward(o, reads, ins, y)
    BY <1>1 DEF FoundBackward, Below, BackwardDone
  <1>3. QED
    BY <1>1, <1>2 DEF Found

\* One edge of the forward side, a pop and an answer included, finds what it
\* should (topo.rs:192-221).
LEMMA ForwardKeeps ==
    ASSUME NEW o, NEW reads, NEW ins, o.n \in Nat, o \in Orders(o.n),
           reads \in [1..o.n -> SUBSET (1..o.n)], OrderOf(o, reads),
           NEW x, Found(o, reads, ins, x), x.outcome = "none"
    PROVE  Found(o, reads, ins, ForwardEdge(o, x))
  <1> DEFINE n == o.n
             top == Last(x.front)
             v == top[1]
             out == Readers(o, v)
             e == top[2] + 1
             r == out[e]
             push == Append(Bumped(x.front), <<r, 0>>)
             y == ForwardEdge(o, x)
  <1>1. /\ x \in Searches(n) /\ o.label[x.k] < o.label[x.a] /\ n \in Nat
        /\ FoundForward(o, reads, x) /\ FoundBackward(o, reads, ins, x) /\ Told(reads, x)
        /\ x.front \in Seq((1..n) \X Nat) /\ x.fwd \subseteq 1..n /\ x.a \in 1..n /\ x.k \in 1..n
        /\ x.seen \in [1..n -> Nat] /\ x.mark \in Nat
    BY DEF Found, Searches
  <1>2. ForwardEdge(o, x) =
          IF x.front = <<>> THEN [x EXCEPT !.outcome = "forward"]
          ELSE IF e > Len(out) THEN [x EXCEPT !.front = Front(x.front), !.turn = "b"]
          ELSE IF r = x.a THEN [x EXCEPT !.outcome = "cycle"]
          ELSE IF x.seen[r] # x.mark /\ o.label[r] < o.label[x.a]
               THEN [x EXCEPT !.front = push, !.turn = "b", !.seen[r] = x.mark,
                              !.fwd = x.fwd \cup {r}]
               ELSE [x EXCEPT !.front = Bumped(x.front), !.turn = "b"]
    BY DEF ForwardEdge, Readers
  <1>3. CASE x.front = <<>>
    <2>1. y = [x EXCEPT !.outcome = "forward"]
      BY <1>2, <1>3
    <2> HIDE DEF y
    <2>2. /\ y \in Searches(n) /\ y.k = x.k /\ y.a = x.a /\ y.rear = x.rear /\ y.back = x.back
          /\ y.mark = x.mark /\ y.seen = x.seen /\ y.front = x.front /\ y.fwd = x.fwd
          /\ y.outcome = "forward"
      BY <1>1, <2>1 DEF Searches
    <2>3. FoundForward(o, reads, y)
      BY <1>1, <2>2 DEF FoundForward, Above, ForwardDone
    <2>4. Told(reads, y)
      BY <1>3, <2>2 DEF Told
    <2>5. Found(o, reads, ins, y)
      BY <2>2, <2>3, <2>4, ForwardFound
    <2>6. QED
      BY <2>5 DEF y
  <1>4. ASSUME x.front # <<>>
        PROVE  /\ top \in (1..n) \X Nat /\ v \in x.fwd /\ v \in 1..n /\ e \in Nat \ {0}
               /\ top = x.front[Len(x.front)]
               /\ out \in Seq(1..n) /\ Len(out) \in Nat /\ DOMAIN out = 1..Len(out)
    <2>1. Len(x.front) \in DOMAIN x.front /\ x.front[Len(x.front)] \in (1..n) \X Nat
      BY <1>1, <1>4, BumpedTop
    <2>2. top = x.front[Len(x.front)]
      BY DEF Last
    <2>3. v \in x.fwd
      BY <1>1, <2>1, <2>2 DEF FoundForward
    <2>4. v \in 1..n /\ out \in Seq(1..n)
      BY <1>1, <2>3, ReadersRead
    <2> HIDE DEF out
    <2>5. Len(out) \in Nat /\ DOMAIN out = 1..Len(out)
      BY <2>4
    <2>6. top \in (1..n) \X Nat
      BY <2>1, <2>2
    <2> HIDE DEF top
    <2>7. e \in Nat \ {0}
      BY <2>6
    <2>8. QED
      BY <2>2, <2>3, <2>4, <2>5, <2>6, <2>7
  <1>5. CASE x.front # <<>> /\ e > Len(out)
    <2>1. y = [x EXCEPT !.front = Front(x.front), !.turn = "b"]
      BY <1>2, <1>5
    <2>2. Front(x.front) \in Seq((1..n) \X Nat)
      BY <1>1, <1>5, PoppedTop
    <2> HIDE DEF y
    <2>3. /\ y \in Searches(n) /\ y.k = x.k /\ y.a = x.a /\ y.rear = x.rear /\ y.back = x.back
          /\ y.mark = x.mark /\ y.seen = x.seen /\ y.front = Front(x.front) /\ y.fwd = x.fwd
          /\ y.outcome = "none"
      BY <1>1, <2>1, <2>2 DEF Searches
    <2>4. \A q \in DOMAIN y.front : y.front[q][1] \in y.fwd
      <3>1. ASSUME NEW q \in DOMAIN Front(x.front)
            PROVE  Front(x.front)[q][1] \in x.fwd
        <4>1. q \in DOMAIN x.front /\ Front(x.front)[q] = x.front[q]
          BY <1>1, <1>5, <3>1, PoppedTop
        <4>2. QED
          BY <1>1, <4>1 DEF FoundForward
      <3>2. QED
        BY <2>3, <3>1
    <2>5. ASSUME NEW w \in y.fwd, NEW f \in DOMAIN Readers(o, w)
          PROVE  ForwardDone(o, y, Readers(o, w)[f]) \/ ToLookAt(y.front, w, f)
      <3>1. ForwardDone(o, x, Readers(o, w)[f]) \/ ToLookAt(x.front, w, f)
        BY <1>1, <2>3, <2>5 DEF FoundForward
      <3>2. f \in Nat /\ (w = v => f <= top[2])
        <4>1. w \in 1..n
          BY <1>1, <2>3, <2>5
        <4>2. Readers(o, w) \in Seq(1..n)
          BY <4>1, ReadersRead
        <4>3. f \in 1..Len(Readers(o, w)) /\ Len(Readers(o, w)) \in Nat
          BY <2>5, <4>2
        <4>4. top[2] \in Nat
          BY <1>4, <1>5
        <4> HIDE DEF v, top
        <4>5. QED
          BY <1>5, <4>3, <4>4
      <3>3. ToLookAt(x.front, w, f) => ToLookAt(y.front, w, f)
        BY <1>1, <1>5, <2>3, <3>2, PoppedLeaves
      <3>4. QED
        BY <2>3, <3>1, <3>3 DEF ForwardDone
    <2>6. FoundForward(o, reads, y)
      BY <1>1, <2>3, <2>4, <2>5 DEF FoundForward, Above
    <2>7. Told(reads, y)
      BY <2>3 DEF Told
    <2>8. Found(o, reads, ins, y)
      BY <2>3, <2>6, <2>7, ForwardFound
    <2>9. QED
      BY <2>8 DEF y
  <1>6. ASSUME x.front # <<>>, e <= Len(out)
        PROVE  /\ e \in DOMAIN out /\ r \in 1..n /\ v \in reads[r]
               /\ x.k \in DependsOn(reads, {r})
    <2>1. e \in DOMAIN out
      BY <1>4, <1>6
    <2>2. r \in 1..n /\ v \in reads[r]
      BY <1>4, <1>6, <2>1, ReadersRead
    <2>3. x.k \in DependsOn(reads, {v})
      BY <1>1, <1>4, <1>6 DEF FoundForward, Above
    <2> HIDE DEF v, r
    <2>4. QED
      BY <1>1, <2>1, <2>2, <2>3, DependsThrough
  <1>7. CASE x.front # <<>> /\ e <= Len(out) /\ r = x.a
    <2>1. y = [x EXCEPT !.outcome = "cycle"]
      BY <1>2, <1>4, <1>7
    <2> HIDE DEF y
    <2>2. /\ y \in Searches(n) /\ y.k = x.k /\ y.a = x.a /\ y.rear = x.rear /\ y.back = x.back
          /\ y.mark = x.mark /\ y.seen = x.seen /\ y.front = x.front /\ y.fwd = x.fwd
          /\ y.outcome = "cycle"
      BY <1>1, <2>1 DEF Searches
    <2>3. FoundForward(o, reads, y)
      BY <1>1, <2>2 DEF FoundForward, Above, ForwardDone
    <2>4. Told(reads, y)
      BY <1>6, <1>7, <2>2 DEF Told
    <2>5. Found(o, reads, ins, y)
      BY <2>2, <2>3, <2>4, ForwardFound
    <2>6. QED
      BY <2>5 DEF y
  <1>8. ASSUME x.front # <<>>
        PROVE  /\ Bumped(x.front) \in Seq((1..n) \X Nat)
               /\ \A q \in DOMAIN Bumped(x.front) : Bumped(x.front)[q][1] \in x.fwd
               /\ \A w \in x.fwd : \A f \in DOMAIN Readers(o, w) :
                     \/ ForwardDone(o, x, Readers(o, w)[f])
                     \/ ToLookAt(Bumped(x.front), w, f)
                     \/ w = v /\ f = e
    <2>1. Bumped(x.front) \in Seq((1..n) \X Nat)
      BY <1>1, <1>8, BumpedTop
    <2>2. ASSUME NEW q \in DOMAIN Bumped(x.front)
          PROVE  Bumped(x.front)[q][1] \in x.fwd
      <3>1. q \in DOMAIN x.front
        BY <1>1, <1>8, <2>2, BumpedTop
      <3>2. CASE q = Len(x.front)
        <4>1. Bumped(x.front)[q] = <<x.front[q][1], x.front[q][2] + 1>>
          BY <1>1, <1>8, <3>2, BumpedTop
        <4>2. x.front[q][1] \in x.fwd
          BY <1>1, <3>1 DEF FoundForward
        <4>3. QED
          BY <4>1, <4>2
      <3>3. CASE q # Len(x.front)
        <4>1. Bumped(x.front)[q] = x.front[q]
          BY <1>1, <1>8, <3>1, <3>3, BumpedTop
        <4>2. x.front[q][1] \in x.fwd
          BY <1>1, <3>1 DEF FoundForward
        <4>3. QED
          BY <4>1, <4>2
      <3>4. QED
        BY <3>2, <3>3
    <2>3. ASSUME NEW w \in x.fwd, NEW f \in DOMAIN Readers(o, w)
          PROVE  \/ ForwardDone(o, x, Readers(o, w)[f])
                 \/ ToLookAt(Bumped(x.front), w, f)
                 \/ w = v /\ f = e
      <3>1. ForwardDone(o, x, Readers(o, w)[f]) \/ ToLookAt(x.front, w, f)
        BY <1>1, <2>3 DEF FoundForward
      <3>2. f \in Nat
        <4>1. Readers(o, w) \in Seq(1..n)
          BY <1>1, <2>3, ReadersRead
        <4>2. QED
          BY <2>3, <4>1
      <3>3. ToLookAt(x.front, w, f) /\ ~(w = v /\ f = e) => ToLookAt(Bumped(x.front), w, f)
        BY <1>1, <1>8, <3>2, BumpedLeaves
      <3>4. QED
        BY <3>1, <3>3
    <2>4. QED
      BY <2>1, <2>2, <2>3
  <1>9. CASE /\ x.front # <<>> /\ e <= Len(out) /\ r # x.a
             /\ x.seen[r] # x.mark /\ o.label[r] < o.label[x.a]
    <2> DEFINE seen == [x.seen EXCEPT ![r] = x.mark]
               fwd == x.fwd \cup {r}
    <2>1. y = [x EXCEPT !.front = push, !.turn = "b", !.seen = seen, !.fwd = fwd]
      <3> HIDE DEF e, out, r, push
      <3>1. ~(e > Len(out))
        BY <1>4, <1>9
      <3>2. DOMAIN x.seen = 1..n
        BY <1>1
      <3>3. QED
        BY <1>2, <1>9, <3>1, <3>2
    <2>2. r \in 1..n
      BY <1>6, <1>9
    <2> HIDE DEF r
    <2>3. /\ push \in Seq((1..n) \X Nat)
          /\ DOMAIN push = DOMAIN Bumped(x.front) \cup {Len(Bumped(x.front)) + 1}
          /\ push[Len(Bumped(x.front)) + 1] = <<r, 0>>
          /\ \A q \in DOMAIN Bumped(x.front) : push[q] = Bumped(x.front)[q]
      <3>1. <<r, 0>> \in (1..n) \X Nat
        BY <2>2
      <3>2. Bumped(x.front) \in Seq((1..n) \X Nat)
        BY <1>8, <1>9
      <3>3. QED
        BY <3>1, <3>2, Pushed
    <2>4. /\ seen \in [1..n -> Nat] /\ fwd \in SUBSET (1..n) /\ seen[r] = x.mark
          /\ \A w \in 1..n : w # r => seen[w] = x.seen[w]
      BY <1>1, <2>2
    <2> HIDE DEF y, push, seen, fwd
    <2>5. /\ y \in Searches(n) /\ y.k = x.k /\ y.a = x.a /\ y.rear = x.rear /\ y.back = x.back
          /\ y.mark = x.mark /\ y.seen = seen /\ y.front = push /\ y.fwd = fwd
          /\ y.outcome = "none"
      BY <1>1, <2>1, <2>3, <2>4 DEF Searches
    <2>6. \A q \in DOMAIN y.front : y.front[q][1] \in y.fwd
      BY <1>8, <1>9, <2>3, <2>5 DEF fwd
    <2>7. ASSUME NEW w \in y.fwd, NEW f \in DOMAIN Readers(o, w)
          PROVE  ForwardDone(o, y, Readers(o, w)[f]) \/ ToLookAt(y.front, w, f)
      <3>1. CASE w = r
        <4>1. Readers(o, w) \in Seq(1..n)
          BY <1>1, <2>2, <3>1, ReadersRead
        <4>2. f \in Nat \ {0}
          BY <2>7, <4>1
        <4> DEFINE q == Len(Bumped(x.front)) + 1
        <4>3. q \in DOMAIN push /\ push[q][1] = r /\ push[q][2] = 0
          BY <2>3
        <4> HIDE DEF q
        <4>4. ToLookAt(push, w, f)
          BY <3>1, <4>2, <4>3 DEF ToLookAt
        <4>5. QED
          BY <2>5, <4>4
      <3>2. CASE w # r
        <4>1. w \in x.fwd
          BY <2>5, <3>2 DEF fwd
        <4>2. \/ ForwardDone(o, x, Readers(o, w)[f])
              \/ ToLookAt(Bumped(x.front), w, f)
              \/ w = v /\ f = e
          BY <1>8, <1>9, <2>7, <4>1
        <4>3. ForwardDone(o, x, Readers(o, w)[f]) => ForwardDone(o, y, Readers(o, w)[f])
          BY <2>5 DEF ForwardDone, fwd
        <4>4. ToLookAt(Bumped(x.front), w, f) => ToLookAt(y.front, w, f)
          BY <2>3, <2>5 DEF ToLookAt
        <4>5. w = v /\ f = e => ForwardDone(o, y, Readers(o, w)[f])
          BY <1>9, <2>5 DEF ForwardDone, fwd, r
        <4>6. QED
          BY <4>2, <4>3, <4>4, <4>5
      <3>3. QED
        BY <3>1, <3>2
    <2>8. /\ y.k \in y.fwd /\ y.fwd \subseteq Above(o, reads, y)
          /\ \A w \in 1..n : y.seen[w] = y.mark => w \in y.fwd
      <3>1. x.k \in DependsOn(reads, {r}) /\ o.label[r] < o.label[x.a]
        BY <1>6, <1>9
      <3>2. QED
        BY <1>1, <2>2, <2>4, <2>5, <3>1 DEF FoundForward, Above, fwd
    <2>9. FoundForward(o, reads, y)
      BY <2>6, <2>7, <2>8 DEF FoundForward
    <2>10. Told(reads, y) /\ \A w \in 1..n : y.seen[w] = x.mark + 1 => x.seen[w] = x.mark + 1
      <3>1. x.mark # x.mark + 1
        BY <1>1
      <3>2. Told(reads, y)
        BY <2>5 DEF Told
      <3>3. QED
        BY <2>4, <2>5, <3>1, <3>2
    <2>11. Found(o, reads, ins, y)
      BY <2>5, <2>9, <2>10, ForwardFound
    <2>12. QED
      BY <2>11 DEF y
  <1>10. CASE /\ x.front # <<>> /\ e <= Len(out) /\ r # x.a
              /\ ~(x.seen[r] # x.mark /\ o.label[r] < o.label[x.a])
    <2>1. y = [x EXCEPT !.front = Bumped(x.front), !.turn = "b"]
      <3> HIDE DEF e, out, r, push
      <3>1. ~(e > Len(out))
        BY <1>4, <1>10
      <3>2. QED
        BY <1>2, <1>10, <3>1
    <2> HIDE DEF y
    <2>2. /\ y \in Searches(n) /\ y.k = x.k /\ y.a = x.a /\ y.rear = x.rear /\ y.back = x.back
          /\ y.mark = x.mark /\ y.seen = x.seen /\ y.front = Bumped(x.front) /\ y.fwd = x.fwd
          /\ y.outcome = "none"
      BY <1>1, <1>8, <1>10, <2>1 DEF Searches
    <2>3. ASSUME NEW w \in y.fwd, NEW f \in DOMAIN Readers(o, w)
          PROVE  ForwardDone(o, y, Readers(o, w)[f]) \/ ToLookAt(y.front, w, f)
      <3>1. \/ ForwardDone(o, x, Readers(o, w)[f])
            \/ ToLookAt(Bumped(x.front), w, f)
            \/ w = v /\ f = e
        BY <1>8, <1>10, <2>2, <2>3
      <3>2. ForwardDone(o, x, r)
        BY <1>1, <1>6, <1>10 DEF ForwardDone, FoundForward
      <3> HIDE DEF v, e
      <3>3. ForwardDone(o, x, Readers(o, w)[f]) \/ ToLookAt(y.front, w, f)
        BY <2>2, <3>1, <3>2
      <3>4. QED
        BY <2>2, <3>3 DEF ForwardDone
    <2>4. FoundForward(o, reads, y)
      BY <1>1, <1>8, <1>10, <2>2, <2>3 DEF FoundForward, Above
    <2>5. Told(reads, y)
      BY <2>2 DEF Told
    <2>6. Found(o, reads, ins, y)
      BY <2>2, <2>4, <2>5, ForwardFound
    <2>7. QED
      BY <2>6 DEF y
  <1>11. x.front # <<>> => e <= Len(out) \/ e > Len(out)
    BY <1>4
  <1>12. QED
    BY <1>3, <1>5, <1>7, <1>9, <1>10, <1>11

------------------------------------------------------------------------------
(* The backward side                                                        *)

\* A step of the backward side leaves the other as it was.
LEMMA BackwardFound ==
    ASSUME NEW o, NEW reads, NEW ins, NEW x, Found(o, reads, ins, x),
           NEW y \in Searches(o.n), y.k = x.k, y.a = x.a, y.front = x.front,
           y.fwd = x.fwd, y.mark = x.mark,
           \A w \in 1..o.n : y.seen[w] = x.mark => x.seen[w] = x.mark,
           FoundBackward(o, reads, ins, y), Told(reads, y)
    PROVE  Found(o, reads, ins, y)
  <1>1. FoundForward(o, reads, x) /\ o.label[y.k] < o.label[y.a]
    BY DEF Found
  <1>2. FoundForward(o, reads, y)
    BY <1>1 DEF FoundForward, Above, ForwardDone
  <1>3. QED
    BY <1>1, <1>2 DEF Found

\* One edge of the backward side, a pop and an answer included, finds what it
\* should (topo.rs:222-244).
LEMMA BackwardKeeps ==
    ASSUME NEW o, NEW reads, NEW ins, o.n \in Nat, o \in Orders(o.n),
           reads \in [1..o.n -> SUBSET (1..o.n)], ins \in [1..o.n -> Seq(0..o.n)],
           \A w \in 1..o.n : \A e \in DOMAIN ins[w] : ins[w][e] # 0 => ins[w][e] \in reads[w],
           NEW x, Found(o, reads, ins, x), x.outcome = "none"
    PROVE  Found(o, reads, ins, BackwardEdge(o, ins, x))
  <1> DEFINE n == o.n
             top == Last(x.rear)
             v == top[1]
             in == ins[v]
             e == top[2] + 1
             j == in[e]
             push == Append(Bumped(x.rear), <<j, 0>>)
             y == BackwardEdge(o, ins, x)
  <1>1. /\ x \in Searches(n) /\ o.label[x.k] < o.label[x.a] /\ n \in Nat
        /\ FoundBackward(o, reads, ins, x) /\ FoundForward(o, reads, x) /\ Told(reads, x)
        /\ x.rear \in Seq((1..n) \X Nat) /\ x.back \subseteq 1..n /\ x.a \in 1..n /\ x.k \in 1..n
        /\ x.seen \in [1..n -> Nat] /\ x.mark \in Nat
    BY DEF Found, Searches
  <1>2. BackwardEdge(o, ins, x) =
          IF x.rear = <<>> THEN [x EXCEPT !.outcome = "backward"]
          ELSE IF e > Len(in) THEN [x EXCEPT !.rear = Front(x.rear), !.turn = "f"]
          ELSE IF j = x.k THEN [x EXCEPT !.outcome = "cycle"]
          ELSE IF j \in 1..n /\ x.seen[j] # x.mark + 1 /\ o.label[j] > o.label[x.k]
               THEN [x EXCEPT !.rear = push, !.turn = "f", !.seen[j] = x.mark + 1,
                              !.back = x.back \cup {j}]
               ELSE [x EXCEPT !.rear = Bumped(x.rear), !.turn = "f"]
    BY DEF BackwardEdge
  <1>3. CASE x.rear = <<>>
    <2>1. y = [x EXCEPT !.outcome = "backward"]
      BY <1>2, <1>3
    <2> HIDE DEF y
    <2>2. /\ y \in Searches(n) /\ y.k = x.k /\ y.a = x.a /\ y.front = x.front /\ y.fwd = x.fwd
          /\ y.mark = x.mark /\ y.seen = x.seen /\ y.rear = x.rear /\ y.back = x.back
          /\ y.outcome = "backward"
      BY <1>1, <2>1 DEF Searches
    <2>3. FoundBackward(o, reads, ins, y)
      BY <1>1, <2>2 DEF FoundBackward, Below, BackwardDone
    <2>4. Told(reads, y)
      BY <1>3, <2>2 DEF Told
    <2>5. Found(o, reads, ins, y)
      BY <2>2, <2>3, <2>4, BackwardFound
    <2>6. QED
      BY <2>5 DEF y
  <1>4. ASSUME x.rear # <<>>
        PROVE  /\ top \in (1..n) \X Nat /\ v \in x.back /\ v \in 1..n /\ e \in Nat \ {0}
               /\ top = x.rear[Len(x.rear)]
               /\ in \in Seq(0..n) /\ Len(in) \in Nat /\ DOMAIN in = 1..Len(in)
    <2>1. Len(x.rear) \in DOMAIN x.rear /\ x.rear[Len(x.rear)] \in (1..n) \X Nat
      <3>1. Len(x.rear) \in DOMAIN x.rear
        BY <1>1, <1>4, BumpedTop
      <3>2. QED
        BY <1>1, <3>1
    <2>2. top = x.rear[Len(x.rear)]
      BY DEF Last
    <2>3. v \in x.back
      BY <1>1, <2>1, <2>2 DEF FoundBackward
    <2>4. v \in 1..n /\ in \in Seq(0..n)
      BY <1>1, <2>3
    <2> HIDE DEF in
    <2>5. Len(in) \in Nat /\ DOMAIN in = 1..Len(in)
      BY <2>4
    <2>6. top \in (1..n) \X Nat
      BY <2>1, <2>2
    <2> HIDE DEF top
    <2>7. e \in Nat \ {0}
      BY <2>6
    <2>8. QED
      BY <2>2, <2>3, <2>4, <2>5, <2>6, <2>7
  <1>5. CASE x.rear # <<>> /\ e > Len(in)
    <2>1. y = [x EXCEPT !.rear = Front(x.rear), !.turn = "f"]
      BY <1>2, <1>5
    <2>2. Front(x.rear) \in Seq((1..n) \X Nat)
      BY <1>1, <1>5, PoppedTop
    <2> HIDE DEF y
    <2>3. /\ y \in Searches(n) /\ y.k = x.k /\ y.a = x.a /\ y.front = x.front /\ y.fwd = x.fwd
          /\ y.mark = x.mark /\ y.seen = x.seen /\ y.rear = Front(x.rear) /\ y.back = x.back
          /\ y.outcome = "none"
      BY <1>1, <2>1, <2>2 DEF Searches
    <2>4. \A q \in DOMAIN y.rear : y.rear[q][1] \in y.back
      <3>1. ASSUME NEW q \in DOMAIN Front(x.rear)
            PROVE  Front(x.rear)[q][1] \in x.back
        <4>1. q \in DOMAIN x.rear /\ Front(x.rear)[q] = x.rear[q]
          BY <1>1, <1>5, <3>1, PoppedTop
        <4>2. QED
          BY <1>1, <4>1 DEF FoundBackward
      <3>2. QED
        BY <2>3, <3>1
    <2>5. ASSUME NEW w \in y.back, NEW f \in DOMAIN ins[w]
          PROVE  BackwardDone(o, y, ins[w][f]) \/ ToLookAt(y.rear, w, f)
      <3>1. BackwardDone(o, x, ins[w][f]) \/ ToLookAt(x.rear, w, f)
        BY <1>1, <2>3, <2>5 DEF FoundBackward
      <3>2. f \in Nat /\ (w = v => f <= top[2])
        <4>1. w \in 1..n
          BY <1>1, <2>3, <2>5
        <4>2. ins[w] \in Seq(0..n)
          BY <4>1
        <4>3. f \in 1..Len(ins[w]) /\ Len(ins[w]) \in Nat
          BY <2>5, <4>2
        <4>4. top[2] \in Nat
          BY <1>4, <1>5
        <4> HIDE DEF v, top
        <4>5. QED
          BY <1>5, <4>3, <4>4
      <3>3. ToLookAt(x.rear, w, f) => ToLookAt(y.rear, w, f)
        BY <1>1, <1>5, <2>3, <3>2, PoppedLeaves
      <3>4. QED
        BY <2>3, <3>1, <3>3 DEF BackwardDone
    <2>6. FoundBackward(o, reads, ins, y)
      BY <1>1, <2>3, <2>4, <2>5 DEF FoundBackward, Below
    <2>7. Told(reads, y)
      BY <2>3 DEF Told
    <2>8. Found(o, reads, ins, y)
      BY <2>3, <2>6, <2>7, BackwardFound
    <2>9. QED
      BY <2>8 DEF y
  <1>6. ASSUME x.rear # <<>>, e <= Len(in)
        PROVE  /\ e \in DOMAIN in /\ j \in 0..n
               /\ j # 0 => j \in DependsOn(reads, {x.a})
    <2>1. e \in DOMAIN in /\ v \in 1..n
      BY <1>4, <1>6
    <2>2. j \in 0..n /\ (j # 0 => j \in reads[v])
      BY <1>4, <1>6, <2>1
    <2>3. v \in DependsOn(reads, {x.a})
      BY <1>1, <1>4, <1>6 DEF FoundBackward, Below
    <2> HIDE DEF v, j
    <2>4. QED
      BY <1>1, <2>1, <2>2, <2>3, DependsOnwards
  <1>7. CASE x.rear # <<>> /\ e <= Len(in) /\ j = x.k
    <2>1. y = [x EXCEPT !.outcome = "cycle"]
      BY <1>2, <1>4, <1>7
    <2> HIDE DEF y
    <2>2. /\ y \in Searches(n) /\ y.k = x.k /\ y.a = x.a /\ y.front = x.front /\ y.fwd = x.fwd
          /\ y.mark = x.mark /\ y.seen = x.seen /\ y.rear = x.rear /\ y.back = x.back
          /\ y.outcome = "cycle"
      BY <1>1, <2>1 DEF Searches
    <2>3. FoundBackward(o, reads, ins, y)
      BY <1>1, <2>2 DEF FoundBackward, Below, BackwardDone
    <2>4. Told(reads, y)
      BY <1>1, <1>6, <1>7, <2>2 DEF Told
    <2>5. Found(o, reads, ins, y)
      BY <2>2, <2>3, <2>4, BackwardFound
    <2>6. QED
      BY <2>5 DEF y
  <1>8. ASSUME x.rear # <<>>
        PROVE  /\ Bumped(x.rear) \in Seq((1..n) \X Nat)
               /\ \A q \in DOMAIN Bumped(x.rear) : Bumped(x.rear)[q][1] \in x.back
               /\ \A w \in x.back : \A f \in DOMAIN ins[w] :
                     \/ BackwardDone(o, x, ins[w][f])
                     \/ ToLookAt(Bumped(x.rear), w, f)
                     \/ w = v /\ f = e
    <2>1. Bumped(x.rear) \in Seq((1..n) \X Nat)
      BY <1>1, <1>8, BumpedTop
    <2>2. ASSUME NEW q \in DOMAIN Bumped(x.rear)
          PROVE  Bumped(x.rear)[q][1] \in x.back
      <3>1. q \in DOMAIN x.rear
        BY <1>1, <1>8, <2>2, BumpedTop
      <3>2. CASE q = Len(x.rear)
        <4>1. Bumped(x.rear)[q] = <<x.rear[q][1], x.rear[q][2] + 1>>
          BY <1>1, <1>8, <3>2, BumpedTop
        <4>2. x.rear[q][1] \in x.back
          BY <1>1, <3>1 DEF FoundBackward
        <4>3. QED
          BY <4>1, <4>2
      <3>3. CASE q # Len(x.rear)
        <4>1. Bumped(x.rear)[q] = x.rear[q]
          BY <1>1, <1>8, <3>1, <3>3, BumpedTop
        <4>2. x.rear[q][1] \in x.back
          BY <1>1, <3>1 DEF FoundBackward
        <4>3. QED
          BY <4>1, <4>2
      <3>4. QED
        BY <3>2, <3>3
    <2>3. ASSUME NEW w \in x.back, NEW f \in DOMAIN ins[w]
          PROVE  \/ BackwardDone(o, x, ins[w][f])
                 \/ ToLookAt(Bumped(x.rear), w, f)
                 \/ w = v /\ f = e
      <3>1. BackwardDone(o, x, ins[w][f]) \/ ToLookAt(x.rear, w, f)
        BY <1>1, <2>3 DEF FoundBackward
      <3>2. f \in Nat
        <4>1. ins[w] \in Seq(0..n)
          BY <1>1, <2>3
        <4>2. QED
          BY <2>3, <4>1
      <3>3. ToLookAt(x.rear, w, f) /\ ~(w = v /\ f = e) => ToLookAt(Bumped(x.rear), w, f)
        BY <1>1, <1>8, <3>2, BumpedLeaves
      <3>4. QED
        BY <3>1, <3>3
    <2>4. QED
      BY <2>1, <2>2, <2>3
  <1>9. CASE /\ x.rear # <<>> /\ e <= Len(in) /\ j # x.k
             /\ j \in 1..n /\ x.seen[j] # x.mark + 1 /\ o.label[j] > o.label[x.k]
    <2> DEFINE seen == [x.seen EXCEPT ![j] = x.mark + 1]
               back == x.back \cup {j}
    <2>1. y = [x EXCEPT !.rear = push, !.turn = "f", !.seen = seen, !.back = back]
      <3> HIDE DEF e, in, j, push
      <3>1. ~(e > Len(in))
        BY <1>4, <1>9
      <3>2. DOMAIN x.seen = 1..n
        BY <1>1
      <3>3. QED
        BY <1>2, <1>9, <3>1, <3>2
    <2>2. j \in 1..n
      BY <1>9
    <2> HIDE DEF j
    <2>3. /\ push \in Seq((1..n) \X Nat)
          /\ DOMAIN push = DOMAIN Bumped(x.rear) \cup {Len(Bumped(x.rear)) + 1}
          /\ push[Len(Bumped(x.rear)) + 1] = <<j, 0>>
          /\ \A q \in DOMAIN Bumped(x.rear) : push[q] = Bumped(x.rear)[q]
      <3>1. <<j, 0>> \in (1..n) \X Nat
        BY <2>2
      <3>2. Bumped(x.rear) \in Seq((1..n) \X Nat)
        BY <1>8, <1>9
      <3>3. QED
        BY <3>1, <3>2, Pushed, SMTT(30)
    <2>4. /\ seen \in [1..n -> Nat] /\ back \in SUBSET (1..n) /\ seen[j] = x.mark + 1
          /\ \A w \in 1..n : w # j => seen[w] = x.seen[w]
      <3>1. x.mark + 1 \in Nat
        BY <1>1
      <3>2. QED
        BY <1>1, <2>2, <3>1
    <2> HIDE DEF y, push, seen, back
    <2>5. /\ y \in Searches(n) /\ y.k = x.k /\ y.a = x.a /\ y.front = x.front /\ y.fwd = x.fwd
          /\ y.mark = x.mark /\ y.seen = seen /\ y.rear = push /\ y.back = back
          /\ y.outcome = "none"
      BY <1>1, <2>1, <2>3, <2>4 DEF Searches
    <2>6. \A q \in DOMAIN y.rear : y.rear[q][1] \in y.back
      BY <1>8, <1>9, <2>3, <2>5, SMTT(30) DEF back
    <2>7. ASSUME NEW w \in y.back, NEW f \in DOMAIN ins[w]
          PROVE  BackwardDone(o, y, ins[w][f]) \/ ToLookAt(y.rear, w, f)
      <3>1. CASE w = j
        <4>1. ins[w] \in Seq(0..n)
          BY <1>1, <2>2, <3>1
        <4>2. f \in Nat \ {0}
          BY <2>7, <4>1
        <4> DEFINE q == Len(Bumped(x.rear)) + 1
        <4>3. q \in DOMAIN push /\ push[q][1] = j /\ push[q][2] = 0
          BY <2>3
        <4> HIDE DEF q
        <4>4. ToLookAt(push, w, f)
          BY <3>1, <4>2, <4>3 DEF ToLookAt
        <4>5. QED
          BY <2>5, <4>4
      <3>2. CASE w # j
        <4>1. w \in x.back
          BY <2>5, <3>2 DEF back
        <4>2. \/ BackwardDone(o, x, ins[w][f])
              \/ ToLookAt(Bumped(x.rear), w, f)
              \/ w = v /\ f = e
          BY <1>8, <1>9, <2>7, <4>1
        <4>3. BackwardDone(o, x, ins[w][f]) => BackwardDone(o, y, ins[w][f])
          BY <2>5 DEF BackwardDone, back
        <4>4. ToLookAt(Bumped(x.rear), w, f) => ToLookAt(y.rear, w, f)
          BY <2>3, <2>5 DEF ToLookAt
        <4>5. w = v /\ f = e => BackwardDone(o, y, ins[w][f])
          BY <1>9, <2>5 DEF BackwardDone, back, j
        <4>6. QED
          BY <4>2, <4>3, <4>4, <4>5
      <3>3. QED
        BY <3>1, <3>2
    <2>8. /\ y.a \in y.back /\ y.back \subseteq Below(o, reads, y)
          /\ \A w \in 1..n : y.seen[w] = y.mark + 1 => w \in y.back
      <3>1. j \in DependsOn(reads, {x.a}) /\ o.label[j] > o.label[x.k]
        <4>1. j # 0
          BY <2>2
        <4> HIDE DEF e, in
        <4>2. QED
          BY <1>6, <1>9, <4>1
      <3>2. QED
        BY <1>1, <2>2, <2>4, <2>5, <3>1 DEF FoundBackward, Below, back
    <2>9. FoundBackward(o, reads, ins, y)
      BY <2>6, <2>7, <2>8 DEF FoundBackward
    <2>10. Told(reads, y) /\ \A w \in 1..n : y.seen[w] = x.mark => x.seen[w] = x.mark
      <3>1. x.mark # x.mark + 1
        BY <1>1
      <3>2. Told(reads, y)
        BY <2>5 DEF Told
      <3>3. QED
        BY <2>4, <2>5, <3>1, <3>2
    <2>11. Found(o, reads, ins, y)
      BY <2>5, <2>9, <2>10, BackwardFound
    <2>12. QED
      BY <2>11 DEF y
  <1>10. CASE /\ x.rear # <<>> /\ e <= Len(in) /\ j # x.k
              /\ ~(j \in 1..n /\ x.seen[j] # x.mark + 1 /\ o.label[j] > o.label[x.k])
    <2>1. y = [x EXCEPT !.rear = Bumped(x.rear), !.turn = "f"]
      <3> HIDE DEF e, in, j, push
      <3>1. ~(e > Len(in))
        BY <1>4, <1>10
      <3>2. QED
        BY <1>2, <1>10, <3>1
    <2> HIDE DEF y
    <2>2. /\ y \in Searches(n) /\ y.k = x.k /\ y.a = x.a /\ y.front = x.front /\ y.fwd = x.fwd
          /\ y.mark = x.mark /\ y.seen = x.seen /\ y.rear = Bumped(x.rear) /\ y.back = x.back
          /\ y.outcome = "none"
      BY <1>1, <1>8, <1>10, <2>1 DEF Searches
    <2>3. ASSUME NEW w \in y.back, NEW f \in DOMAIN ins[w]
          PROVE  BackwardDone(o, y, ins[w][f]) \/ ToLookAt(y.rear, w, f)
      <3>1. \/ BackwardDone(o, x, ins[w][f])
            \/ ToLookAt(Bumped(x.rear), w, f)
            \/ w = v /\ f = e
        BY <1>8, <1>10, <2>2, <2>3
      <3>2. BackwardDone(o, x, j)
        <4>1. j \in 0..n
          BY <1>6, <1>10
        <4> HIDE DEF j
        <4>2. j # 0 => j \in 1..n
          BY <1>1, <4>1
        <4>3. QED
          BY <1>1, <1>10, <4>2 DEF BackwardDone, FoundBackward
      <3> HIDE DEF v, e
      <3>3. BackwardDone(o, x, ins[w][f]) \/ ToLookAt(y.rear, w, f)
        BY <2>2, <3>1, <3>2
      <3>4. QED
        BY <2>2, <3>3 DEF BackwardDone
    <2>4. FoundBackward(o, reads, ins, y)
      BY <1>1, <1>8, <1>10, <2>2, <2>3 DEF FoundBackward, Below
    <2>5. Told(reads, y)
      BY <2>2 DEF Told
    <2>6. Found(o, reads, ins, y)
      BY <2>2, <2>4, <2>5, BackwardFound
    <2>7. QED
      BY <2>6 DEF y
  <1>11. x.rear # <<>> => e <= Len(in) \/ e > Len(in)
    BY <1>4
  <1>12. QED
    BY <1>3, <1>5, <1>7, <1>9, <1>10, <1>11

------------------------------------------------------------------------------
(* The ends of a search                                                     *)

\* Two instructions have two labels.
LEMMA LabelsDiffer ==
    ASSUME NEW o, NEW reads, o.n \in Nat, o \in Orders(o.n), OrderOf(o, reads),
           NEW i \in 1..o.n, NEW j \in 1..o.n, i # j
    PROVE  /\ o.label[i] # o.label[j]
           /\ o.label[i] \in Int /\ o.label[j] \in Int
  <1>1. /\ o.label \in [0..(o.n + 1) -> 0..MaxLabel] /\ o.list \in Seq(0..(o.n + 1))
        /\ ToSet(o.list) = 0..(o.n + 1)
        /\ \A q, r \in DOMAIN o.list : q < r => o.label[o.list[q]] < o.label[o.list[r]]
    BY DEF Orders, OrderOf
  <1>2. i \in 0..(o.n + 1) /\ j \in 0..(o.n + 1)
    OBVIOUS
  <1>3. PICK q \in DOMAIN o.list : o.list[q] = i
    BY <1>1, <1>2 DEF ToSet
  <1>4. PICK r \in DOMAIN o.list : o.list[r] = j
    BY <1>1, <1>2 DEF ToSet
  <1>5. o.label[i] \in Int /\ o.label[j] \in Int
    <2>1. o.label \in [0..(o.n + 1) -> 0..MaxLabel]
      BY DEF Orders
    <2>2. QED
      BY <1>2, <2>1
  <1>6. q < r \/ r < q
    <2>1. q \in Nat /\ r \in Nat
      BY <1>1, <1>3, <1>4
    <2>2. QED
      BY <1>3, <1>4, <2>1
  <1>7. o.label[i] < o.label[j] \/ o.label[j] < o.label[i]
    BY <1>1, <1>3, <1>4, <1>6
  <1>8. QED
    BY <1>5, <1>7

\* What is read has a smaller label.
LEMMA LabelsFall ==
    ASSUME NEW o, NEW reads, o.n \in Nat, o \in Orders(o.n), OrderOf(o, reads),
           reads \in [1..o.n -> SUBSET (1..o.n)], NEW i \in 1..o.n, NEW j \in reads[i]
    PROVE  /\ j \in 1..o.n /\ o.label[j] < o.label[i]
           /\ o.label[i] \in Int /\ o.label[j] \in Int
  <1>1. j \in 1..o.n /\ o.label[j] < o.label[i]
    BY DEF OrderOf
  <1>2. i \in 0..(o.n + 1) /\ j \in 0..(o.n + 1)
    BY <1>1
  <1>3. o.label \in [0..(o.n + 1) -> 0..MaxLabel]
    BY DEF Orders
  <1>4. QED
    BY <1>1, <1>2, <1>3

\* A search starts with its two ends found, no mark of an earlier one among
\* its own (topo.rs:171-190).
LEMMA SearchFound ==
    ASSUME NEW o, NEW reads, NEW ins, o.n \in Nat, o \in Orders(o.n), OrderOf(o, reads),
           reads \in [1..o.n -> SUBSET (1..o.n)], ins \in [1..o.n -> Seq(0..o.n)],
           NEW k0 \in 1..o.n, NEW a \in 1..o.n, a # k0, ~Before(o, a, k0)
    PROVE  Found(o, reads, ins, Search(o, k0, a))
  <1> DEFINE n == o.n
             mark == Stamped(o).stamp
             seen == [Stamped(o).seen EXCEPT ![k0] = mark, ![a] = mark + 1]
             x == Search(o, k0, a)
  <1>1. o.label[k0] < o.label[a]
    <2>1. o.label[k0] # o.label[a] /\ o.label[k0] \in Int /\ o.label[a] \in Int
      BY LabelsDiffer
    <2>2. ~(a > n)
      OBVIOUS
    <2>3. QED
      BY <2>1, <2>2 DEF Before
  <1>2. /\ mark \in Nat /\ Stamped(o).seen \in [1..n -> Nat]
        /\ \A w \in 1..n : Stamped(o).seen[w] < mark
    <2>1. o.stamp \in Nat /\ o.seen \in [1..n -> Nat] /\ \A w \in 1..n : o.seen[w] <= o.stamp + 1
      BY DEF Orders, OrderOf
    <2>2. CASE o.stamp > MaxStamp - 4
      <3>1. Stamped(o).stamp = 2 /\ Stamped(o).seen = [w \in DOMAIN o.seen |-> 0]
        BY <2>2 DEF Stamped, Orders
      <3>2. QED
        BY <2>1, <3>1
    <2>3. CASE ~(o.stamp > MaxStamp - 4)
      <3>1. Stamped(o).stamp = o.stamp + 2 /\ Stamped(o).seen = o.seen
        BY <2>3 DEF Stamped, Orders
      <3>2. ASSUME NEW w \in 1..n
            PROVE  o.seen[w] < o.stamp + 2
        <4>1. o.seen[w] \in Nat
          BY <2>1, <3>2
        <4>2. o.seen[w] <= o.stamp + 1
          BY <2>1, <3>2
        <4>3. QED
          BY <2>1, <4>1, <4>2
      <3>3. QED
        BY <2>1, <3>1, <3>2
    <2>4. QED
      BY <2>2, <2>3
  <1>3. x = [k |-> k0, a |-> a, front |-> <<<<k0, 0>>>>, rear |-> <<<<a, 0>>>>, fwd |-> {k0},
             back |-> {a}, mark |-> mark, seen |-> seen, turn |-> "f", outcome |-> "none"]
    BY DEF Search
  <1> HIDE DEF mark
  <1>4. /\ seen \in [1..n -> Nat] /\ \A w \in 1..n : seen[w] = mark => w = k0
        /\ \A w \in 1..n : seen[w] = mark + 1 => w = a
    <2>1. mark + 1 \in Nat /\ mark + 1 # mark
      BY <1>2
    <2>2. seen \in [1..n -> Nat]
      BY <1>2, <2>1
    <2>3. seen[a] = mark + 1 /\ seen[k0] = mark
      BY <1>2
    <2>4. ASSUME NEW w \in 1..n, w # a, w # k0
          PROVE  seen[w] # mark /\ seen[w] # mark + 1
      <3>1. seen[w] = Stamped(o).seen[w] /\ Stamped(o).seen[w] \in Nat
        BY <1>2, <2>4
      <3>2. QED
        BY <1>2, <3>1
    <2>5. QED
      BY <2>1, <2>2, <2>3, <2>4
  <1> HIDE DEF seen, x
  <1>5. /\ x \in Searches(n) /\ x.k = k0 /\ x.a = a /\ x.front = <<<<k0, 0>>>>
        /\ x.rear = <<<<a, 0>>>> /\ x.fwd = {k0} /\ x.back = {a} /\ x.mark = mark /\ x.seen = seen
        /\ x.outcome = "none"
    <2>1. /\ <<<<k0, 0>>>> \in Seq((1..n) \X Nat) /\ <<<<a, 0>>>> \in Seq((1..n) \X Nat)
          /\ {k0} \in SUBSET (1..n) /\ {a} \in SUBSET (1..n)
      OBVIOUS
    <2>2. QED
      BY <1>2, <1>3, <1>4, <2>1 DEF Searches
  <1>6. FoundForward(o, reads, x)
    <2>1. k0 \in DependsOn(reads, {k0})
      BY DependsOnItself
    <2>2. ASSUME NEW e \in DOMAIN Readers(o, k0)
          PROVE  ToLookAt(x.front, k0, e)
      <3>1. e \in Nat \ {0}
        <4>1. Readers(o, k0) \in Seq(1..n)
          BY ReadersRead
        <4>2. QED
          BY <2>2, <4>1
      <3>2. QED
        BY <1>5, <3>1 DEF ToLookAt
    <2>3. \A q \in DOMAIN x.front : x.front[q][1] \in x.fwd
      BY <1>5
    <2>4. QED
      BY <1>1, <1>4, <1>5, <2>1, <2>2, <2>3 DEF FoundForward, Above
  <1>7. FoundBackward(o, reads, ins, x)
    <2>1. a \in DependsOn(reads, {a})
      BY DependsOnItself
    <2>2. ASSUME NEW e \in DOMAIN ins[a]
          PROVE  ToLookAt(x.rear, a, e)
      <3>1. e \in Nat \ {0}
        BY <2>2
      <3>2. QED
        BY <1>5, <3>1 DEF ToLookAt
    <2>3. \A q \in DOMAIN x.rear : x.rear[q][1] \in x.back
      BY <1>5
    <2>4. o.label[a] > o.label[k0]
      BY <1>1
    <2>5. QED
      BY <1>4, <1>5, <2>1, <2>2, <2>3, <2>4 DEF FoundBackward, Below
  <1>8. QED
    BY <1>1, <1>5, <1>6, <1>7 DEF Found, Told, x

\* What ends before the kernel does not depend on it.
LEMMA BeforeIsFree ==
    ASSUME NEW o, NEW reads, o.n \in Nat, o \in Orders(o.n), OrderOf(o, reads),
           reads \in [1..o.n -> SUBSET (1..o.n)],
           NEW k0 \in 1..o.n, NEW a \in 1..o.n, Before(o, a, k0)
    PROVE  k0 \notin DependsOn(reads, {a})
  <1> DEFINE C == {j \in 1..o.n : o.label[j] <= o.label[a]}
  <1>1. o.label[a] < o.label[k0] /\ o.label[a] \in Int /\ o.label[k0] \in Int
    <2>1. a \in 0..(o.n + 1) /\ k0 \in 0..(o.n + 1)
      OBVIOUS
    <2>2. o.label \in [0..(o.n + 1) -> 0..MaxLabel]
      BY DEF Orders
    <2>3. ~(a > o.n)
      OBVIOUS
    <2>4. QED
      BY <2>1, <2>2, <2>3 DEF Before
  <1>2. a \in C /\ k0 \notin C /\ C \in SUBSET DOMAIN reads
    BY <1>1
  <1>3. ASSUME NEW i \in C, NEW j \in reads[i]
        PROVE  j \in C
    BY <1>1, <1>3, LabelsFall
  <1>4. Closed(reads, C)
    <2>1. \A i \in C : reads[i] \subseteq C
      BY <1>3
    <2>2. QED
      BY <2>1 DEF Closed
  <1> HIDE DEF C
  <1>5. QED
    BY <1>2, <1>4, DependsWithin

------------------------------------------------------------------------------
(* The answers                                                              *)

\* A label is a number.
LEMMA LabelsOfAll ==
    ASSUME NEW o, o.n \in Nat, o \in Orders(o.n)
    PROVE  \A i \in 1..o.n : o.label[i] \in Int
  <1>1. o.label \in [0..(o.n + 1) -> 0..MaxLabel]
    BY DEF Orders
  <1>2. QED
    BY <1>1

\* The forward side has run out: what it found is all that leads from the
\* kernel to below the accumulator, and no way leads to that.
LEMMA ForwardAnswer ==
    ASSUME NEW o, NEW reads, NEW ins, o.n \in Nat, o \in Orders(o.n), OrderOf(o, reads),
           reads \in [1..o.n -> SUBSET (1..o.n)],
           NEW x, Found(o, reads, ins, x), x.outcome = "forward"
    PROVE  /\ x.k \notin DependsOn(reads, {x.a})
           /\ x.fwd = Above(o, reads, x)
  <1> DEFINE n == o.n
  <1>1. /\ x.front = <<>> /\ x.k \in 1..n /\ x.a \in 1..n /\ x.k \in x.fwd
        /\ x.fwd \subseteq Above(o, reads, x) /\ x.fwd \subseteq 1..n
    BY DEF Found, Told, FoundForward, Searches
  <1>2. ASSUME NEW i \in 1..n, NEW j \in reads[i], j \in x.fwd
        PROVE  i # x.a /\ (o.label[i] < o.label[x.a] => i \in x.fwd)
    <2>1. j \in 1..n
      BY <1>1, <1>2
    <2>2. PICK e \in DOMAIN Readers(o, j) : Readers(o, j)[e] = i
      <3>1. \A m \in 1..n : j \in reads[m] =>
              \E f \in DOMAIN Readers(o, j) : Readers(o, j)[f] = m
        BY <2>1, ReadersRead
      <3>2. QED
        BY <1>2, <3>1
    <2>3. ~ToLookAt(x.front, j, e)
      BY <1>1 DEF ToLookAt
    <2>4. ForwardDone(o, x, Readers(o, j)[e])
      BY <1>2, <2>3 DEF Found, FoundForward
    <2>5. QED
      BY <2>2, <2>4 DEF ForwardDone
  <1>3. x.k \notin DependsOn(reads, {x.a})
    <2> DEFINE C == {j \in 1..n : j \notin x.fwd /\ o.label[j] <= o.label[x.a]}
    <2>1. x.a \in C
      <3>1. x.a \notin x.fwd
        <4>1. o.label[x.a] \in Int
          BY <1>1, LabelsOfAll
        <4>2. \A v \in x.fwd : o.label[v] < o.label[x.a]
          BY <1>1 DEF Above
        <4>3. ~(o.label[x.a] < o.label[x.a])
          BY <4>1
        <4>4. QED
          BY <4>2, <4>3
      <3>2. o.label[x.a] \in Int
        BY <1>1, LabelsOfAll
      <3>3. QED
        BY <1>1, <3>1, <3>2
    <2>2. ASSUME NEW i \in C, NEW j \in reads[i]
          PROVE  j \in C
      <3>1. /\ j \in 1..n /\ o.label[j] < o.label[i] /\ i \in 1..n /\ i \notin x.fwd
            /\ o.label[i] \in Int /\ o.label[j] \in Int /\ o.label[i] <= o.label[x.a]
        BY <2>2, LabelsFall
      <3>2. o.label[x.a] \in Int
        BY <1>1, LabelsOfAll
      <3>3. j \notin x.fwd
        <4>1. SUFFICES ASSUME j \in x.fwd
                       PROVE  FALSE
          OBVIOUS
        <4>2. i # x.a /\ ~(o.label[i] < o.label[x.a])
          BY <1>2, <2>2, <3>1, <4>1
        <4>3. o.label[i] # o.label[x.a]
          BY <1>1, <3>1, <4>2, LabelsDiffer
        <4>4. QED
          BY <3>1, <3>2, <4>2, <4>3
      <3>4. QED
        BY <3>1, <3>2, <3>3
    <2>3. Closed(reads, C)
      <3>1. \A i \in C : reads[i] \subseteq C
        BY <2>2
      <3>2. QED
        BY <3>1 DEF Closed
    <2>4. C \in SUBSET DOMAIN reads /\ x.k \notin C
      BY <1>1
    <2> HIDE DEF C
    <2>5. QED
      BY <2>1, <2>3, <2>4, DependsWithin
  <1>4. ASSUME NEW j \in 1..n, x.k \in DependsOn(reads, {j}), o.label[j] < o.label[x.a]
        PROVE  j \in x.fwd
    <2> DEFINE C == {i \in 1..n : i \notin x.fwd /\ o.label[i] < o.label[x.a]}
    <2>1. SUFFICES ASSUME j \notin x.fwd
                   PROVE  FALSE
      OBVIOUS
    <2>2. j \in C
      BY <1>4, <2>1
    <2>3. ASSUME NEW i \in C, NEW m \in reads[i]
          PROVE  m \in C
      <3>1. /\ m \in 1..n /\ o.label[m] < o.label[i] /\ i \in 1..n /\ i \notin x.fwd
            /\ o.label[i] \in Int /\ o.label[m] \in Int /\ o.label[i] < o.label[x.a]
        BY <2>3, LabelsFall
      <3>2. o.label[x.a] \in Int
        BY <1>1, LabelsOfAll
      <3>3. m \notin x.fwd
        BY <1>2, <2>3, <3>1
      <3>4. QED
        BY <3>1, <3>2, <3>3
    <2>4. Closed(reads, C)
      <3>1. \A i \in C : reads[i] \subseteq C
        BY <2>3
      <3>2. QED
        BY <3>1 DEF Closed
    <2>5. C \in SUBSET DOMAIN reads /\ x.k \notin C
      BY <1>1
    <2> HIDE DEF C
    <2>6. QED
      BY <1>4, <2>2, <2>4, <2>5, DependsWithin
  <1>5. QED
    BY <1>1, <1>3, <1>4 DEF Above

\* The backward side has run out: what it found is all of the accumulator's
\* that lies behind the kernel, which is none of it.
LEMMA BackwardAnswer ==
    ASSUME NEW o, NEW reads, NEW ins, o.n \in Nat, o \in Orders(o.n), OrderOf(o, reads),
           reads \in [1..o.n -> SUBSET (1..o.n)],
           NEW x, Found(o, reads, ins, x), x.outcome = "backward",
           \A i \in 1..o.n : i # x.k => \A j \in reads[i] : \E e \in DOMAIN ins[i] : ins[i][e] = j
    PROVE  /\ x.k \notin DependsOn(reads, {x.a})
           /\ x.back = Below(o, reads, x)
  <1> DEFINE n == o.n
             X == x.back \cup {j \in 1..n : o.label[j] <= o.label[x.k] /\ j # x.k}
  <1>1. /\ x.rear = <<>> /\ x.k \in 1..n /\ x.a \in x.back
        /\ x.back \subseteq Below(o, reads, x) /\ x.back \subseteq 1..n
        /\ FoundBackward(o, reads, ins, x)
    BY DEF Found, Told, FoundBackward, Searches
  <1>2. o.label[x.k] \in Int
    BY <1>1, LabelsOfAll
  <1>3. x.k \notin X
    BY <1>1, <1>2 DEF Below
  <1>4. ASSUME NEW i \in X, NEW j \in reads[i]
        PROVE  j \in X
    <2>1. i \in 1..n
      BY <1>1, <1>4
    <2>2. /\ j \in 1..n /\ o.label[j] < o.label[i] /\ o.label[i] \in Int /\ o.label[j] \in Int
      BY <1>4, <2>1, LabelsFall
    <2>3. CASE i \in x.back
      <3>1. PICK e \in DOMAIN ins[i] : ins[i][e] = j
        BY <1>3, <1>4, <2>1
      <3>2. ~ToLookAt(x.rear, i, e)
        BY <1>1 DEF ToLookAt
      <3>3. BackwardDone(o, x, j)
        BY <1>1, <2>3, <3>1, <3>2 DEF FoundBackward
      <3>4. j # x.k /\ (o.label[j] > o.label[x.k] => j \in x.back)
        BY <2>2, <3>3 DEF BackwardDone
      <3>5. QED
        BY <1>2, <2>2, <3>4
    <2>4. CASE i \notin x.back
      <3>1. o.label[i] <= o.label[x.k]
        BY <1>4, <2>4
      <3>2. QED
        BY <1>2, <2>2, <3>1
    <2>5. QED
      BY <2>3, <2>4
  <1>5. Closed(reads, X)
    <2>1. \A i \in X : reads[i] \subseteq X
      BY <1>4
    <2>2. QED
      BY <2>1 DEF Closed
  <1>6. X \in SUBSET DOMAIN reads /\ x.a \in X
    BY <1>1
  <1>7. DependsOn(reads, {x.a}) \subseteq X
    <2> HIDE DEF X
    <2>1. QED
      BY <1>5, <1>6, DependsWithin
  <1>8. ASSUME NEW j \in DependsOn(reads, {x.a}), o.label[j] > o.label[x.k]
        PROVE  j \in x.back
    <2>1. j \in 1..n
      BY DEF DependsOn
    <2>2. o.label[j] \in Int
      BY <2>1, LabelsOfAll
    <2>3. ~(o.label[j] <= o.label[x.k])
      <3> HIDE DEF X
      <3>1. QED
        BY <1>2, <1>8, <2>2
    <2>4. j \in X
      <3> HIDE DEF X
      <3>1. QED
        BY <1>7, <1>8
    <2>5. QED
      BY <2>3, <2>4
  <1>9. QED
    BY <1>1, <1>3, <1>7, <1>8 DEF Below

\* An edge looked at leaves the question as it was.
LEMMA SameQuestion ==
    ASSUME NEW n, NEW x \in Searches(n), NEW o, NEW ins
    PROVE  /\ ForwardEdge(o, x).k = x.k /\ ForwardEdge(o, x).a = x.a
           /\ BackwardEdge(o, ins, x).k = x.k /\ BackwardEdge(o, ins, x).a = x.a
  BY DEF ForwardEdge, BackwardEdge, Searches

------------------------------------------------------------------------------
(* The order and its searches                                               *)

\* What is read is an operand that is a value.
LEMMA ReadsAreValues ==
    ASSUME NEW inst, NEW j
    PROVE  j \in Reads(inst) <=>
             \E e \in DOMAIN inst.ins : IsValue(inst.ins[e]) /\ inst.ins[e][2] = j
  BY DEF Reads

\* An operand other than an input is read, and a read is an operand, but for
\* what the kernel has taken.
LEMMA OperandsAreRead ==
    ASSUME TypeOK
    PROVE  /\ \A w \in 1..t.n : \A e \in DOMAIN Operands(p)[w] :
                 Operands(p)[w][e] # 0 => Operands(p)[w][e] \in Sources[w]
           /\ \A i \in 1..t.n : i # k => \A j \in Sources[i] :
                 \E e \in DOMAIN Operands(p)[i] : Operands(p)[i][e] = j
  <1> DEFINE ins(w) == p.insts[w].ins
  <1>1. DOMAIN p.insts = 1..t.n
    BY DEF TypeOK
  <1>2. ASSUME NEW w \in 1..t.n
        PROVE  /\ Operands(p)[w] = [a \in DOMAIN ins(w) |->
                                      IF IsValue(ins(w)[a]) THEN ins(w)[a][2] ELSE 0]
               /\ Sources[w] = Reads(p.insts[w]) \cup IF w = k THEN taken ELSE {}
    BY <1>1, <1>2 DEF Operands, Sources
  <1> HIDE DEF ins
  <1>3. ASSUME NEW w \in 1..t.n, NEW e \in DOMAIN Operands(p)[w], Operands(p)[w][e] # 0
        PROVE  Operands(p)[w][e] \in Sources[w]
    <2>1. Operands(p)[w] = [a \in DOMAIN ins(w) |->
                              IF IsValue(ins(w)[a]) THEN ins(w)[a][2] ELSE 0]
      BY <1>2
    <2>2. e \in DOMAIN ins(w) /\ IsValue(ins(w)[e]) /\ Operands(p)[w][e] = ins(w)[e][2]
      BY <1>3, <2>1
    <2>3. ins(w)[e][2] \in Reads(p.insts[w])
      BY <2>2, ReadsAreValues DEF ins
    <2>4. QED
      BY <1>2, <2>2, <2>3
  <1>4. ASSUME NEW i \in 1..t.n, i # k, NEW j \in Sources[i]
        PROVE  \E e \in DOMAIN Operands(p)[i] : Operands(p)[i][e] = j
    <2>1. j \in Reads(p.insts[i])
      BY <1>2, <1>4
    <2>2. PICK e \in DOMAIN ins(i) : IsValue(ins(i)[e]) /\ ins(i)[e][2] = j
      BY <2>1, ReadsAreValues DEF ins
    <2>3. Operands(p)[i] = [a \in DOMAIN ins(i) |->
                              IF IsValue(ins(i)[a]) THEN ins(i)[a][2] ELSE 0]
      BY <1>2
    <2>4. e \in DOMAIN Operands(p)[i] /\ Operands(p)[i][e] = j
      BY <2>2, <2>3
    <2>5. QED
      BY <2>4
  <1>5. QED
    BY <1>3, <1>4

\* What the search found tells the truth.
LEMMA FoundAnswers ==
    ASSUME OrderSound, SearchOK
    PROVE  AnswerExact
  <1>1. SUFFICES ASSUME s # <<>>, s.outcome # "none"
                 PROVE  /\ (s.outcome = "cycle") = (s.k \in DependsOn(Sources, {s.a}))
                        /\ s.outcome = "backward" =>
                             s.back = {j \in DependsOn(Sources, {s.a}) : t.label[j] > t.label[s.k]}
                        /\ s.outcome = "forward" =>
                             s.fwd = {j \in 1..t.n : s.k \in DependsOn(Sources, {j})
                                                     /\ t.label[j] < t.label[s.a]}
    BY DEF AnswerExact
  <1> DEFINE reads == Sources
             ins == Operands(p)
  <1>2. /\ t.n \in Nat /\ t \in Orders(t.n) /\ OrderOf(t, reads)
        /\ reads \in [1..t.n -> SUBSET (1..t.n)] /\ TypeOK
    BY DEF OrderSound, TypeOK
  <1>3. Found(t, reads, ins, s) /\ s.k = k
    BY <1>1 DEF SearchOK
  <1>4. s.outcome \in {"cycle", "forward", "backward"}
    BY <1>1, <1>3 DEF Found, Searches
  <1>5. \A i \in 1..t.n : i # s.k => \A j \in reads[i] : \E e \in DOMAIN ins[i] : ins[i][e] = j
    BY <1>2, <1>3, OperandsAreRead
  <1> HIDE DEF reads, ins
  <1>6. CASE s.outcome = "cycle"
    <2>1. s.k \in DependsOn(reads, {s.a})
      BY <1>3, <1>6 DEF Found, Told
    <2>2. QED
      BY <1>6, <2>1 DEF reads
  <1>7. CASE s.outcome = "forward"
    <2>1. /\ s.k \notin DependsOn(reads, {s.a})
          /\ s.fwd = Above(t, reads, s)
      BY <1>2, <1>3, <1>7, ForwardAnswer
    <2>2. QED
      BY <1>7, <2>1 DEF reads, Above
  <1>8. CASE s.outcome = "backward"
    <2>1. /\ s.k \notin DependsOn(reads, {s.a})
          /\ s.back = Below(t, reads, s)
      BY <1>2, <1>3, <1>5, <1>8, BackwardAnswer
    <2>2. QED
      BY <1>8, <2>1 DEF reads, Below
  <1>9. QED
    BY <1>4, <1>6, <1>7, <1>8

\* Every step keeps what a search found.
LEMMA SearchesKept ==
    ASSUME OrderSound, SearchOK, [Next]_vars
    PROVE  SearchOK'
  <1>1. /\ t.n \in Nat /\ t \in Orders(t.n) /\ OrderOf(t, Sources) /\ TypeOK
        /\ Sources \in [1..t.n -> SUBSET (1..t.n)] /\ Operands(p) \in [1..t.n -> Seq(0..t.n)]
        /\ k \in 1..t.n
    BY DEF OrderSound, TypeOK
  <1>2. ASSUME UNCHANGED <<p, t, k, taken>>
        PROVE  Sources' = Sources /\ Operands(p)' = Operands(p)
    BY <1>2 DEF Sources, Operands
  <1>3. CASE NextKernel
    BY <1>3 DEF NextKernel, SearchOK
  <1>4. ASSUME NEW a \in 1..t.n, Ask(a)
        PROVE  SearchOK'
    <2>1. CASE Before(t, a, k)
      BY <1>4, <2>1 DEF Ask, SearchOK
    <2>2. CASE ~Before(t, a, k)
      <3>1. /\ s' = Search(t, k, a) /\ UNCHANGED <<p, t, k, taken>> /\ a # k /\ a \notin taken
        BY <1>4, <2>2 DEF Ask
      <3>2. Found(t, Sources, Operands(p), Search(t, k, a))
        BY <1>1, <1>4, <2>2, <3>1, SearchFound
      <3>3. Search(t, k, a).k = k /\ Search(t, k, a).a = a
        BY DEF Search
      <3>4. QED
        BY <1>2, <3>1, <3>2, <3>3 DEF SearchOK
    <2>3. QED
      BY <2>1, <2>2
  <1>5. CASE Step
    <2>1. /\ s # <<>> /\ s.outcome = "none" /\ UNCHANGED <<p, t, k, taken>>
          /\ s' = ForwardEdge(t, s) \/ s' = BackwardEdge(t, Operands(p), s)
      BY <1>5 DEF Step
    <2>2. s.k = k /\ s.a \notin taken /\ Found(t, Sources, Operands(p), s)
      BY <2>1 DEF SearchOK
    <2>3. s \in Searches(t.n)
      BY <2>2 DEF Found
    <2>4. s'.k = s.k /\ s'.a = s.a
      BY <2>1, <2>3, SameQuestion
    <2>5. CASE s' = ForwardEdge(t, s)
      <3>1. Found(t, Sources, Operands(p), s')
        BY <1>1, <2>1, <2>2, <2>5, ForwardKeeps
      <3>2. QED
        BY <1>2, <2>1, <2>2, <2>4, <3>1 DEF SearchOK
    <2>6. CASE s' = BackwardEdge(t, Operands(p), s)
      <3>1. Found(t, Sources, Operands(p), s')
        BY <1>1, <2>1, <2>2, <2>6, OperandsAreRead, BackwardKeeps
      <3>2. QED
        BY <1>2, <2>1, <2>2, <2>4, <3>1 DEF SearchOK
    <2>7. QED
      BY <2>1, <2>5, <2>6
  <1>6. CASE Answer
    BY <1>6 DEF Answer, SearchOK
  <1>7. CASE UNCHANGED vars
    <2>1. UNCHANGED <<p, t, k, taken>> /\ s' = s
      BY <1>7 DEF vars
    <2>2. QED
      BY <1>2, <2>1 DEF SearchOK
  <1>8. QED
    BY <1>3, <1>4, <1>5, <1>6, <1>7 DEF Next

\* What a kernel takes does not depend on it: no cycle is made, by the labels
\* or by a search (topo.rs:160-262).
NoCycleTaken == [][\A a \in taken' \ taken : k \notin DependsOn(Sources, {a})]_vars

\* A search that leaves the accumulator out found a way back to the kernel: no
\* legal fusion is refused (topo.rs:212, 233).
RefusedForACycle ==
  [][s # <<>> /\ s' = <<>> /\ s.a \notin taken' => k \in DependsOn(Sources, {s.a})]_vars

\* What a step takes, and what it refuses.
LEMMA StepTakes ==
    ASSUME OrderSound, SearchOK, [Next]_vars
    PROVE  /\ \A a \in taken' \ taken : k \notin DependsOn(Sources, {a})
           /\ s # <<>> /\ s' = <<>> /\ s.a \notin taken' => k \in DependsOn(Sources, {s.a})
  <1>1. /\ t.n \in Nat /\ t \in Orders(t.n) /\ OrderOf(t, Sources)
        /\ Sources \in [1..t.n -> SUBSET (1..t.n)] /\ k \in 1..t.n
    BY DEF OrderSound, TypeOK
  <1>2. CASE NextKernel
    BY <1>2 DEF NextKernel
  <1>3. ASSUME NEW a \in 1..t.n, Ask(a)
        PROVE  s = <<>> /\ \A b \in taken' \ taken : k \notin DependsOn(Sources, {b})
    <2>1. CASE Before(t, a, k)
      <3>1. s = <<>> /\ taken' = taken \cup {a}
        BY <1>3, <2>1 DEF Ask
      <3>2. k \notin DependsOn(Sources, {a})
        BY <1>1, <2>1, BeforeIsFree
      <3>3. QED
        BY <3>1, <3>2
    <2>2. CASE ~Before(t, a, k)
      BY <1>3, <2>2 DEF Ask
    <2>3. QED
      BY <2>1, <2>2
  <1>4. CASE Step
    <2>1. taken' = taken /\ s # <<>> /\ s.outcome = "none"
          /\ s' = IF s.turn = "f" THEN ForwardEdge(t, s) ELSE BackwardEdge(t, Operands(p), s)
      BY <1>4 DEF Step
    <2>2. s' # <<>>
      <3>1. Found(t, Sources, Operands(p), s) /\ OrderSound
        BY <2>1 DEF SearchOK
      <3>2. Found(t, Sources, Operands(p), ForwardEdge(t, s))
        BY <1>1, <2>1, <3>1, ForwardKeeps
      <3>3. Found(t, Sources, Operands(p), BackwardEdge(t, Operands(p), s))
        BY <1>1, <2>1, <3>1, OperandsAreRead, BackwardKeeps DEF OrderSound, TypeOK
      <3>4. s' \in Searches(t.n)
        BY <2>1, <3>2, <3>3 DEF Found
      <3>5. "k" \in DOMAIN s'
        BY <3>4 DEF Searches
      <3>6. DOMAIN <<>> = {}
        OBVIOUS
      <3>7. QED
        BY <3>5, <3>6
    <2>3. QED
      BY <2>1, <2>2
  <1>5. CASE Answer
    <2>1. /\ s # <<>> /\ s.outcome # "none"
          /\ taken' = IF s.outcome = "cycle" THEN taken ELSE taken \cup {s.a}
      BY <1>5 DEF Answer
    <2>2. s.k = k /\ (s.outcome = "cycle") = (s.k \in DependsOn(Sources, {s.a}))
      BY <2>1, FoundAnswers DEF AnswerExact, SearchOK
    <2>3. QED
      BY <2>1, <2>2
  <1>6. CASE UNCHANGED vars
    BY <1>6 DEF vars
  <1>7. QED
    BY <1>2, <1>3, <1>4, <1>5, <1>6 DEF Next

==============================================================================
