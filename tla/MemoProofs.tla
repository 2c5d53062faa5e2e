----------------------------- MODULE MemoProofs -----------------------------
(***************************************************************************)
(* A memo tells what its own traversal put in, whoever had it before.      *)
(***************************************************************************)
EXTENDS Memo, TLAPS

(* A memo: every entry is of an epoch up to now, and none is there before   *)
(* the first.                                                               *)
MemoOf(n) ==
  {m \in [len : {n}, cur : 0..(Limit - 1), epoch : [0..(n - 1) -> 0..(Limit - 1)],
          val : [0..(n - 1) -> Values]] :
     /\ \A e \in 0..(n - 1) : m.epoch[e] <= m.cur
     /\ m.cur = 0 => n = 0}
Memos == UNION {MemoOf(n) : n \in Nat}

(* What a memo has of its epoch is what its traversal put in.               *)
Own(m, s) ==
  /\ m.cur > 0
  /\ DOMAIN s = {e \in 0..(m.len - 1) : m.epoch[e] = m.cur}
  /\ \A e \in DOMAIN s : s[e] = m.val[e]

MemosOK ==
  /\ memos \in Seq(Memos) /\ active \subseteq Traversals
  /\ at \in [Traversals -> Memos] /\ DOMAIN told = Traversals
  /\ \A x \in active : Own(at[x], told[x])
  /\ \A x \in Traversals \ active : told[x] = Nothing

-----------------------------------------------------------------------------
(* The entries of a memo, by number.                                        *)
LEMMA MemoIs ==
  ASSUME NEW m \in Memos
  PROVE  /\ m.len \in Nat /\ m.cur \in 0..(Limit - 1) /\ m \in MemoOf(m.len)
         /\ m = [len |-> m.len, cur |-> m.cur, epoch |-> m.epoch, val |-> m.val]
         /\ m.epoch \in [0..(m.len - 1) -> 0..(Limit - 1)]
         /\ m.val \in [0..(m.len - 1) -> Values]
         /\ \A e \in 0..(m.len - 1) : m.epoch[e] <= m.cur
         /\ m.cur = 0 => m.len = 0
  <1>1. PICK n \in Nat : m \in MemoOf(n)
    BY DEF Memos
  <1>2. /\ m \in [len : {n}, cur : 0..(Limit - 1), epoch : [0..(n - 1) -> 0..(Limit - 1)],
                  val : [0..(n - 1) -> Values]]
        /\ \A e \in 0..(n - 1) : m.epoch[e] <= m.cur
        /\ m.cur = 0 => n = 0
    BY <1>1 DEF MemoOf
  <1>3. m.len = n
    BY <1>2
  <1>4. QED
    BY <1>1, <1>2, <1>3

(* A memo made of such entries is one.                                      *)
LEMMA MemoMade ==
  ASSUME MemoSizes, NEW n \in Nat, NEW c \in 0..(Limit - 1), c > 0,
         NEW ep \in [0..(n - 1) -> 0..(Limit - 1)], NEW v \in [0..(n - 1) -> Values],
         \A e \in 0..(n - 1) : ep[e] <= c
  PROVE  [len |-> n, cur |-> c, epoch |-> ep, val |-> v] \in Memos
  <1>1. [len |-> n, cur |-> c, epoch |-> ep, val |-> v] \in MemoOf(n)
    BY MemoSizes DEF MemoSizes, MemoOf
  <1>2. QED
    BY <1>1 DEF Memos

(* A memo never used is one.                                                *)
LEMMA FreshOne == MemoSizes => Fresh \in Memos
  <1> SUFFICES ASSUME MemoSizes PROVE Fresh \in Memos
    OBVIOUS
  <1>1. Fresh \in MemoOf(0)
    <2>1. 0..(0 - 1) = {}
      OBVIOUS
    <2>2. Nothing \in [{} -> 0..(Limit - 1)] /\ Nothing \in [{} -> Values]
      BY DEF Nothing
    <2>3. QED
      BY <2>1, <2>2, MemoSizes DEF MemoSizes, MemoOf, Fresh
  <1>2. QED
    BY <1>1 DEF Memos

(* A traversal begins with no entry of its epoch, the wrap included.        *)
LEMMA BegunClean ==
  ASSUME MemoSizes, NEW m \in Memos, NEW n \in Nat
  PROVE  Begun(m, n) \in Memos /\ Own(Begun(m, n), Nothing)
  <1> DEFINE wraps == m.cur + 1 = Limit
             size == IF m.len < n THEN n ELSE m.len
             cur == IF wraps THEN 1 ELSE m.cur + 1
             epoch == IF wraps THEN [k \in 0..(size - 1) |-> 0] ELSE Resized(m.epoch, m.len, size)
             val == Resized(m.val, m.len, size)
  <1>1. /\ size \in Nat /\ size >= m.len /\ cur \in 0..(Limit - 1) /\ cur > 0
        /\ ~wraps => cur = m.cur + 1
    BY MemoIs, MemoSizes DEF MemoSizes
  <1>2. Begun(m, n) = [len |-> size, cur |-> cur, epoch |-> epoch, val |-> val]
    BY DEF Begun
  <1>3. epoch \in [0..(size - 1) -> 0..(Limit - 1)] /\ \A e \in 0..(size - 1) : epoch[e] < cur
    <2>1. CASE wraps
      BY <2>1, <1>1, MemoSizes DEF MemoSizes
    <2>2. CASE ~wraps
      <3>1. \A k \in 0..(size - 1) : k < m.len => k \in 0..(m.len - 1)
        BY MemoIs, <1>1
      <3>2. \A k \in 0..(size - 1) :
              (IF k < m.len THEN m.epoch[k] ELSE 0) \in 0..(Limit - 1)
              /\ (IF k < m.len THEN m.epoch[k] ELSE 0) < cur
        BY <3>1, <2>2, <1>1, MemoIs, MemoSizes DEF MemoSizes
      <3>3. QED
        BY <3>2, <2>2 DEF Resized
    <2>3. QED
      BY <2>1, <2>2
  <1>4. val \in [0..(size - 1) -> Values]
    <2>1. \A k \in 0..(size - 1) : (IF k < m.len THEN m.val[k] ELSE 0) \in Values
      BY MemoIs, <1>1, MemoSizes DEF MemoSizes
    <2>2. QED
      BY <2>1 DEF Resized
  <1> HIDE DEF size, cur, epoch, val
  <1>5. \A e \in 0..(size - 1) : epoch[e] <= cur /\ epoch[e] # cur
    BY <1>1, <1>3
  <1>6. Begun(m, n) \in Memos
    BY <1>1, <1>2, <1>3, <1>4, <1>5, MemoMade
  <1>7. Own(Begun(m, n), Nothing)
    BY <1>1, <1>2, <1>5 DEF Own, Nothing
  <1>8. QED
    BY <1>6, <1>7

(* A result put in is told, and nothing else changes.                       *)
LEMMA WithKeeps ==
  ASSUME MemoSizes, NEW m \in Memos, NEW s, Own(m, s), NEW e \in Nat, NEW v \in Values
  PROVE  With(m, e, v) \in Memos /\ Own(With(m, e, v), Told(m, s, e, v))
  <1>1. CASE ~(e < m.len)
    BY <1>1 DEF With, Told
  <1>2. CASE e < m.len
    <2> DEFINE epoch == [m.epoch EXCEPT ![e] = m.cur]
               val == [m.val EXCEPT ![e] = v]
               new == [len |-> m.len, cur |-> m.cur, epoch |-> epoch, val |-> val]
    <2>1. e \in 0..(m.len - 1) /\ m.cur > 0 /\ m.len \in Nat /\ m.cur \in 0..(Limit - 1)
      BY <1>2, MemoIs DEF Own
    <2>2. With(m, e, v) = new
      <3>1. With(m, e, v) = [m EXCEPT !.epoch[e] = m.cur, !.val[e] = v]
        BY <1>2 DEF With
      <3>2. m \in [len : {m.len}, cur : 0..(Limit - 1), epoch : [0..(m.len - 1) -> 0..(Limit - 1)],
                   val : [0..(m.len - 1) -> Values]]
        BY MemoIs DEF MemoOf
      <3>3. QED
        BY <3>1, <3>2
    <2>3. /\ epoch \in [0..(m.len - 1) -> 0..(Limit - 1)] /\ val \in [0..(m.len - 1) -> Values]
          /\ \A k \in 0..(m.len - 1) : /\ epoch[k] = IF k = e THEN m.cur ELSE m.epoch[k]
                                       /\ val[k] = IF k = e THEN v ELSE m.val[k]
      BY <2>1, MemoIs
    <2> HIDE DEF epoch, val
    <2>4. \A k \in 0..(m.len - 1) : epoch[k] <= m.cur
      BY <2>1, <2>3, MemoIs
    <2>5. new \in Memos
      BY <2>1, <2>3, <2>4, MemoMade
    <2>6. Told(m, s, e, v) = [k \in DOMAIN s \cup {e} |-> IF k = e THEN v ELSE s[k]]
      BY <1>2 DEF Told
    <2>7. Own(new, Told(m, s, e, v))
      <3>1. /\ DOMAIN s = {k \in 0..(m.len - 1) : m.epoch[k] = m.cur}
            /\ \A k \in DOMAIN s : s[k] = m.val[k]
        BY DEF Own
      <3>2. DOMAIN s \cup {e} = {k \in 0..(m.len - 1) : epoch[k] = m.cur}
        BY <3>1, <2>1, <2>3
      <3>3. \A k \in DOMAIN s \cup {e} : (IF k = e THEN v ELSE s[k]) = val[k]
        BY <3>1, <2>1, <2>3
      <3>4. QED
        BY <3>2, <3>3, <2>1, <2>6 DEF Own
    <2>8. QED
      BY <2>2, <2>5, <2>7
  <1>3. QED
    BY <1>1, <1>2

-----------------------------------------------------------------------------
(* Nothing is told before anything is put in.                               *)
LEMMA StartsOK == MemoSizes /\ Init => MemosOK
  BY FreshOne DEF Init, MemosOK

(* The memo taken is one given back, or a new one.                          *)
LEMMA TakeKeeps ==
  ASSUME MemoSizes, MemosOK, NEW x \in Traversals, NEW n \in 0..Arena, Take(x, n)
  PROVE  MemosOK'
  <1> DEFINE m == IF memos = <<>> THEN Fresh ELSE memos[Len(memos)]
  <1>1. m \in Memos /\ memos' \in Seq(Memos)
    BY FreshOne DEF Take, MemosOK
  <1>2. n \in Nat
    BY MemoSizes DEF MemoSizes
  <1> DEFINE new == Begun(m, n)
  <1>3. new \in Memos /\ Own(new, Nothing)
    BY <1>1, <1>2, BegunClean
  <1>4. at' = [at EXCEPT ![x] = new] /\ active' = active \cup {x} /\ told' = told /\ x \notin active
    BY DEF Take
  <1> HIDE DEF new
  <1>5. QED
    BY <1>1, <1>3, <1>4 DEF MemosOK

(* A memo begun again tells nothing.                                        *)
LEMMA BeginKeeps ==
  ASSUME MemoSizes, MemosOK, NEW x \in Traversals, NEW n \in 0..Arena, Begin(x, n)
  PROVE  MemosOK'
  <1> DEFINE new == Begun(at[x], n)
  <1>1. n \in Nat /\ at[x] \in Memos
    BY MemoSizes DEF MemoSizes, MemosOK
  <1>2. new \in Memos /\ Own(new, Nothing)
    BY <1>1, BegunClean
  <1>3. /\ at' = [at EXCEPT ![x] = new] /\ told' = [told EXCEPT ![x] = Nothing]
        /\ UNCHANGED <<memos, active>> /\ x \in active
    BY DEF Begin
  <1> HIDE DEF new
  <1>4. QED
    BY <1>2, <1>3 DEF MemosOK

(* A result put in is in the traversal's own memo.                          *)
LEMMA PutKeeps ==
  ASSUME MemoSizes, MemosOK, NEW x \in Traversals, NEW e \in 0..(Arena - 1),
         NEW v \in Values, Put(x, e, v)
  PROVE  MemosOK'
  <1> DEFINE new == With(at[x], e, v)
             tells == Told(at[x], told[x], e, v)
  <1>1. e \in Nat /\ at[x] \in Memos /\ Own(at[x], told[x])
    BY MemoSizes DEF MemoSizes, MemosOK, Put
  <1>2. new \in Memos /\ Own(new, tells)
    BY <1>1, WithKeeps
  <1>3. /\ at' = [at EXCEPT ![x] = new] /\ told' = [told EXCEPT ![x] = tells]
        /\ UNCHANGED <<memos, active>> /\ x \in active
    BY DEF Put
  <1> HIDE DEF new, tells
  <1>4. QED
    BY <1>2, <1>3 DEF MemosOK

(* The memo given back is a memo still.                                     *)
LEMMA GiveKeeps ==
  ASSUME MemoSizes, MemosOK, NEW x \in Traversals, Give(x)
  PROVE  MemosOK'
  <1>1. memos' \in Seq(Memos)
    BY DEF Give, MemosOK
  <1>2. /\ at' = [at EXCEPT ![x] = Fresh] /\ told' = [told EXCEPT ![x] = Nothing]
        /\ active' = active \ {x}
    BY DEF Give
  <1>3. QED
    BY <1>1, <1>2, FreshOne DEF MemosOK

(* Of entries that are the traversal's own, what is known is what was told. *)
LEMMA OwnTells ==
  ASSUME MemoSizes, MemosOK
  PROVE  TellsItsOwn
  <1> SUFFICES ASSUME NEW x \in active, NEW e \in 0..(Arena - 1)
               PROVE  /\ Known(at[x], e) <=> e \in DOMAIN told[x]
                      /\ Known(at[x], e) => at[x].val[e] = told[x][e]
    BY DEF TellsItsOwn
  <1>1. at[x] \in Memos /\ Own(at[x], told[x])
    BY DEF MemosOK
  <1>2. e < at[x].len <=> e \in 0..(at[x].len - 1)
    BY <1>1, MemoIs, MemoSizes DEF MemoSizes
  <1>3. QED
    BY <1>1, <1>2 DEF Known, Own

(* With epochs of any number of values, over arenas of any size and for any *)
(* number of traversals, a memo handed out again any number of times tells  *)
(* only what the traversal that holds it put in.                            *)
THEOREM MemoTellsItsOwn ==
  ASSUME MemoSizes PROVE Spec => []TellsItsOwn
  <1>1. MemosOK /\ [Next]_vars => MemosOK'
    <2>1. ASSUME MemosOK, UNCHANGED vars
          PROVE  MemosOK'
      BY <2>1 DEF vars, MemosOK
    <2>2. ASSUME MemosOK, NEW x \in Traversals, NEW n \in 0..Arena, Take(x, n) \/ Begin(x, n)
          PROVE  MemosOK'
      BY <2>2, TakeKeeps, BeginKeeps
    <2>3. ASSUME MemosOK, NEW x \in Traversals, NEW e \in 0..(Arena - 1), NEW v \in Values,
                 Put(x, e, v)
          PROVE  MemosOK'
      BY <2>3, PutKeeps
    <2>4. ASSUME MemosOK, NEW x \in Traversals, Give(x)
          PROVE  MemosOK'
      BY <2>4, GiveKeeps
    <2>5. QED
      BY <2>1, <2>2, <2>3, <2>4 DEF Next
  <1>2. QED
    BY <1>1, StartsOK, OwnTells, PTL DEF Spec
=============================================================================
