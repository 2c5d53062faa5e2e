-------------------------------- MODULE Memo --------------------------------
(***************************************************************************)
(* The memos of the traversals of a graph (crates/rsdag/src/graph/mod.rs   *)
(* and flow.rs): two arrays over the arena, cleared by moving an epoch of  *)
(* some bits that wraps.  A memo no traversal is using is handed to the    *)
(* next, begun anew over the arena as it is then, so the memo of a nested  *)
(* traversal is another, and one kept by an analysis comes back later than *)
(* those of the traversals begun after it.                                 *)
(*                                                                         *)
(* What a traversal's memo tells is the history `told`: what the traversal *)
(* has put in, since it last began, for nodes its memo has room for.       *)
(***************************************************************************)
EXTENDS Integers, Sequences

CONSTANTS Limit,       \* an epoch's number of values: 2^32 in the code
          Arena,       \* bound on the nodes of a graph
          Values,      \* the results kept, ExprId 0 among them
          Traversals   \* those under way at once at most

(* What the theorem has of them.                                            *)
MemoSizes == Limit \in Nat /\ Limit > 1 /\ Arena \in Nat /\ 0 \in Values

VARIABLES memos,   \* the memos no traversal is using, the last given back on top
          active,  \* the traversals under way
          at,      \* their memos
          told

vars == <<memos, active, at, told>>

Nothing == [e \in {} |-> 0]
Fresh == [len |-> 0, cur |-> 0, epoch |-> Nothing, val |-> Nothing]

(* The arrays only grow, new entries 0.                                     *)
Resized(f, len, n) == [k \in 0..(n - 1) |-> IF k < len THEN f[k] ELSE 0]

(* `begin` over an arena of n nodes: where the epoch wraps every entry is   *)
(* cleared.                                                                 *)
Begun(m, n) ==
  LET wraps == m.cur + 1 = Limit
      size == IF m.len < n THEN n ELSE m.len
  IN  [len |-> size, cur |-> IF wraps THEN 1 ELSE m.cur + 1,
       epoch |-> IF wraps THEN [k \in 0..(size - 1) |-> 0] ELSE Resized(m.epoch, m.len, size),
       val |-> Resized(m.val, m.len, size)]

(* `get`: the value there is, if it is of the traversal's epoch.            *)
Known(m, e) == e < m.len /\ m.epoch[e] = m.cur

(* `set`: of a node the memo has no room for, nothing.                      *)
With(m, e, v) ==
  IF e < m.len THEN [m EXCEPT !.epoch[e] = m.cur, !.val[e] = v] ELSE m
Told(m, s, e, v) ==
  IF e < m.len THEN [k \in DOMAIN s \cup {e} |-> IF k = e THEN v ELSE s[k]] ELSE s

-----------------------------------------------------------------------------
Init == /\ memos = <<>> /\ active = {}
        /\ at = [x \in Traversals |-> Fresh] /\ told = [x \in Traversals |-> Nothing]

(* `take_memo`: the memo given back last, or a new one.                     *)
Take(x, n) ==
  /\ x \notin active
  /\ active' = active \cup {x}
  /\ at' = [at EXCEPT ![x] = Begun(IF memos = <<>> THEN Fresh ELSE memos[Len(memos)], n)]
  /\ memos' = IF memos = <<>> THEN memos ELSE SubSeq(memos, 1, Len(memos) - 1)
  /\ UNCHANGED told

(* The same memo for the next column of a Jacobian, or of a call's outputs. *)
Begin(x, n) ==
  /\ x \in active
  /\ at' = [at EXCEPT ![x] = Begun(@, n)]
  /\ told' = [told EXCEPT ![x] = Nothing]
  /\ UNCHANGED <<memos, active>>

Put(x, e, v) ==
  /\ x \in active
  /\ at' = [at EXCEPT ![x] = With(@, e, v)]
  /\ told' = [told EXCEPT ![x] = Told(at[x], @, e, v)]
  /\ UNCHANGED <<memos, active>>

(* `put_memo`, or the end of an analysis.                                   *)
Give(x) ==
  /\ x \in active
  /\ active' = active \ {x}
  /\ memos' = Append(memos, at[x])
  /\ at' = [at EXCEPT ![x] = Fresh] /\ told' = [told EXCEPT ![x] = Nothing]

Next == \E x \in Traversals :
          \/ \E n \in 0..Arena : Take(x, n) \/ Begin(x, n)
          \/ \E e \in 0..(Arena - 1), v \in Values : Put(x, e, v)
          \/ Give(x)

Spec == Init /\ [][Next]_vars

-----------------------------------------------------------------------------
(* A memo tells what its own traversal put in and nothing else: never an    *)
(* entry of an earlier traversal, of one it is nested in or that is nested  *)
(* in it, however often the memo was handed on and its epoch wrapped        *)
(* (`begin`, `get` and `set` of graph/mod.rs).                              *)
TellsItsOwn ==
  \A x \in active : \A e \in 0..(Arena - 1) :
    /\ Known(at[x], e) <=> e \in DOMAIN told[x]
    /\ Known(at[x], e) => at[x].val[e] = told[x][e]
=============================================================================
