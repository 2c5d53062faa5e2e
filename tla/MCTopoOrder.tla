---------------------------- MODULE MCTopoOrder ----------------------------
(***************************************************************************)
(* The dynamic order over every program of N instructions and at most       *)
(* MCMaxEdges operands, each kernel hinted with all it could take.         *)
(***************************************************************************)
EXTENDS TopoOrder

CONSTANTS N, MCKernels, MCMaxEdges

MCInst(i, reads) ==
  Inst([op |-> IF i \in MCKernels THEN "gemv" ELSE "fn"],
       [q \in DOMAIN Ascending(reads) |-> Value(Ascending(reads)[q], 0)], 1, FALSE)
MCEdges == {<<i, j>> \in (1..N) \X (1..N) : j < i}
MCProgram(edges) ==
  [insts |-> [i \in 1..N |-> MCInst(i, {e[2] : e \in {d \in edges : d[1] = i}})],
   roots |-> <<>>, place |-> 0, kept |-> None]
MCHints(edges) == {<<i, k2>> \in (1..N) \X MCKernels : i # k2 /\ <<i, k2>> \notin edges
                                                       /\ <<k2, i>> \notin edges}
MCPrograms == {[p |-> MCProgram(E), hints |-> MCHints(E)] :
                 E \in {F \in SUBSET MCEdges : Cardinality(F) <= MCMaxEdges}}
=============================================================================
