------------------------------ MODULE MCAdaptive ------------------------------
(* Values for the constants of Adaptive: small tapes and policies.           *)
EXTENDS Adaptive, TLC, FiniteSets

CONSTANTS t1, t2, b1, b2, x1, x2

\* Two selects: one the binding decides, in the prolog, and one the point
\* decides, in the main phase.
MCSelects == {"param", "region"}
MCTakes == [i \in {b1, b2} \X {x1, x2} |->
              [s \in MCSelects |-> IF s = "param" THEN IF i[1] = b1 THEN 1 ELSE 0
                                   ELSE IF i[2] = x1 THEN 1 ELSE 0]]

\* Every pin removes three instructions of ten.
MCSpecOps(pins) == 10 - 3 * Cardinality(pins)

Symmetry == Permutations(Threads)
==============================================================================
