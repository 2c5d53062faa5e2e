----------------------------- MODULE MCBodyChoices -----------------------------
(* Values for the constants of BodyChoices: three instances whose selects     *)
(* differ one by one, run alone and together.                                 *)
EXTENDS BodyChoices, TLC
LOCAL INSTANCE SequencesExt

CONSTANTS t1, t2, interp, native, x, y, z

MCSelects == {"region", "limit"}
MCTakes == [i \in {x, y, z} |->
              [s \in MCSelects |-> IF s = "region" THEN IF i = x THEN 0 ELSE 1
                                   ELSE IF i = z THEN 1 ELSE 0]]
FewBatches == {{x}, {x, y}, {z}}

\* Every pin removes three instructions of ten.
MCSpecOps(pins) == 10 - 3 * Cardinality(DOMAIN pins)
SomePins == {p \in PinsSet : DOMAIN p # {"region"}}
\* ObserveAll is Observe, trace by trace.
ASSUME ObservedInTurn ==
    \A held \in Traces \cup {NoTrace}, u \in SUBSET Selects :
        \A ts \in UNION {[1..n -> Traces] : n \in 1..3} :
            LET c == [NoChoices EXCEPT !.trace = held, !.unpinned = u]
            IN  ObserveAll(c, ts) = FoldLeft(Observe, c, ts)

==============================================================================
