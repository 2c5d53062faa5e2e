------------------------------ MODULE MCVariants ------------------------------
(* Values for the constants of Variants.  One program is a tape that runs   *)
(* the body in its own form, and the tape's native code, which runs it      *)
(* compiled as it goes (other): states are laid and run by either, one      *)
(* layout and one policy (adaptive.rs:130, native.rs:722).  The other       *)
(* program works in the background, interpreted (interp) or compiled under  *)
(* the same key (native).                                                   *)
EXTENDS Variants, TLC

CONSTANTS t1, t2, own, interp, native, other, pa, pb, b1, b2

MCPatternOf == [b \in {b1, b2} |-> IF b = b1 THEN pa ELSE pb]
MCProgram == [f \in Forms |->
    IF f \in {own, other} THEN "tape" ELSE "adaptive"]
MCPrograms == {"tape", "adaptive"}
MCKey == [f \in Forms |-> IF f \in Compiles THEN "options" ELSE "none"]
MCKeys == {"none", "options"}

\* Every program keeps the full body and one variant, or two.
KeepTwo == [f \in Forms |-> 2]
\* One program keeps the full body and one variant, the others two.
KeepUnlike == [f \in Forms |-> IF f \in {interp, native} THEN 2 ELSE 3]

\* The threads, and the bindings each with its pattern, are interchangeable.
Symmetry ==
    {t @@ b : t \in Permutations(Threads),
              b \in {b1 :> b1 @@ b2 :> b2 @@ pa :> pa @@ pb :> pb,
                     b1 :> b2 @@ b2 :> b1 @@ pa :> pb @@ pb :> pa}}
==============================================================================
