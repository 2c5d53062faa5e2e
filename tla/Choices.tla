------------------------------- MODULE Choices -------------------------------
(***************************************************************************)
(* What a program learns of its region choices (choices.rs).  A Select    *)
(* takes one of two arms; a trace is the arm every Select took in one     *)
(* evaluation.  The record below is the struct Choices, the operators its *)
(* methods, each from the record before the call to the record after it.  *)
(* The counters are unbounded here: the specifications that use them      *)
(* bound the number of calls.  Definitions whose comment begins with      *)
(* "Mutant" are wrong versions of the one after them: with it in its      *)
(* place a property of a specification that uses them must fail.          *)
(***************************************************************************)
EXTENDS Naturals

CONSTANTS
    Selects,        \* the Select instructions of the tape
    FlipCooldown,   \* ChoicePolicy::flip_cooldown
    ThrashFlips,    \* ChoicePolicy::thrash_flips
    ThrashEvals,    \* ChoicePolicy::thrash_evals
    MinShrinkPct    \* ChoicePolicy::min_shrink_pct

ASSUME ChoicePolicyAssumption ==
    /\ FlipCooldown \in Nat
    /\ ThrashFlips \in Nat
    /\ ThrashEvals \in Nat
    /\ MinShrinkPct \in 0..100

Arms == {0, 1}
Traces == [Selects -> Arms]

\* The empty vector a trace is before the first observation.
NoTrace == [s \in {} |-> 0]

ChoicesSet ==
    [trace : Traces \cup {NoTrace}, unpinned : SUBSET Selects, evals : Nat,
     flips : Nat, cooldownUntil : Nat, off : BOOLEAN, version : Nat, built : Nat]

NoChoices ==
    [trace |-> NoTrace, unpinned |-> {}, evals |-> 0, flips |-> 0,
     cooldownUntil |-> 0, off |-> FALSE, version |-> 0, built |-> 0]

\* The selects whose arm in `fresh` is not the one of the trace held.  The
\* first observation compares with nothing.
Differing(c, fresh) == {s \in DOMAIN c.trace : c.trace[s] # fresh[s]}

\* Mutant of Observe: the trace is replaced and nothing unpinned.
ObserveForgets(c, fresh) == [c EXCEPT !.trace = fresh]

\* A trace seen: what it differs in is unpinned for good.
Observe(c, fresh) ==
    [c EXCEPT !.unpinned = @ \cup Differing(c, fresh), !.trace = fresh]

\* What a specialization built now pins: the trace held on the selects never
\* seen flipping.
Pinned(c) == [s \in Selects \ c.unpinned |-> c.trace[s]]

Ready(c) == ~c.off /\ c.evals >= c.cooldownUntil

Ran(c, n) == [c EXCEPT !.evals = @ + n]

Flipped(c, n) ==
    LET flips == c.flips + n
    IN  [c EXCEPT !.flips = flips,
                  !.off = @ \/ (flips >= ThrashFlips /\ c.evals < flips * ThrashEvals)]

Cool(c) == [c EXCEPT !.cooldownUntil = c.evals + FlipCooldown]

\* Whether a specialization of `ops` instructions shrinks a program of
\* `full` enough to be kept.
Shrinks(ops, full) == ops * 100 <= full * (100 - MinShrinkPct)

Built(c, ops, full) ==
    IF Shrinks(ops, full) THEN [c EXCEPT !.built = @ + 1] ELSE [c EXCEPT !.off = TRUE]

\* Mutant of NewVersion: the version stays.
SameVersion(c) == c

NewVersion(c) == [c EXCEPT !.version = @ + 1]
==============================================================================
