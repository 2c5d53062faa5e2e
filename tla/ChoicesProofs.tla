---------------------------- MODULE ChoicesProofs ----------------------------
(* What the methods of Choices keep, for every set of selects and policy.    *)
EXTENDS Choices, TLAPS

\* An observed trace keeps the record's type and is the trace held after it.
LEMMA ObserveType ==
    ASSUME NEW c \in ChoicesSet, NEW fresh \in Traces
    PROVE  /\ Observe(c, fresh) \in ChoicesSet
           /\ Observe(c, fresh).trace = fresh
           /\ Observe(c, fresh).off = c.off
           /\ Observe(c, fresh).version = c.version
  <1>1. Differing(c, fresh) \subseteq Selects
    BY DEF Differing, ChoicesSet, Traces, NoTrace
  <1>2. QED
    BY <1>1 DEF Observe, ChoicesSet

\* Once a trace is held, what a specialization pins are arms of selects.
LEMMA PinnedType ==
    ASSUME NEW c \in ChoicesSet, c.trace \in Traces
    PROVE  Pinned(c) \in [Selects \ c.unpinned -> Arms]
  BY DEF Pinned, Traces, ChoicesSet

\* The policy's steps keep the type; a version moves up by one, and only
\* there.
LEMMA PolicyTypes ==
    ASSUME NEW c \in ChoicesSet, NEW n \in Nat
    PROVE  /\ Ran(c, n) \in ChoicesSet
           /\ Flipped(c, n) \in ChoicesSet
           /\ Cool(c) \in ChoicesSet
           /\ NewVersion(c) \in ChoicesSet
           /\ \A ops, full \in Nat : Built(c, ops, full) \in ChoicesSet
  <1>1. Ran(c, n) \in ChoicesSet /\ NewVersion(c) \in ChoicesSet
    BY DEF Ran, NewVersion, ChoicesSet
  <1>2. Cool(c) \in ChoicesSet
    BY ChoicePolicyAssumption DEF Cool, ChoicesSet
  <1>3. Flipped(c, n) \in ChoicesSet
    <2> DEFINE flips == c.flips + n
               off == c.off \/ (flips >= ThrashFlips /\ c.evals < flips * ThrashEvals)
    <2>1. flips \in Nat /\ off \in BOOLEAN
      BY DEF ChoicesSet
    <2>2. Flipped(c, n) = [c EXCEPT !.flips = flips, !.off = off]
      BY DEF Flipped, ChoicesSet
    <2>3. QED
      BY <2>1, <2>2 DEF ChoicesSet
  <1>4. \A ops, full \in Nat : Built(c, ops, full) \in ChoicesSet
    <2>1. [c EXCEPT !.built = @ + 1] \in ChoicesSet
      BY DEF ChoicesSet
    <2>2. [c EXCEPT !.off = TRUE] \in ChoicesSet
      BY DEF ChoicesSet
    <2>3. QED
      BY <2>1, <2>2 DEF Built
  <1>5. QED
    BY <1>1, <1>2, <1>3, <1>4

\* A new version changes nothing else of the record.
LEMMA NewVersionMoves ==
    ASSUME NEW c \in ChoicesSet
    PROVE  LET v == NewVersion(c) IN
           /\ v \in ChoicesSet /\ v.off = c.off /\ v.trace = c.trace
           /\ v.unpinned = c.unpinned /\ v.version = c.version + 1
           /\ v.built = c.built /\ v.flips = c.flips
  BY DEF NewVersion, ChoicesSet

\* Evaluations counted, or flips of n of them, change only their counts, and
\* flips may switch it off.
LEMMA RanMoves ==
    ASSUME NEW c \in ChoicesSet, NEW n \in Nat
    PROVE  LET v == Ran(c, n) IN
           /\ v \in ChoicesSet /\ v.off = c.off /\ v.trace = c.trace
           /\ v.unpinned = c.unpinned /\ v.version = c.version
           /\ v.built = c.built /\ v.flips = c.flips
  BY DEF Ran, ChoicesSet

\* Flips may turn learning off and unpin nothing.
LEMMA FlippedMoves ==
    ASSUME NEW c \in ChoicesSet, NEW n \in Nat
    PROVE  LET v == Flipped(c, n) IN
           /\ v \in ChoicesSet /\ (c.off => v.off) /\ v.trace = c.trace
           /\ v.unpinned = c.unpinned /\ v.version = c.version
           /\ v.built = c.built
  <1> DEFINE flips == c.flips + n
             off == c.off \/ (flips >= ThrashFlips /\ c.evals < flips * ThrashEvals)
  <1>1. flips \in Nat /\ off \in BOOLEAN /\ (c.off => off)
    BY DEF ChoicesSet
  <1>2. Flipped(c, n) = [c EXCEPT !.flips = flips, !.off = off]
    BY DEF Flipped, ChoicesSet
  <1> HIDE DEF flips, off
  <1>3. QED
    BY <1>1, <1>2 DEF ChoicesSet
==============================================================================
