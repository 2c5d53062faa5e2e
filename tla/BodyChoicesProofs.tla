--------------------------- MODULE BodyChoicesProofs ---------------------------
(***************************************************************************)
(* What a variant learns stays in order, for any instances, forms, batches *)
(* and policy: first what a batch and what its traces do to the record and *)
(* the shortened main phase together, then one lemma per action.           *)
(***************************************************************************)
EXTENDS BodyChoices, ChoicesProofs, FiniteSetTheorems

\* What was right to run by record c is, by record d, or is outdated.
Advances(c, d) ==
    /\ c.version <= d.version
    /\ c.off => d.off
    /\ ~d.off /\ d.version = c.version => Pinned(d) = Pinned(c)

------------------------------------------------------------------------------
(* The record                                                               *)

\* A set of selects has a size, and a larger set a larger one.
LEMMA SelectsCounted ==
    ASSUME NEW S \in SUBSET Selects, NEW T \in SUBSET Selects, S \subseteq T
    PROVE  /\ Cardinality(S) \in Nat /\ Cardinality(T) \in Nat
           /\ Cardinality(S) <= Cardinality(T)
           /\ S # T => Cardinality(S) + 1 <= Cardinality(T)
  <1>1. IsFiniteSet(T)
    BY FS_Subset, BodyChoicesAssumption
  <1>2. IsFiniteSet(S) /\ Cardinality(S) <= Cardinality(T)
        /\ (Cardinality(S) = Cardinality(T) => S = T)
    BY <1>1, FS_Subset
  <1>3. Cardinality(S) \in Nat /\ Cardinality(T) \in Nat
    BY <1>1, <1>2, FS_CardinalityType
  <1>4. QED
    BY <1>2, <1>3

\* Traces observed keep the record's type and move none of its counts; where
\* they unpin nothing, the pins stay.
LEMMA ObserveAllOK ==
    ASSUME NEW c \in ChoicesSet, NEW n \in Nat \ {0}, NEW ts \in [1..n -> Traces]
    PROVE  LET o == ObserveAll(c, ts) IN
           /\ o \in ChoicesSet /\ o.trace \in Traces
           /\ o.version = c.version /\ o.built = c.built /\ o.off = c.off
           /\ c.unpinned \subseteq o.unpinned
           /\ c.trace \in Traces /\ o.unpinned = c.unpinned => Pinned(o) = Pinned(c)
  <1> DEFINE o == ObserveAll(c, ts)
             new == (UNION {Differing(c, ts[i]) : i \in DOMAIN ts})
                    \cup {s \in Selects : \E i, j \in DOMAIN ts : ts[i][s] # ts[j][s]}
  <1>1. Len(ts) = n /\ n \in 1..n /\ ts[n] \in Traces
    OBVIOUS
  <1>2. new \subseteq Selects
    <2>1. DOMAIN c.trace \subseteq Selects
      BY DEF ChoicesSet, Traces, NoTrace
    <2>2. \A i \in DOMAIN ts : Differing(c, ts[i]) \subseteq Selects
      BY <2>1 DEF Differing
    <2>3. ASSUME NEW s \in UNION {Differing(c, ts[i]) : i \in DOMAIN ts}
          PROVE  s \in Selects
      <3>1. PICK i \in DOMAIN ts : s \in Differing(c, ts[i])
        OBVIOUS
      <3>2. QED
        BY <3>1, <2>2
    <2>4. {s \in Selects : \E i, j \in DOMAIN ts : ts[i][s] # ts[j][s]} \subseteq Selects
      OBVIOUS
    <2>5. QED
      BY <2>3, <2>4
  <1>3. o = [c EXCEPT !.unpinned = c.unpinned \cup new, !.trace = ts[n]]
    BY <1>1 DEF ObserveAll, Observe, ChoicesSet
  <1>4. /\ o \in ChoicesSet /\ o.trace = ts[n] /\ o.unpinned = c.unpinned \cup new
        /\ o.version = c.version /\ o.built = c.built /\ o.off = c.off
    <2> HIDE DEF new
    <2>1. QED
      BY <1>1, <1>2, <1>3 DEF ChoicesSet
  <1>5. ASSUME c.trace \in Traces, o.unpinned = c.unpinned
        PROVE  Pinned(o) = Pinned(c)
    <2>1. ASSUME NEW s \in Selects \ c.unpinned
          PROVE  ts[n][s] = c.trace[s]
      <3>1. s \notin Differing(c, ts[n])
        BY <1>1, <1>4, <1>5, <2>1
      <3>2. DOMAIN c.trace = Selects
        BY <1>5 DEF Traces
      <3>3. QED
        BY <3>1, <3>2, <2>1 DEF Differing
    <2>2. QED
      BY <2>1, <1>4, <1>5 DEF Pinned
  <1>6. QED
    BY <1>1, <1>4, <1>5

\* What a record pins is what a main phase may be shortened to.
LEMMA PinsAreSpecs ==
    ASSUME NEW c \in ChoicesSet, c.trace \in Traces
    PROVE  Pinned(c) \in PinsSet
  <1>1. Selects \ c.unpinned \in SUBSET Selects
    OBVIOUS
  <1>2. QED
    BY <1>1, PinnedType DEF PinsSet

\* What traces teach leaves record and main phase in order, and either the
\* pins as they were, a newer version, or nothing to run.
LEMMA TaughtOK ==
    ASSUME NEW n \in Nat \ {0}, NEW ts \in [1..n -> Traces],
           Agree(learned, spec), ~learned.off
    PROVE  LET r == Taught(learned, ts) IN Agree(r[1], r[2]) /\ Advances(learned, r[1])
                                           /\ r[1].flips = learned.flips
  <1> DEFINE c == learned
             o == ObserveAll(c, ts)
             b == Built(o, SpecOps(Pinned(o)), MainOps)
             v == NewVersion(b)
             main == [ver |-> v.version, pins |-> Pinned(v)]
  <1>1. c \in ChoicesSet
    BY DEF Agree
  <1>2. /\ o \in ChoicesSet /\ o.trace \in Traces
        /\ o.version = c.version /\ o.built = c.built /\ o.off = c.off
        /\ c.unpinned \subseteq o.unpinned
        /\ c.trace \in Traces /\ o.unpinned = c.unpinned => Pinned(o) = Pinned(c)
    BY <1>1, ObserveAllOK
  <1>3. o.flips = c.flips
    BY <1>1 DEF ObserveAll, Observe, ChoicesSet
  <1>4. Pinned(o) \in PinsSet
    BY <1>2, PinsAreSpecs
  <1>5. SpecOps(Pinned(o)) \in Nat /\ MainOps \in Nat
    BY <1>4, SpecAssumption, BodyChoicesAssumption
  <1>6. /\ Cardinality(c.unpinned) \in Nat /\ Cardinality(o.unpinned) \in Nat
        /\ Cardinality(c.unpinned) <= Cardinality(o.unpinned)
        /\ c.unpinned # o.unpinned => Cardinality(c.unpinned) + 1 <= Cardinality(o.unpinned)
    <2>1. c.unpinned \in SUBSET Selects /\ o.unpinned \in SUBSET Selects
      BY <1>1, <1>2 DEF ChoicesSet
    <2>2. QED
      BY <1>2, <2>1, SelectsCounted
  <1>7. c.built \in Nat /\ c.version = c.built /\ c.built <= 1 + Cardinality(c.unpinned)
    BY <1>1 DEF Agree, ChoicesSet
  <1>8. \/ /\ b.off /\ b = [o EXCEPT !.off = TRUE]
        \/ /\ ~b.off /\ b = [o EXCEPT !.built = o.built + 1]
    BY <1>2 DEF Built, ChoicesSet, Agree
  <1> HIDE DEF o, b
  <1>9. CASE c.built > 0 /\ o.unpinned = c.unpinned
    <2>1. Taught(c, ts) = <<o, spec>>
      BY <1>9 DEF Taught, o
    <2>2. Pinned(o) = Pinned(c)
      BY <1>2, <1>9 DEF Agree
    <2>3. Agree(o, spec)
      BY <1>2, <1>6, <1>7, <1>9, <2>2 DEF Agree
    <2>4. Advances(c, o)
      BY <1>2, <1>7, <2>2 DEF Advances
    <2>5. QED
      BY <2>1, <2>3, <2>4, <1>3
  <1>10. CASE ~(c.built > 0 /\ o.unpinned = c.unpinned) /\ b.off
    <2>1. Taught(c, ts) = <<b, None>>
      BY <1>10 DEF Taught, o, b
    <2>2. /\ b \in ChoicesSet /\ b.off /\ b.trace = o.trace /\ b.unpinned = o.unpinned
          /\ b.version = o.version /\ b.built = o.built /\ b.flips = o.flips
      BY <1>2, <1>8, <1>10 DEF ChoicesSet
    <2>3. Agree(b, None)
      BY <1>2, <1>6, <1>7, <2>2 DEF Agree
    <2>4. Advances(c, b)
      BY <1>2, <1>7, <2>2 DEF Advances
    <2>5. QED
      BY <2>1, <2>2, <2>3, <2>4, <1>3
  <1>11. CASE ~(c.built > 0 /\ o.unpinned = c.unpinned) /\ ~b.off
    <2>1. Taught(c, ts) = <<v, main>>
      BY <1>11 DEF Taught, o, b
    <2>2. /\ v \in ChoicesSet /\ ~v.off /\ v.trace = o.trace /\ v.unpinned = o.unpinned
          /\ v.version = c.version + 1 /\ v.built = c.built + 1 /\ v.flips = o.flips
      <3>1. /\ b \in ChoicesSet /\ b.trace = o.trace /\ b.unpinned = o.unpinned
            /\ b.version = o.version /\ b.built = o.built + 1 /\ b.flips = o.flips
        BY <1>2, <1>8, <1>11 DEF ChoicesSet
      <3>3. ~b.off
        BY <1>11
      <3>4. /\ v \in ChoicesSet /\ v.off = b.off /\ v.trace = b.trace /\ v.unpinned = b.unpinned
            /\ v.version = b.version + 1 /\ v.built = b.built /\ v.flips = b.flips
        BY <3>1, NewVersionMoves
      <3> HIDE DEF v
      <3>5. o.version = c.version /\ o.built = c.built
        BY <1>2
      <3>6. QED
        BY <3>1, <3>3, <3>4, <3>5
    <2> HIDE DEF v
    <2>3. main \in Specs
      BY <2>2, <1>2, PinsAreSpecs DEF Specs, ChoicesSet
    <2>4. v.built <= 1 + Cardinality(v.unpinned)
      BY <1>6, <1>7, <1>11, <2>2
    <2>5. Agree(v, main)
      BY <2>2, <2>3, <2>4, <1>2, <1>7 DEF Agree
    <2>6. Advances(c, v)
      BY <2>2, <1>2, <1>7 DEF Advances, Agree
    <2>7. QED
      BY <2>1, <2>2, <2>5, <2>6, <1>3
  <1>12. QED
    BY <1>9, <1>10, <1>11

\* A record that moved on within a version agrees with the main phase there
\* was, or with none.
LEMMA SameVersionOK ==
    ASSUME NEW c, NEW s, Agree(c, s), NEW d \in ChoicesSet, NEW r \in {s, None},
           d.trace = c.trace, d.unpinned = c.unpinned,
           d.version = c.version, d.built = c.built,
           c.off => d.off, d.off => r = None
    PROVE  Agree(d, r) /\ Advances(c, d)
  <1>1. c \in ChoicesSet /\ c.version \in Nat
    BY DEF Agree, ChoicesSet
  <1>2. Pinned(d) = Pinned(c)
    BY DEF Pinned
  <1>3. Agree(d, r)
    BY <1>2 DEF Agree
  <1>4. QED
    BY <1>1, <1>2, <1>3 DEF Advances

\* What a batch shows leaves record and main phase in order; it moves the
\* flips only where an instance failed on the main phase there is.
LEMMA ObservesOK ==
    ASSUME NEW t \in Threads, Agree(learned, spec),
           batch[t] \in SUBSET Instances
    PROVE  LET r == Observes(t) IN
           /\ Agree(r[1], r[2]) /\ Advances(learned, r[1])
           /\ r[3] \in SUBSET batch[t]
           /\ r[1].flips # learned.flips =>
                  /\ ran[t] # None /\ ran[t].ver = learned.version
                  /\ ~learned.off /\ Failed(t) # {}
  <1> DEFINE n == Cardinality(batch[t])
             m == Cardinality(Failed(t))
             c == Ran(learned, n)
             g == Flipped(c, m)
             d == [c EXCEPT !.off = TRUE]
  <1>1. learned \in ChoicesSet /\ (learned.off => spec = None)
    BY DEF Agree
  <1>2. Failed(t) \in SUBSET batch[t]
    BY DEF Failed
  <1>3. n \in Nat /\ m \in Nat
    <2>1. IsFiniteSet(batch[t]) /\ IsFiniteSet(Failed(t))
      BY <1>2, FS_Subset, BodyChoicesAssumption
    <2>2. QED
      BY <2>1, FS_CardinalityType
  <1>4. /\ c \in ChoicesSet /\ c.trace = learned.trace /\ c.unpinned = learned.unpinned
        /\ c.version = learned.version /\ c.built = learned.built
        /\ c.off = learned.off /\ c.flips = learned.flips
    BY <1>1, <1>3, RanMoves
  <1>5. /\ g \in ChoicesSet /\ g.trace = c.trace /\ g.unpinned = c.unpinned
        /\ g.version = c.version /\ g.built = c.built
        /\ (c.off => g.off)
    BY <1>3, <1>4, FlippedMoves
  <1>6. /\ d \in ChoicesSet /\ d.trace = c.trace /\ d.unpinned = c.unpinned
        /\ d.version = c.version /\ d.built = c.built
        /\ d.off /\ d.flips = c.flips
    BY <1>4 DEF ChoicesSet
  <1> HIDE DEF c, g, d
  <1>7. Agree(c, spec) /\ Advances(learned, c)
    BY <1>1, <1>4, SameVersionOK
  <1>8. Agree(learned, spec) /\ Advances(learned, learned)
    BY <1>1, SameVersionOK
  <1>9. CASE learned.off
    <2>1. Observes(t) = <<learned, spec, {}>>
      BY <1>9 DEF Observes
    <2>2. QED
      BY <2>1, <1>8
  <1>10. CASE ~learned.off /\ ran[t] = None /\ ~(c.built > 0 \/ spec # None)
              /\ Cardinality(Selects) < MinSelects
    <2>1. Observes(t) = <<d, spec, {}>>
      BY <1>10 DEF Observes, c, d
    <2>2. Agree(d, spec) /\ Advances(learned, d)
      BY <1>4, <1>6, <1>10, SameVersionOK
    <2>3. QED
      BY <2>1, <2>2, <1>4, <1>6
  <1>11. CASE Observes(t) = <<c, spec, {}>> \/ Observes(t) = <<c, spec, batch[t]>>
    BY <1>11, <1>7, <1>4
  <1>12. CASE ~learned.off /\ ran[t] # None /\ Failed(t) # {} /\ ran[t].ver = learned.version
    <2>1. Observes(t) = IF g.off THEN <<g, None, {}>> ELSE <<g, spec, Failed(t)>>
      BY <1>12 DEF Observes, c, g
    <2>2. CASE g.off
      <3>1. Agree(g, None) /\ Advances(learned, g)
        BY <1>4, <1>5, <2>2, SameVersionOK
      <3>2. QED
        BY <2>1, <2>2, <3>1, <1>12
    <2>3. CASE ~g.off
      <3>1. Agree(g, spec) /\ Advances(learned, g)
        BY <1>4, <1>5, <2>3, SameVersionOK
      <3>2. QED
        BY <2>1, <2>3, <3>1, <1>2, <1>12
    <2>4. QED
      BY <2>2, <2>3
  <1>13. CASE /\ ~learned.off
              /\ \/ /\ ran[t] = None
                    /\ c.built > 0 \/ spec # None \/ ~(Cardinality(Selects) < MinSelects)
                 \/ ran[t] # None /\ (Failed(t) = {} \/ ran[t].ver # learned.version)
    <2>1. Observes(t) = <<c, spec, {}>> \/ Observes(t) = <<c, spec, batch[t]>>
      BY <1>13 DEF Observes, c
    <2>2. QED
      BY <2>1, <1>11
  <1>14. QED
    BY <1>9, <1>10, <1>12, <1>13

------------------------------------------------------------------------------
(* Jobs and calls                                                           *)

\* The step a job is at tells its kind, and going on it stays a job.
LEMMA JobSteps ==
    ASSUME TypeOK, NEW e \in Executors, todo[e] # None
    PROVE  /\ todo[e] \in Jobs
           /\ todo[e].step \in {"lock", "learn", "traced"} =>
                  /\ todo[e].items \in Seq(Instances) \ {<<>>}
                  /\ \A step \in {"lock", "learn", "traced"} :
                        [todo[e] EXCEPT !.step = step] \in Jobs
           /\ todo[e].step \in {"compile", "store"} =>
                  /\ todo[e].form \in Forms /\ todo[e].spec \in Specs
                  /\ \A step \in {"compile", "store"} :
                        [todo[e] EXCEPT !.step = step] \in Jobs
  <1>1. todo[e] \in Jobs
    BY DEF TypeOK
  <1>2. CASE todo[e] \in [kind : {"learn"}, step : {"lock", "learn", "traced"},
                          items : Seq(Instances) \ {<<>>}]
    BY <1>1, <1>2 DEF Jobs
  <1>3. CASE todo[e] \in [kind : {"make"}, step : {"compile", "store"},
                          form : Forms, spec : Specs]
    BY <1>1, <1>3 DEF Jobs
  <1>4. QED
    BY <1>1, <1>2, <1>3 DEF Jobs

\* A job handed to the background or to the caller keeps both well formed.
LEMMA DispatchOK ==
    ASSUME TypeOK, NEW t \in Threads, NEW f, NEW job \in Jobs, Dispatches(t, f, job)
    PROVE  /\ queue' \in Seq(Jobs)
           /\ todo' \in [Executors -> Jobs \cup {None}]
  <1>1. t \in Executors
    BY DEF Executors
  <1>2. queue \in Seq(Jobs) /\ todo \in [Executors -> Jobs \cup {None}]
    BY DEF TypeOK
  <1>3. CASE f \in Submits
    BY <1>2, <1>3 DEF Dispatches
  <1>4. CASE f \notin Submits
    BY <1>1, <1>2, <1>4 DEF Dispatches
  <1>5. QED
    BY <1>3, <1>4

\* A thread that goes on with what it runs keeps it in order.
LEMMA RanStays ==
    ASSUME NEW t, RanOK(t), ran'[t] \in {ran[t], None},
           ran[t] # None => ran[t].ver \in Nat,
           learned \in ChoicesSet, learned' \in ChoicesSet, Advances(learned, learned')
    PROVE  RanOK(t)'
  <1>1. learned.version \in Nat /\ learned'.version \in Nat
    BY DEF ChoicesSet
  <1>2. CASE ran'[t] = None
    BY <1>2 DEF RanOK
  <1>3. CASE ran'[t] = ran[t] /\ ran[t] # None
    <2>1. ran[t].ver \in Nat /\ ran[t].ver <= learned.version
      BY <1>3 DEF RanOK
    <2>2. ran[t].ver <= learned'.version
      BY <1>1, <2>1 DEF Advances
    <2>3. ASSUME ~learned'.off, ran[t].ver = learned'.version
          PROVE  ran[t].pins = Pinned(learned')
      <3>1. learned'.version = learned.version /\ ~learned.off
        BY <1>1, <2>1, <2>3 DEF Advances
      <3>2. ran[t].pins = Pinned(learned)
        BY <1>3, <2>3, <3>1 DEF RanOK
      <3>3. QED
        BY <2>3, <3>1, <3>2 DEF Advances
    <2>4. QED
      BY <1>3, <2>2, <2>3 DEF RanOK
  <1>4. QED
    BY <1>2, <1>3

\* Where the record stays, so does what the threads that stay run.
LEMMA RanUnmoved ==
    ASSUME TypeOK, NEW t, RanOK(t), ran'[t] \in {ran[t], None}, UNCHANGED learned
    PROVE  RanOK(t)'
  BY DEF RanOK, Pinned

\* The record and the main phase left alone agree as before.
LEMMA AgreeUnmoved ==
    ASSUME Agree(learned, spec), UNCHANGED <<learned, spec>>
    PROVE  Agree(learned, spec)'
  BY DEF Agree, Pinned

------------------------------------------------------------------------------
(* One lemma per action                                                     *)

\* At first nothing is learned.
LEMMA InitOK == Init => IInv
  <1> SUFFICES ASSUME Init PROVE IInv
    OBVIOUS
  <1>1. NoChoices \in ChoicesSet /\ ~NoChoices.off /\ NoChoices.built = 0
        /\ NoChoices.version = 0 /\ NoChoices.unpinned = {}
    BY DEF NoChoices, ChoicesSet
  <1>2. Cardinality({}) = 0
    BY FS_EmptySet
  <1>3. Agree(learned, spec)
    BY <1>1, <1>2 DEF Init, Agree
  <1>4. (CHOOSE f \in Forms : TRUE) \in Forms
    BY BodyChoicesAssumption
  <1>5. TypeOK
    <2>1. <<>> \in Seq(Jobs) /\ <<>> \in Seq(Instances) /\ 0 \in 0..MaxBatches
      BY BodyChoicesAssumption
    <2>2. queue \in Seq(Jobs) /\ rows \in [Threads -> Seq(Instances)] /\ begun \in 0..MaxBatches
      BY <2>1 DEF Init
    <2>3. /\ learned \in ChoicesSet /\ lock \in Executors \cup {None}
          /\ spec \in Specs \cup {None} /\ tracing \in BOOLEAN
          /\ specMade \in [Forms -> Specs \cup {None}] /\ specMaking \in [Forms -> Nat]
          /\ todo \in [Executors -> Jobs \cup {None}]
      BY <1>1 DEF Init
    <2>4. /\ pc \in [Threads -> {"idle", "spec", "code", "asked", "run", "observe", "trace"}]
          /\ form \in [Threads -> Forms] /\ batch \in [Threads -> SUBSET Instances]
          /\ ran \in [Threads -> Specs \cup {None}]
      BY <1>4 DEF Init
    <2>5. QED
      BY <2>2, <2>3, <2>4 DEF TypeOK
  <1>6. \A t \in Threads : RanOK(t) /\ CallOK(t)
    BY DEF Init, RanOK, CallOK
  <1>7. QED
    BY <1>3, <1>5, <1>6 DEF IInv

\* The background takes a job.
LEMMA TakeOK == IInv /\ Take => IInv'
  <1> SUFFICES ASSUME IInv, Take PROVE IInv'
    OBVIOUS
  <1>1. TypeOK'
    <2>1. Worker \in Executors
      BY DEF Executors
    <2>2. Head(queue) \in Jobs /\ Tail(queue) \in Seq(Jobs)
      BY DEF IInv, TypeOK, Take
    <2>3. todo' \in [Executors -> Jobs \cup {None}] /\ queue' \in Seq(Jobs)
      BY <2>1, <2>2 DEF IInv, TypeOK, Take
    <2>4. QED
      BY <2>3 DEF IInv, TypeOK, Take, caller
  <1>2. Agree(learned, spec)'
    BY AgreeUnmoved DEF IInv, Take
  <1>3. \A t \in Threads : RanOK(t)' /\ CallOK(t)'
    BY DEF IInv, Take, caller, RanOK, CallOK, Pinned
  <1>4. QED
    BY <1>1, <1>2, <1>3 DEF IInv

\* A job that compiles or lands leaves record, main phase and calls alone.
LEMMA MakeOK ==
    ASSUME IInv, NEW e \in Executors, CompileSpec(e) \/ StoreSpec(e)
    PROVE  IInv'
  <1>1. UNCHANGED <<learned, spec, lock, tracing, specMaking, queue, caller>>
    BY DEF CompileSpec, StoreSpec
  <1>2. todo[e] # None /\ todo[e].step \in {"compile", "store"}
    BY DEF CompileSpec, StoreSpec, At
  <1>3. todo[e].form \in Forms /\ todo[e].spec \in Specs
        /\ [todo[e] EXCEPT !.step = "store"] \in Jobs
    BY <1>2, JobSteps DEF IInv
  <1>4. todo' \in [Executors -> Jobs \cup {None}]
    <2>1. todo' = [todo EXCEPT ![e] = [todo[e] EXCEPT !.step = "store"]]
          \/ todo' = [todo EXCEPT ![e] = None]
      BY DEF CompileSpec, StoreSpec, Goes, Ends, IInv, TypeOK
    <2>2. QED
      BY <1>3, <2>1 DEF IInv, TypeOK
  <1>5. specMade' \in [Forms -> Specs \cup {None}]
    BY <1>3 DEF CompileSpec, StoreSpec, IInv, TypeOK
  <1>6. TypeOK'
    BY <1>1, <1>4, <1>5 DEF IInv, TypeOK, caller
  <1>7. Agree(learned, spec)'
    BY <1>1, AgreeUnmoved DEF IInv
  <1>8. \A t \in Threads : RanOK(t)' /\ CallOK(t)'
    BY <1>1 DEF IInv, caller, RanOK, CallOK, Pinned
  <1>9. QED
    BY <1>6, <1>7, <1>8 DEF IInv

\* The lock taken, or the trace's end: the record stays.
LEMMA LearnEndsOK ==
    ASSUME IInv, NEW e \in Executors, LearnLock(e) \/ TraceEnds(e)
    PROVE  IInv'
  <1>1. UNCHANGED <<learned, spec, specMade, specMaking, queue, caller>>
    BY DEF LearnLock, TraceEnds
  <1>2. todo[e] # None /\ todo[e].step \in {"lock", "learn", "traced"}
    BY DEF LearnLock, TraceEnds, At
  <1>3. [todo[e] EXCEPT !.step = "learn"] \in Jobs
    BY <1>2, JobSteps DEF IInv
  <1>4. todo' \in [Executors -> Jobs \cup {None}]
    <2>1. todo' = [todo EXCEPT ![e] = [todo[e] EXCEPT !.step = "learn"]]
          \/ todo' = [todo EXCEPT ![e] = None]
      BY DEF LearnLock, TraceEnds, Goes, Ends, IInv, TypeOK
    <2>2. QED
      BY <1>3, <2>1 DEF IInv, TypeOK
  <1>5. lock' \in Executors \cup {None} /\ tracing' \in BOOLEAN
    BY DEF LearnLock, TraceEnds, IInv, TypeOK
  <1>6. TypeOK'
    BY <1>1, <1>4, <1>5 DEF IInv, TypeOK, caller
  <1>7. Agree(learned, spec)'
    BY <1>1, AgreeUnmoved DEF IInv
  <1>8. \A t \in Threads : RanOK(t)' /\ CallOK(t)'
    BY <1>1 DEF IInv, caller, RanOK, CallOK, Pinned
  <1>9. QED
    BY <1>6, <1>7, <1>8 DEF IInv

\* What learn makes of record and main phase.
LEMMA LearnAgrees ==
    ASSUME IInv, NEW e \in Executors, Learn(e)
    PROVE  /\ Agree(learned, spec)' /\ Advances(learned, learned')
           /\ learned'.flips = learned.flips
  <1> DEFINE items == todo[e].items
             ts == [i \in DOMAIN items |-> Takes[items[i]]]
  <1>1. items \in Seq(Instances) \ {<<>>}
    BY JobSteps DEF IInv, Learn, At
  <1>2. Len(items) \in Nat \ {0} /\ ts \in [1..Len(items) -> Traces]
    BY <1>1, BodyChoicesAssumption
  <1>3. CASE learned.off
    <2>1. learned' = learned /\ spec' = spec
      BY <1>3 DEF Learn
    <2>2. Advances(learned, learned)
      BY DEF Advances, IInv, Agree, ChoicesSet
    <2>3. QED
      BY <2>1, <2>2, AgreeUnmoved DEF IInv
  <1>4. CASE ~learned.off
    <2> DEFINE r == Taught(learned, ts)
    <2>1. learned' = r[1] /\ spec' = r[2]
      BY <1>4 DEF Learn
    <2>2. Agree(r[1], r[2]) /\ Advances(learned, r[1]) /\ r[1].flips = learned.flips
      BY <1>2, <1>4, TaughtOK DEF IInv
    <2> HIDE DEF r
    <2>3. Agree(learned', spec')
      BY <2>1, <2>2
    <2>4. QED
      BY <2>1, <2>2, <2>3 DEF Agree, Pinned
  <1>5. QED
    BY <1>3, <1>4

\* A job teaches the record the arms its rows took.
LEMMA LearnOK ==
    ASSUME IInv, NEW e \in Executors, Learn(e)
    PROVE  IInv'
  <1>1. UNCHANGED <<tracing, specMade, specMaking, queue, caller>>
    BY DEF Learn
  <1>2. Agree(learned, spec)' /\ Advances(learned, learned')
    BY LearnAgrees
  <1>3. learned' \in ChoicesSet /\ spec' \in Specs \cup {None}
    BY <1>2 DEF Agree
  <1>4. todo' \in [Executors -> Jobs \cup {None}]
    <2>1. [todo[e] EXCEPT !.step = "traced"] \in Jobs
      BY JobSteps DEF IInv, Learn, At
    <2>2. todo' = [todo EXCEPT ![e] = [todo[e] EXCEPT !.step = "traced"]]
      BY DEF Learn, Goes, IInv, TypeOK
    <2>3. QED
      BY <2>1, <2>2 DEF IInv, TypeOK
  <1>5. lock' = None
    BY DEF Learn
  <1>6. TypeOK'
    BY <1>1, <1>3, <1>4, <1>5 DEF IInv, TypeOK, caller
  <1>7. \A t \in Threads : RanOK(t)'
    <2>1. ASSUME NEW t \in Threads PROVE RanOK(t)'
      <3>1. ran[t] # None => ran[t].ver \in Nat
        BY DEF IInv, TypeOK, Specs
      <3>2. RanOK(t) /\ ran'[t] \in {ran[t], None} /\ learned \in ChoicesSet
        BY <1>1 DEF IInv, TypeOK, caller
      <3>3. QED
        BY <1>2, <1>3, <3>1, <3>2, RanStays
    <2>2. QED
      BY <2>1
  <1>8. \A t \in Threads : CallOK(t)'
    BY <1>1 DEF IInv, caller, CallOK
  <1>9. QED
    BY <1>2, <1>6, <1>7, <1>8 DEF IInv

\* The steps of a call that leave the record alone.
LEMMA BeginOK ==
    ASSUME IInv, NEW t \in Threads, Begin(t)
    PROVE  IInv'
  <1>1. UNCHANGED <<learned, lock, spec, tracing, specMade, specMaking, queue, todo, rows>>
    BY DEF Begin
  <1>2. /\ form' \in [Threads -> Forms] /\ batch' \in [Threads -> SUBSET Instances]
        /\ pc' = [pc EXCEPT ![t] = "spec"] /\ ran' = [ran EXCEPT ![t] = None]
    BY BodyChoicesAssumption DEF Begin, IInv, TypeOK
  <1>3. begun' \in 0..MaxBatches
    BY BodyChoicesAssumption DEF Begin, IInv, TypeOK
  <1>4. TypeOK'
    BY <1>1, <1>2, <1>3 DEF IInv, TypeOK
  <1>5. Agree(learned, spec)'
    BY <1>1, AgreeUnmoved DEF IInv
  <1>6. \A u \in Threads : RanOK(u)' /\ CallOK(u)'
    <2>1. ASSUME NEW u \in Threads PROVE RanOK(u)' /\ CallOK(u)'
      <3>1. ran'[u] \in {ran[u], None}
        BY <1>2 DEF IInv, TypeOK
      <3>2. RanOK(u)'
        BY <1>1, <3>1, RanUnmoved DEF IInv
      <3>3. CallOK(u)'
        BY <1>1, <1>2 DEF IInv, TypeOK, CallOK
      <3>4. QED
        BY <3>2, <3>3
    <2>2. QED
      BY <2>1
  <1>7. QED
    BY <1>4, <1>5, <1>6 DEF IInv

\* A batch copies the shortened main phase there is.
LEMMA ReadSpecOK ==
    ASSUME IInv, NEW t \in Threads, ReadSpec(t)
    PROVE  IInv'
  <1>1. UNCHANGED <<learned, lock, spec, tracing, specMade, specMaking, queue, todo,
                    form, batch, rows, begun>>
    BY DEF ReadSpec
  <1>2. /\ ran' = [ran EXCEPT ![t] = spec]
        /\ \E step \in {"code", "run"} :
              pc' = [pc EXCEPT ![t] = step] /\ (step = "code" => spec # None)
    BY DEF ReadSpec
  <1>3. TypeOK'
    BY <1>1, <1>2 DEF IInv, TypeOK
  <1>4. Agree(learned, spec)'
    BY <1>1, AgreeUnmoved DEF IInv
  <1>5. \A u \in Threads : RanOK(u)' /\ CallOK(u)'
    <2>1. ASSUME NEW u \in Threads PROVE RanOK(u)' /\ CallOK(u)'
      <3>1. RanOK(u)'
        <4>1. CASE u = t
          <5>1. ran'[u] = spec
            BY <1>2, <4>1 DEF IInv, TypeOK
          <5>2. spec # None => spec.ver <= learned.version /\ spec.pins = Pinned(learned)
            BY DEF IInv, Agree, ChoicesSet
          <5>3. QED
            BY <1>1, <5>1, <5>2 DEF RanOK, Pinned
        <4>2. CASE u # t
          <5>1. ran'[u] = ran[u]
            BY <1>2, <4>2 DEF IInv, TypeOK
          <5>2. QED
            BY <1>1, <5>1, RanUnmoved DEF IInv
        <4>3. QED
          BY <4>1, <4>2
      <3>2. CallOK(u)'
        BY <1>1, <1>2 DEF IInv, TypeOK, CallOK
      <3>3. QED
        BY <3>1, <3>2
    <2>2. QED
      BY <2>1
  <1>6. QED
    BY <1>3, <1>4, <1>5 DEF IInv

\* A batch finds the code of what it copied.
LEMMA FindCodeOK ==
    ASSUME IInv, NEW t \in Threads, FindCode(t)
    PROVE  IInv'
  <1>1. UNCHANGED <<learned, lock, spec, tracing, specMade, form, batch, rows, begun>>
    BY DEF FindCode
  <1>2. ran[t] \in Specs /\ form[t] \in Forms
    BY DEF IInv, TypeOK, CallOK, FindCode
  <1>3. MakeJob(form[t], ran[t]) \in Jobs
    BY <1>2 DEF MakeJob, Jobs
  <1>4. queue' \in Seq(Jobs) /\ todo' \in [Executors -> Jobs \cup {None}]
    <2>1. CASE Dispatches(t, form[t], MakeJob(form[t], ran[t]))
      BY <1>3, <2>1, DispatchOK DEF IInv
    <2>2. CASE UNCHANGED <<queue, todo>>
      BY <2>2 DEF IInv, TypeOK
    <2>3. QED
      BY <2>1, <2>2 DEF FindCode
  <1>5. specMaking' \in [Forms -> Nat]
    BY <1>2 DEF FindCode, IInv, TypeOK, Specs
  <1>6. /\ ran' = ran \/ ran' = [ran EXCEPT ![t] = None]
        /\ pc' = [pc EXCEPT ![t] = "run"] \/ pc' = [pc EXCEPT ![t] = "asked"]
    BY DEF FindCode
  <1>7. ran' \in [Threads -> Specs \cup {None}]
        /\ \A u \in Threads : ran'[u] \in {ran[u], None}
    BY <1>6 DEF IInv, TypeOK
  <1>8. pc' \in [Threads -> {"idle", "spec", "code", "asked", "run", "observe", "trace"}]
    BY <1>6 DEF IInv, TypeOK
  <1>9. TypeOK'
    BY <1>1, <1>4, <1>5, <1>7, <1>8 DEF IInv, TypeOK
  <1>10. Agree(learned, spec)'
    BY <1>1, AgreeUnmoved DEF IInv
  <1>11. \A u \in Threads : RanOK(u)'
    BY <1>1, <1>7, RanUnmoved DEF IInv
  <1>12. \A u \in Threads : CallOK(u)'
    <2>1. ASSUME NEW u \in Threads PROVE CallOK(u)'
      <3>1. CASE u = t
        BY <1>6, <3>1 DEF IInv, TypeOK, CallOK
      <3>2. CASE u # t
        BY <1>1, <1>6, <3>2 DEF IInv, TypeOK, CallOK
      <3>3. QED
        BY <3>1, <3>2
    <2>2. QED
      BY <2>1
  <1>13. QED
    BY <1>9, <1>10, <1>11, <1>12 DEF IInv

\* Code awaited, or a batch run: the call goes on with what it has, or none.
LEMMA AskedOK ==
    ASSUME IInv, NEW t \in Threads, Asked(t)
    PROVE  IInv'
  <1>1. UNCHANGED <<learned, lock, spec, tracing, specMade, specMaking, queue, todo,
                    form, batch, rows, begun>>
    BY DEF Asked
  <1>2. /\ pc' = [pc EXCEPT ![t] = "run"]
        /\ \E r \in {ran[t], None} : ran' = [ran EXCEPT ![t] = r]
    BY DEF Asked
  <1>3. ran' \in [Threads -> Specs \cup {None}]
        /\ \A u \in Threads : ran'[u] \in {ran[u], None}
    BY <1>2 DEF IInv, TypeOK
  <1>4. TypeOK'
    BY <1>1, <1>2, <1>3 DEF IInv, TypeOK
  <1>5. Agree(learned, spec)'
    BY <1>1, AgreeUnmoved DEF IInv
  <1>6. \A u \in Threads : RanOK(u)'
    BY <1>1, <1>3, RanUnmoved DEF IInv
  <1>7. \A u \in Threads : CallOK(u)'
    <2>1. ASSUME NEW u \in Threads PROVE CallOK(u)'
      <3>1. CASE u = t
        BY <1>2, <3>1 DEF IInv, TypeOK, CallOK
      <3>2. CASE u # t
        BY <1>1, <1>2, <3>2 DEF IInv, TypeOK, CallOK
      <3>3. QED
        BY <3>1, <3>2
    <2>2. QED
      BY <2>1
  <1>8. QED
    BY <1>4, <1>5, <1>6, <1>7 DEF IInv

\* A batch has run, and is counted if nobody holds the lock.
LEMMA RunOK ==
    ASSUME IInv, NEW t \in Threads, Run(t)
    PROVE  IInv'
  <1>1. UNCHANGED <<learned, spec, tracing, specMade, specMaking, queue, todo, form,
                    batch, rows, ran, begun>>
    BY DEF Run
  <1>2. /\ \E step \in {"idle", "observe"} : pc' = [pc EXCEPT ![t] = step]
        /\ lock' \in Executors \cup {None}
    BY DEF Run, IInv, TypeOK, Executors
  <1>3. TypeOK'
    BY <1>1, <1>2 DEF IInv, TypeOK
  <1>4. Agree(learned, spec)'
    BY <1>1, AgreeUnmoved DEF IInv
  <1>5. \A u \in Threads : RanOK(u)'
    BY <1>1, RanUnmoved DEF IInv
  <1>6. \A u \in Threads : CallOK(u)'
    BY <1>1, <1>2 DEF IInv, TypeOK, CallOK
  <1>7. QED
    BY <1>3, <1>4, <1>5, <1>6 DEF IInv

\* Instances to trace are instances of the batch, one at least.
LEMMA SpreadsOK ==
    ASSUME NEW S \in SUBSET Instances, S # {}, NEW q \in Spreads(S)
    PROVE  q \in Seq(Instances) \ {<<>>}
  <1> DEFINE n == Cardinality(S)
             m == IF n < Traced THEN n ELSE Traced
  <1>1. IsFiniteSet(S)
    BY FS_Subset, BodyChoicesAssumption
  <1>2. n \in Nat /\ n # 0
    BY <1>1, FS_CardinalityType, FS_EmptySet
  <1>3. m \in Nat \ {0}
    BY <1>2, BodyChoicesAssumption
  <1>4. q \in [1..m -> S]
    BY DEF Spreads
  <1> HIDE DEF m
  <1>5. q \in [1..m -> Instances]
    BY <1>4
  <1>6. q \in Seq(Instances) /\ Len(q) = m
    BY <1>3, <1>5
  <1>7. QED
    BY <1>3, <1>6

\* A batch is counted, and what is to be traced picked.
LEMMA ObserveBatchOK ==
    ASSUME IInv, NEW t \in Threads, ObserveBatch(t)
    PROVE  IInv'
  <1> DEFINE r == Observes(t)
  <1>1. UNCHANGED <<tracing, specMade, specMaking, queue, todo, form, batch, ran, begun>>
        /\ lock' = None /\ learned' = r[1] /\ spec' = r[2]
    BY DEF ObserveBatch
  <1>2. batch[t] \in SUBSET Instances
    BY DEF IInv, TypeOK
  <1>3. Agree(r[1], r[2]) /\ Advances(learned, r[1]) /\ r[3] \in SUBSET Instances
    BY <1>2, ObservesOK DEF IInv
  <1>4. \/ pc' = [pc EXCEPT ![t] = "idle"] /\ rows' = rows
        \/ /\ pc' = [pc EXCEPT ![t] = "trace"]
           /\ \E q \in Seq(Instances) \ {<<>>} : rows' = [rows EXCEPT ![t] = q]
    <2>1. CASE r[3] = {}
      BY <2>1 DEF ObserveBatch
    <2>2. CASE r[3] # {}
      <3>1. pc' = [pc EXCEPT ![t] = "trace"]
            /\ \E q \in Spreads(r[3]) : rows' = [rows EXCEPT ![t] = q]
        BY <2>2 DEF ObserveBatch
      <3> HIDE DEF r
      <3>2. PICK q \in Spreads(r[3]) : rows' = [rows EXCEPT ![t] = q]
        BY <3>1
      <3>3. q \in Seq(Instances) \ {<<>>}
        BY <1>3, <2>2, SpreadsOK
      <3>4. QED
        BY <3>1, <3>2, <3>3
    <2>3. QED
      BY <2>1, <2>2
  <1> HIDE DEF r
  <1>5. Agree(learned', spec')
    BY <1>1, <1>3
  <1>6. Agree(learned, spec)' /\ Advances(learned, learned')
    BY <1>1, <1>3, <1>5 DEF Agree, Pinned
  <1>7. learned' \in ChoicesSet /\ spec' \in Specs \cup {None}
    BY <1>5 DEF Agree
  <1>8. pc' \in [Threads -> {"idle", "spec", "code", "asked", "run", "observe", "trace"}]
        /\ rows' \in [Threads -> Seq(Instances)]
    BY <1>4 DEF IInv, TypeOK
  <1>9. TypeOK'
    BY <1>1, <1>7, <1>8 DEF IInv, TypeOK
  <1>10. \A u \in Threads : RanOK(u)'
    <2>1. ASSUME NEW u \in Threads PROVE RanOK(u)'
      <3>1. ran[u] # None => ran[u].ver \in Nat
        BY DEF IInv, TypeOK, Specs
      <3>2. RanOK(u) /\ ran'[u] \in {ran[u], None} /\ learned \in ChoicesSet
        BY <1>1 DEF IInv, TypeOK
      <3>3. QED
        BY <1>6, <1>7, <3>1, <3>2, RanStays
    <2>2. QED
      BY <2>1
  <1>11. \A u \in Threads : CallOK(u)'
    <2>1. ASSUME NEW u \in Threads PROVE CallOK(u)'
      <3>1. CASE u = t
        BY <1>4, <3>1 DEF IInv, TypeOK, CallOK
      <3>2. CASE u # t
        BY <1>1, <1>4, <3>2 DEF IInv, TypeOK, CallOK
      <3>3. QED
        BY <3>1, <3>2
    <2>2. QED
      BY <2>1
  <1>12. QED
    BY <1>6, <1>9, <1>10, <1>11 DEF IInv

\* The rows go to a job, or another job is tracing.
LEMMA TraceOK ==
    ASSUME IInv, NEW t \in Threads, Trace(t)
    PROVE  IInv'
  <1>1. UNCHANGED <<learned, lock, spec, specMade, specMaking, form, batch, ran, begun>>
    BY DEF Trace
  <1>2. LearnJob(rows[t]) \in Jobs
    <2>1. rows[t] \in Seq(Instances) \ {<<>>}
      BY DEF IInv, TypeOK, CallOK, Trace
    <2>2. QED
      BY <2>1 DEF LearnJob, Jobs
  <1>3. queue' \in Seq(Jobs) /\ todo' \in [Executors -> Jobs \cup {None}]
    <2>1. CASE Dispatches(t, form[t], LearnJob(rows[t]))
      BY <1>2, <2>1, DispatchOK DEF IInv
    <2>2. CASE UNCHANGED <<queue, todo>>
      BY <2>2 DEF IInv, TypeOK
    <2>3. QED
      BY <2>1, <2>2 DEF Trace
  <1>4. pc' = [pc EXCEPT ![t] = "idle"] /\ rows' = [rows EXCEPT ![t] = <<>>] /\ tracing' = TRUE
    BY DEF Trace
  <1>5. rows' \in [Threads -> Seq(Instances)]
        /\ pc' \in [Threads -> {"idle", "spec", "code", "asked", "run", "observe", "trace"}]
    <2>1. <<>> \in Seq(Instances)
      OBVIOUS
    <2>2. QED
      BY <1>4, <2>1 DEF IInv, TypeOK
  <1>6. TypeOK'
    BY <1>1, <1>3, <1>4, <1>5 DEF IInv, TypeOK
  <1>7. Agree(learned, spec)'
    BY <1>1, AgreeUnmoved DEF IInv
  <1>8. \A u \in Threads : RanOK(u)'
    BY <1>1, RanUnmoved DEF IInv
  <1>9. \A u \in Threads : CallOK(u)'
    <2>1. ASSUME NEW u \in Threads PROVE CallOK(u)'
      <3>1. CASE u = t
        BY <1>4, <3>1 DEF IInv, TypeOK, CallOK
      <3>2. CASE u # t
        BY <1>1, <1>4, <3>2 DEF IInv, TypeOK, CallOK
      <3>3. QED
        BY <3>1, <3>2
    <2>2. QED
      BY <2>1
  <1>10. QED
    BY <1>6, <1>7, <1>8, <1>9 DEF IInv

\* A step elsewhere.
LEMMA StutterOK == IInv /\ UNCHANGED vars => IInv'
  <1> SUFFICES ASSUME IInv, UNCHANGED vars PROVE IInv'
    OBVIOUS
  <1>1. UNCHANGED <<learned, lock, spec, tracing, specMade, specMaking, queue, todo,
                    pc, form, batch, rows, ran, begun>>
    BY DEF vars, caller
  <1>2. TypeOK'
    BY <1>1 DEF IInv, TypeOK
  <1>3. Agree(learned, spec)'
    BY <1>1, AgreeUnmoved DEF IInv
  <1>4. \A t \in Threads : RanOK(t)' /\ CallOK(t)'
    BY <1>1 DEF IInv, RanOK, CallOK, Pinned
  <1>5. QED
    BY <1>2, <1>3, <1>4 DEF IInv

\* Every step keeps the invariant.
LEMMA NextOK == IInv /\ [Next]_vars => IInv'
  <1> SUFFICES ASSUME IInv, [Next]_vars PROVE IInv'
    OBVIOUS
  <1>1. ASSUME NEW t \in Threads, Begin(t) \/ Step(t) PROVE IInv'
    BY <1>1, BeginOK, ReadSpecOK, FindCodeOK, AskedOK, RunOK, ObserveBatchOK, TraceOK DEF Step
  <1>2. ASSUME NEW e \in Executors, Work(e) PROVE IInv'
    BY <1>2, MakeOK, LearnEndsOK, LearnOK DEF Work
  <1>3. CASE Take
    BY <1>3, TakeOK
  <1>4. CASE Rests \/ UNCHANGED vars
    BY <1>4, StutterOK DEF Rests
  <1>5. QED
    BY <1>1, <1>2, <1>3, <1>4 DEF Next

------------------------------------------------------------------------------
(* Theorems                                                                 *)

\* Every behaviour stays within the invariant, for any number of threads,
\* forms, instances and selects and any policy (variant.rs:180-235, 536-709).
THEOREM Invariant == Spec => []IInv
  <1>1. QED
    BY InitOK, NextOK, PTL DEF Spec

\* The state keeps its type.
THEOREM TypeCorrect == Spec => []TypeOK
  <1>1. IInv => TypeOK
    BY DEF IInv
  <1>2. QED
    BY <1>1, Invariant, PTL

\* The shortened main phase the forms run is the one the record tells, of its
\* version and its pins (variant.rs:193-235).
THEOREM SpecStaysLearned == Spec => []SpecIsLearned
  <1>1. IInv => SpecIsLearned
    BY DEF IInv, Agree, SpecIsLearned
  <1>2. QED
    BY <1>1, Invariant, PTL

\* Once learning is off no shortened main phase is left, and none comes back
\* (variant.rs:199, 213, 660).
THEOREM OffStaysBare == Spec => []OffHasNoSpec
  <1>1. IInv => OffHasNoSpec
    BY DEF IInv, Agree, OffHasNoSpec
  <1>2. QED
    BY <1>1, Invariant, PTL

\* A variant is rebuilt once per select at most, and built once before
\* (variant.rs:206).
THEOREM RebuildsAreBounded == Spec => []BuiltPerSelect
  <1>1. IInv => BuiltPerSelect
    BY DEF IInv, Agree, BuiltPerSelect
  <1>2. QED
    BY <1>1, Invariant, PTL

\* What counts as a flip failed the guards of the main phase there is, never
\* only those of one replaced meanwhile (variant.rs:656).
THEOREM FlipsCountNow == Spec => FlipsAreOfSpec
  <1> DEFINE Flip ==
        learned'.flips # learned.flips =>
            \E t \in Threads :
                /\ pc[t] = "observe" /\ pc'[t] # "observe"
                /\ \E x \in batch[t] : ~Holds(Pinned(learned), x)
  <1>1. ASSUME IInv, NEW t \in Threads, ObserveBatch(t) PROVE Flip
    <2>1. SUFFICES ASSUME learned'.flips # learned.flips PROVE Flip
      OBVIOUS
    <2>2. ran[t] # None /\ ran[t].ver = learned.version /\ ~learned.off /\ Failed(t) # {}
      <3>1. Agree(learned, spec) /\ batch[t] \in SUBSET Instances
        BY <1>1 DEF IInv, TypeOK
      <3>2. learned' = Observes(t)[1]
        BY <1>1 DEF ObserveBatch
      <3>3. QED
        BY <2>1, <3>1, <3>2, ObservesOK
    <2>3. ran[t].pins = Pinned(learned)
      BY <1>1, <2>2 DEF IInv, RanOK
    <2>4. \E x \in batch[t] : ~Holds(Pinned(learned), x)
      BY <2>2, <2>3 DEF Failed
    <2>5. pc[t] = "observe" /\ pc'[t] # "observe"
      BY <1>1 DEF ObserveBatch, IInv, TypeOK
    <2>6. QED
      BY <2>4, <2>5
  <1>2. ASSUME IInv, NEW e \in Executors, Learn(e) PROVE Flip
    BY <1>2, LearnAgrees
  <1>3. ASSUME UNCHANGED learned PROVE Flip
    BY <1>3
  <1>4. IInv /\ [Next]_vars => Flip
    <2> SUFFICES ASSUME IInv, [Next]_vars PROVE Flip
      OBVIOUS
    <2> HIDE DEF Flip
    <2>1. ASSUME NEW t \in Threads, Begin(t) \/ Step(t) PROVE Flip
      BY <2>1, <1>1, <1>3 DEF Step, Begin, ReadSpec, FindCode, Asked, Run, Trace
    <2>2. ASSUME NEW e \in Executors, Work(e) PROVE Flip
      BY <2>2, <1>2, <1>3 DEF Work, CompileSpec, StoreSpec, LearnLock, TraceEnds
    <2>3. CASE Take \/ Rests \/ UNCHANGED vars
      BY <2>3, <1>3 DEF Take, Rests, vars
    <2>4. QED
      BY <2>1, <2>2, <2>3 DEF Next
  <1>5. QED
    BY <1>4, Invariant, PTL DEF Spec, FlipsAreOfSpec

\* Compiled code of a main phase is never replaced by that of an older one,
\* in whatever order the jobs end (variant.rs:557-559).
THEOREM CodeNeverRegresses == Spec => CodeIsNewest
  <1> DEFINE Newest ==
        \A f \in Forms : specMade[f] # None =>
            specMade'[f] # None /\ specMade'[f].ver >= specMade[f].ver
  <1>1. ASSUME IInv, specMade' = specMade PROVE Newest
    <2>1. \A f \in Forms : specMade[f] # None => specMade[f].ver \in Nat
      BY <1>1 DEF IInv, TypeOK, Specs
    <2>2. QED
      BY <1>1, <2>1
  <1>2. ASSUME IInv, NEW e \in Executors, StoreSpec(e) PROVE Newest
    <2> DEFINE s == todo[e].spec
    <2>1. s \in Specs /\ todo[e].form \in Forms /\ s.ver \in Nat /\ s # None
      BY <1>2, JobSteps, SpecAssumption DEF IInv, StoreSpec, At, Specs
    <2>2. ASSUME NEW f \in Forms, specMade[f] # None
          PROVE  specMade'[f] # None /\ specMade'[f].ver >= specMade[f].ver
      <3>1. specMade[f].ver \in Nat /\ specMade \in [Forms -> Specs \cup {None}]
        BY <1>2, <2>2 DEF IInv, TypeOK, Specs
      <3>2. \/ specMade'[f] = specMade[f]
            \/ specMade'[f] = s /\ specMade[f].ver < s.ver
        BY <1>2, <2>1, <2>2, <3>1 DEF StoreSpec
      <3>3. QED
        BY <2>1, <2>2, <3>1, <3>2
    <2>3. QED
      BY <2>2
  <1>3. IInv /\ [Next]_vars => Newest
    <2> SUFFICES ASSUME IInv, [Next]_vars PROVE Newest
      OBVIOUS
    <2> HIDE DEF Newest
    <2>1. ASSUME NEW t \in Threads, Begin(t) \/ Step(t) PROVE Newest
      BY <2>1, <1>1 DEF Step, Begin, ReadSpec, FindCode, Asked, Run, ObserveBatch, Trace
    <2>2. ASSUME NEW e \in Executors, Work(e) PROVE Newest
      BY <2>2, <1>1, <1>2 DEF Work, CompileSpec, LearnLock, Learn, TraceEnds
    <2>3. CASE Take \/ Rests \/ UNCHANGED vars
      BY <2>3, <1>1 DEF Take, Rests, vars
    <2>4. QED
      BY <2>1, <2>2, <2>3 DEF Next
  <1>4. QED
    BY <1>3, Invariant, PTL DEF Spec, CodeIsNewest
===============================================================================
