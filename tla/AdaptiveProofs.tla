---------------------------- MODULE AdaptiveProofs ----------------------------
(***************************************************************************)
(* Adaptive keeps its inductive invariant, for any threads, inputs and     *)
(* policies.  First what the operators on the cache do to it, each lemma   *)
(* with the relation of the cache before to the cache after that every     *)
(* form learned of before survives; then one lemma per action.             *)
(***************************************************************************)
EXTENDS Adaptive, ChoicesProofs

\* What is current in `st` is current or outdated in `st2`.
Evolves(st, st2) ==
    /\ st.choices.version <= st2.choices.version
    /\ st.choices.version = st2.choices.version /\ st.spec # None => st2.spec = st.spec

\* What every step must do.
Keeps == IInv' /\ Evolves(cache, cache')

------------------------------------------------------------------------------
(* The cache                                                                *)

\* A form that was of its version stays so, or becomes outdated, as the cache
\* evolves.
LEMMA CurrentStays ==
    ASSUME NEW st \in Caches, NEW st2 \in Caches, Evolves(st, st2),
           NEW form \in Specs, NEW ver \in Nat, Current(st, form, ver)
    PROVE  Current(st2, form, ver)
  <1>1. form # None
    BY MarkerAssumption
  <1>2. st.choices.version \in Nat /\ st2.choices.version \in Nat
    BY DEF Caches, ChoicesSet
  <1>3. QED
    BY <1>1, <1>2 DEF Current, Evolves

\* What is taken at an input is a trace.
LEMMA TakesType == \A i \in Inputs : Takes[i] \in Traces
  BY PolicyAssumption DEF Inputs

\* A traced evaluation with no code of a specialization leaves a cache in
\* order, at the same version.
LEMMA RetraceOK ==
    ASSUME NEW st \in Caches, NEW i \in Inputs, st.native = None
    PROVE  /\ CacheOK(Retrace(st, i))
           /\ Retrace(st, i).native = None
           /\ Retrace(st, i).choices.version = st.choices.version
  <1> DEFINE c == Observe(st.choices, Takes[i])
             ops == SpecOps(Selects \ c.unpinned)
             b == Built(c, ops, FullOps)
  <1>1. st.choices \in ChoicesSet
    BY DEF Caches
  <1>2. /\ c \in ChoicesSet /\ c.trace \in Traces
        /\ c.version = st.choices.version /\ c.off = st.choices.off
    BY <1>1, TakesType, ObserveType
  <1> HIDE DEF c
  <1>3. ops \in Nat /\ FullOps \in Nat
    BY PolicyAssumption
  <1>4. b \in ChoicesSet
    BY <1>2, <1>3, PolicyTypes
  <1>5. /\ b.version = c.version /\ b.trace = c.trace /\ b.unpinned = c.unpinned
        /\ ~b.off => ~c.off
    <2>1. CASE Shrinks(ops, FullOps)
      BY <1>2, <2>1 DEF Built, ChoicesSet
    <2>2. CASE ~Shrinks(ops, FullOps)
      BY <1>2, <2>2 DEF Built, ChoicesSet
    <2>3. QED
      BY <2>1, <2>2
  <1> HIDE DEF b, ops
  <1>6. CASE ~Ready(c)
    <2> DEFINE s == [st EXCEPT !.choices = c, !.spec = None]
    <2>1. Retrace(st, i) = s
      BY <1>6 DEF Retrace, c
    <2>2. /\ s \in Caches /\ s.native = None /\ s.spec = None /\ s.choices = c
      BY <1>2 DEF Caches
    <2>3. CacheOK(s)
      BY <2>2 DEF CacheOK
    <2>4. QED
      BY <1>2, <2>1, <2>2, <2>3
  <1>7. CASE Ready(c) /\ b.off
    <2> DEFINE s == [[st EXCEPT !.choices = b] EXCEPT !.choices.off = TRUE, !.spec = None,
                                                      !.native = None]
    <2>1. Retrace(st, i) = s
      BY <1>7 DEF Retrace, Disable, c, b, ops
    <2>2. /\ s \in Caches /\ s.native = None /\ s.spec = None
          /\ s.choices.version = b.version
      BY <1>4 DEF Caches, ChoicesSet
    <2>3. CacheOK(s)
      BY <2>2 DEF CacheOK
    <2>4. QED
      BY <1>2, <1>5, <2>1, <2>2, <2>3
  <1>8. CASE Ready(c) /\ ~b.off
    <2> DEFINE s == [st EXCEPT !.choices = b, !.spec = Pinned(c)]
    <2>1. Retrace(st, i) = s
      BY <1>8 DEF Retrace, c, b, ops
    <2>2. Pinned(c) \in Specs
      BY <1>2, PinnedType DEF Specs
    <2>3. Pinned(c) = Pinned(b)
      BY <1>5 DEF Pinned
    <2>4. /\ s \in Caches /\ s.native = None /\ s.spec = Pinned(b)
          /\ s.choices = b
      BY <1>4, <2>2, <2>3 DEF Caches
    <2>5. CacheOK(s)
      BY <1>2, <1>5, <1>8, <2>4 DEF CacheOK
    <2>6. QED
      BY <1>2, <1>5, <2>1, <2>4, <2>5
  <1>9. QED
    BY <1>6, <1>7, <1>8

\* A flip gives the cache a new version and drops the code.
LEMMA OnFlipOK ==
    ASSUME NEW st \in Caches, NEW i \in Inputs
    PROVE  /\ CacheOK(OnFlip(st, i))
           /\ OnFlip(st, i).choices.version = st.choices.version + 1
           /\ Evolves(st, OnFlip(st, i))
  <1> DEFINE n == NewVersion(st.choices)
             c == Flipped(Cool(n), 1)
             s == [st EXCEPT !.native = None, !.stable = 0, !.choices = c]
  <1>1. n \in ChoicesSet /\ n.version = st.choices.version + 1 /\ st.choices.version \in Nat
    BY PolicyTypes DEF Caches, NewVersion, ChoicesSet
  <1>2. Cool(n) \in ChoicesSet /\ Cool(n).version = n.version
    BY <1>1, PolicyTypes DEF Cool, ChoicesSet
  <1>3. c \in ChoicesSet /\ c.version = n.version
    BY <1>2, PolicyTypes DEF Flipped, ChoicesSet
  <1> HIDE DEF c
  <1>4. s \in Caches /\ s.native = None /\ s.choices = c
    BY <1>3 DEF Caches
  <1> HIDE DEF s
  <1>5. OnFlip(st, i) = IF c.off THEN Disable(s) ELSE Retrace(s, i)
    BY DEF OnFlip, c, s
  <1>6. /\ CacheOK(Disable(s))
        /\ Disable(s).choices.version = s.choices.version
    <2>1. /\ Disable(s) \in Caches
          /\ Disable(s).spec = None /\ Disable(s).native = None
          /\ Disable(s).choices.version = s.choices.version
      BY <1>4 DEF Disable, Caches, ChoicesSet
    <2>2. QED
      BY <2>1 DEF CacheOK
  <1>7. CacheOK(Retrace(s, i)) /\ Retrace(s, i).choices.version = s.choices.version
    BY <1>4, RetraceOK
  <1>8. /\ CacheOK(OnFlip(st, i))
        /\ OnFlip(st, i).choices.version = st.choices.version + 1
    BY <1>1, <1>3, <1>4, <1>5, <1>6, <1>7
  <1>9. Evolves(st, OnFlip(st, i))
    BY <1>1, <1>8 DEF Evolves
  <1>10. QED
    BY <1>8, <1>9

\* An evaluation counted, and code given up, leave the cache in order.
LEMMA RanOK ==
    ASSUME NEW st, CacheOK(st)
    PROVE  LET r == [st EXCEPT !.choices = Ran(@, 1)]
           IN  /\ CacheOK(r) /\ Evolves(st, r)
               /\ r.spec = st.spec /\ r.native = st.native
               /\ r.choices.version = st.choices.version
               /\ r.choices.off = st.choices.off
  <1> DEFINE c == Ran(st.choices, 1)
             r == [st EXCEPT !.choices = c]
  <1>1. st \in Caches /\ st.choices \in ChoicesSet
    BY DEF CacheOK, Caches
  <1>2. /\ c \in ChoicesSet /\ c.version = st.choices.version
        /\ c.off = st.choices.off /\ c.trace = st.choices.trace
        /\ c.unpinned = st.choices.unpinned
    BY <1>1, PolicyTypes DEF Ran, ChoicesSet
  <1> HIDE DEF c
  <1>3. r \in Caches /\ r.spec = st.spec /\ r.native = st.native /\ r.choices = c
    BY <1>1, <1>2 DEF Caches
  <1>4. Pinned(c) = Pinned(st.choices)
    BY <1>2 DEF Pinned
  <1>5. CacheOK(r)
    BY <1>2, <1>3, <1>4 DEF CacheOK
  <1>6. Evolves(st, r)
    <2>1. st.choices.version \in Nat
      BY <1>1 DEF ChoicesSet
    <2>2. QED
      BY <1>2, <1>3, <2>1 DEF Evolves
  <1>7. QED
    BY <1>2, <1>3, <1>5, <1>6 DEF c

\* Giving up the code of a specialization leaves the specialization.
LEMMA DropNativeOK ==
    ASSUME NEW st, CacheOK(st)
    PROVE  /\ CacheOK(DropNative(st)) /\ Evolves(st, DropNative(st))
           /\ DropNative(st).native = None
           /\ DropNative(st).spec = st.spec /\ DropNative(st).choices = st.choices
  <1>1. st \in Caches /\ st.choices.version \in Nat
    BY DEF CacheOK, Caches, ChoicesSet
  <1>2. CASE st.spec # None
    <2> DEFINE d == [st EXCEPT !.native = None]
    <2>1. d \in Caches /\ d.native = None /\ d.spec = st.spec /\ d.choices = st.choices
      BY <1>1 DEF Caches
    <2>2. CacheOK(d) /\ Evolves(st, d)
      BY <1>1, <2>1 DEF CacheOK, Evolves
    <2>3. QED
      BY <1>2, <2>1, <2>2 DEF DropNative
  <1>3. CASE st.spec = None
    <2>1. st.native = None
      <3>1. None \notin Specs \cup {Full}
        BY MarkerAssumption
      <3>2. QED
        BY <1>1, <1>3, <3>1 DEF CacheOK, Caches, Jobs
    <2>2. DropNative(st) = st
      BY <1>3 DEF DropNative
    <2>3. QED
      BY <1>1, <2>1, <2>2 DEF Evolves
  <1>4. QED
    BY <1>2, <1>3

\* A cache left alone has evolved.
LEMMA EvolvesReflexive ==
    ASSUME NEW st \in Caches
    PROVE  Evolves(st, st)
  <1>1. st.choices.version \in Nat
    BY DEF Caches, ChoicesSet
  <1>2. QED
    BY <1>1 DEF Evolves

\* What evolved into what evolves further evolved into that.
LEMMA EvolvesTransitive ==
    ASSUME NEW x \in Caches, NEW y \in Caches, NEW z \in Caches, Evolves(x, y), Evolves(y, z)
    PROVE  Evolves(x, z)
  <1>1. /\ x.choices.version \in Nat /\ y.choices.version \in Nat
        /\ z.choices.version \in Nat
    BY DEF Caches, ChoicesSet
  <1>2. QED
    BY <1>1 DEF Evolves

\* A guard-holding evaluation of what is current leaves the cache in order,
\* and submits only what is current.
LEMMA HeldOK ==
    ASSUME NEW st, CacheOK(st), NEW sp \in Specs, NEW ver \in Nat, Current(st, sp, ver),
           queue \in Seq(Jobs), Held(st, sp, ver)
    PROVE  /\ CacheOK(cache') /\ Evolves(st, cache')
           /\ queue' \in Seq(Jobs)
           /\ \A k \in DOMAIN queue' :
                 \/ k \in DOMAIN queue /\ queue'[k] = queue[k]
                 \/ Current(cache', queue'[k].form, queue'[k].ver)
  <1> DEFINE s == [st EXCEPT !.stable = @ + 1]
             s2 == [s EXCEPT !.inflight = TRUE, !.compiles = @ + 1]
             job == [form |-> sp, ver |-> ver]
  <1>1. st \in Caches
    BY DEF CacheOK
  <1>2. /\ s \in Caches /\ s.native = st.native /\ s.spec = st.spec
        /\ s.choices = st.choices
    BY <1>1 DEF Caches
  <1> HIDE DEF s
  <1>3. /\ s2 \in Caches /\ s2.native = st.native /\ s2.spec = st.spec
        /\ s2.choices = st.choices
    <2> DEFINE e == [s EXCEPT !.inflight = TRUE]
    <2>1. /\ e \in Caches /\ e.native = st.native /\ e.spec = st.spec
          /\ e.choices = st.choices
      BY <1>2 DEF Caches
    <2>2. s2 = [e EXCEPT !.compiles = @ + 1]
      BY <1>2 DEF Caches
    <2> HIDE DEF e, s2
    <2>3. QED
      BY <2>1, <2>2 DEF Caches
  <1> HIDE DEF s2
  <1>4. /\ CacheOK(s) /\ Current(s, sp, ver)
        /\ CacheOK(s2) /\ Current(s2, sp, ver)
    BY <1>2, <1>3 DEF CacheOK, Current
  <1>5. Evolves(st, s) /\ Evolves(st, s2)
    <2>1. st.choices.version \in Nat
      BY <1>1 DEF Caches, ChoicesSet
    <2>2. QED
      BY <1>2, <1>3, <2>1 DEF Evolves
  <1>6. CASE Submits(s, ver)
    <2>1. cache' = s2 /\ queue' = Append(queue, job)
      BY <1>6 DEF Held, s, s2
    <2>2. job \in Jobs
      BY DEF Jobs
    <2>3. queue' \in Seq(Jobs) /\ Len(queue') = Len(queue) + 1
      BY <2>1, <2>2
    <2>4. ASSUME NEW k \in DOMAIN queue'
          PROVE  \/ k \in DOMAIN queue /\ queue'[k] = queue[k]
                 \/ Current(cache', queue'[k].form, queue'[k].ver)
      <3>1. k = Len(queue) + 1 \/ (k \in DOMAIN queue /\ queue'[k] = queue[k])
        BY <2>1, <2>2, <2>3
      <3>2. CASE k = Len(queue) + 1
        <4>1. queue'[k] = job
          BY <2>1, <2>2, <3>2
        <4>2. QED
          BY <1>4, <2>1, <4>1
      <3>3. QED
        BY <3>1, <3>2
    <2>5. QED
      BY <1>4, <1>5, <2>1, <2>3, <2>4
  <1>7. CASE ~Submits(s, ver)
    <2>1. cache' = s /\ queue' = queue
      BY <1>7 DEF Held, s
    <2>2. QED
      BY <1>4, <1>5, <2>1
  <1>8. QED
    BY <1>6, <1>7

------------------------------------------------------------------------------
(* What a step does not disturb                                             *)

\* No marker is one of what it marks.
LEMMA MarkersApart ==
    /\ None \notin Specs \cup {Full} \cup Jobs
    /\ Full \notin Specs
    /\ None \notin Inputs
  BY MarkerAssumption

\* Compiles on their way stay in order while the cache evolves.
LEMMA JobStays ==
    ASSUME TypeOK, cache' \in Caches, Evolves(cache, cache')
    PROVE  \A job \in Jobs : JobOK(job) => JobOK(job)'
  <1> SUFFICES ASSUME NEW job \in Jobs, JobOK(job)
               PROVE  JobOK(job)'
    OBVIOUS
  <1>1. CASE job.form = Full
    BY <1>1 DEF JobOK
  <1>2. CASE job.form # Full
    <2>1. job.form \in Specs /\ job.ver \in Nat /\ Current(cache, job.form, job.ver)
      BY <1>2 DEF Jobs, JobOK
    <2>2. Current(cache', job.form, job.ver)
      BY <2>1, CurrentStays DEF TypeOK
    <2>3. QED
      BY <2>2 DEF JobOK
  <1>3. QED
    BY <1>1, <1>2

\* A step that asks for no compile leaves those on their way in order.
LEMMA CompilesStay ==
    ASSUME TypeOK, CompilesOK, cache' \in Caches, Evolves(cache, cache'),
           UNCHANGED <<queue, worker>>
    PROVE  CompilesOK'
  <1>1. \A job \in Jobs : JobOK(job) => JobOK(job)'
    BY JobStays
  <1>2. \A k \in DOMAIN queue : queue[k] \in Jobs
    BY DEF TypeOK
  <1>3. worker.job # None => worker.job \in Jobs
    BY DEF TypeOK
  <1>4. QED
    BY <1>1, <1>2, <1>3 DEF CompilesOK

\* A thread that takes no step stays in order while the cache evolves.
Untouched(u) ==
    /\ pc'[u] = pc[u] /\ call'[u] = call[u] /\ arg'[u] = arg[u] /\ bound'[u] = bound[u]
    /\ ep'[u] = ep[u] /\ work'[u] = work[u] /\ out'[u] = out[u]

\* An episode is of the specialization held, or outdated, as the cache evolves.
LEMMA EpisodeStays ==
    ASSUME TypeOK, NEW u \in Threads, EpisodeOK(u), ep'[u] = ep[u],
           cache' \in Caches, Evolves(cache, cache')
    PROVE  EpisodeOK(u)'
  <1>1. CASE ep[u].kind = "full"
    BY <1>1 DEF EpisodeOK
  <1>2. CASE ep[u].kind # "full"
    <2>1. /\ ep[u].sp \in Specs /\ ep[u].form = ep[u].sp /\ ep[u].ver \in Nat
          /\ Current(cache, ep[u].sp, ep[u].ver)
      BY <1>2 DEF EpisodeOK, TypeOK, Episodes
    <2>2. Current(cache', ep[u].sp, ep[u].ver)
      BY <2>1, CurrentStays DEF TypeOK
    <2>3. QED
      BY <1>2, <2>1, <2>2 DEF EpisodeOK
  <1>3. QED
    BY <1>1, <1>2

\* A caller the step leaves alone stays in order.
LEMMA UntouchedStays ==
    ASSUME TypeOK, NEW u \in Threads, EpisodeOK(u), CallOK(u), Untouched(u),
           cache' \in Caches, Evolves(cache, cache')
    PROVE  EpisodeOK(u)' /\ CallOK(u)'
  <1>1. EpisodeOK(u)'
    BY EpisodeStays DEF Untouched
  <1>2. CallOK(u)'
    BY DEF Untouched, CallOK, Prepared
  <1>3. QED
    BY <1>1, <1>2

\* A step of one thread keeps the invariant if it keeps the types, the cache,
\* the compiles and that thread in order.
LEMMA ThreadStep ==
    ASSUME IInv, NEW t \in Threads, TypeOK', CacheOK(cache'), Evolves(cache, cache'),
           CompilesOK', EpisodeOK(t)', CallOK(t)',
           \A u \in Threads \ {t} : Untouched(u)
    PROVE  Keeps
  <1>1. ASSUME NEW u \in Threads
        PROVE  (EpisodeOK(u) /\ CallOK(u))'
    <2>1. CASE u = t
      BY <2>1
    <2>2. CASE u # t
      BY <2>2, UntouchedStays DEF IInv, CacheOK
    <2>3. QED
      BY <2>1, <2>2
  <1>2. QED
    BY <1>1 DEF IInv, CacheOK, Keeps

\* A step of the background thread, or of a body, touches no caller.
LEMMA BackgroundStep ==
    ASSUME IInv, UNCHANGED threadVars, TypeOK', CacheOK(cache'), Evolves(cache, cache'),
           CompilesOK'
    PROVE  Keeps
  <1>1. ASSUME NEW u \in Threads
        PROVE  (EpisodeOK(u) /\ CallOK(u))'
    <2>1. Untouched(u)
      BY DEF threadVars, Untouched
    <2>2. QED
      BY <2>1, UntouchedStays DEF IInv, CacheOK
  <1>2. QED
    BY <1>1 DEF IInv, CacheOK, Keeps

------------------------------------------------------------------------------
(* The background compiler                                                  *)

\* The background takes a job: no form changes.
LEMMA TakeKeeps ==
    ASSUME IInv, Take
    PROVE  Keeps
  <1>1. /\ queue \in Seq(Jobs) /\ queue # <<>>
        /\ Head(queue) \in Jobs /\ Tail(queue) \in Seq(Jobs)
        /\ \A k \in DOMAIN Tail(queue) :
              k + 1 \in DOMAIN queue /\ Tail(queue)[k] = queue[k + 1]
        /\ Head(queue) = queue[1] /\ 1 \in DOMAIN queue
    BY DEF IInv, TypeOK, Take
  <1>2. /\ worker' = [job |-> Head(queue), step |-> "compile"] /\ queue' = Tail(queue)
        /\ UNCHANGED <<cache, lock, jit, bodyForms, threadVars>>
    BY DEF Take
  <1>3. TypeOK'
    BY <1>1, <1>2 DEF IInv, TypeOK, threadVars
  <1>4. CacheOK(cache') /\ Evolves(cache, cache')
    BY <1>2, EvolvesReflexive DEF IInv, CacheOK
  <1>5. CompilesOK'
    <2>1. \A job \in Jobs : JobOK(job) => JobOK(job)'
      BY <1>4, JobStays DEF IInv, CacheOK
    <2>2. \A k \in DOMAIN queue' :
             queue'[k] = queue[k + 1] /\ queue[k + 1] \in Jobs /\ JobOK(queue[k + 1])
      BY <1>1, <1>2 DEF IInv, CompilesOK
    <2>3. worker'.job = queue[1] /\ queue[1] \in Jobs /\ JobOK(queue[1])
          /\ worker'.step = "compile"
      BY <1>1, <1>2 DEF IInv, CompilesOK
    <2>4. queue[1] # None
      BY <2>3, MarkersApart
    <2>5. QED
      BY <2>1, <2>2, <2>3, <2>4 DEF CompilesOK
  <1>6. QED
    BY <1>2, <1>3, <1>4, <1>5, BackgroundStep

\* The steps that leave the cache and the queue as they are, the worker with
\* its job or none.
LEMMA WorkerKeeps ==
    ASSUME IInv, LandFull \/ Notify \/ LockSpec \/ PanicJob
    PROVE  Keeps
  <1>1. /\ UNCHANGED <<cache, bodyForms, queue, threadVars>>
        /\ \/ worker' = Idle
           \/ worker' = [worker EXCEPT !.step = "notify"] /\ worker.step = "compile"
           \/ /\ worker' = [worker EXCEPT !.step = "land"] /\ worker.step = "compile"
              /\ worker.job.form # Full
    BY DEF LandFull, Notify, LockSpec, PanicJob
  <1>2. /\ jit' \in Jits
        /\ lock' \in Threads \cup {Worker, None}
    <2>1. \A o \in FullOutcomes \ {"panic"} : o \in {"native", "failed"}
      BY PolicyAssumption DEF Outcomes
    <2>2. CASE LandFull
      BY <2>1, <2>2 DEF LandFull, IInv, TypeOK, Jits
    <2>3. CASE Notify
      BY <2>3 DEF Notify, IInv, TypeOK, Jits
    <2>4. CASE LockSpec \/ PanicJob
      BY <2>4 DEF LockSpec, PanicJob, IInv, TypeOK
    <2>5. QED
      BY <2>2, <2>3, <2>4
  <1>3. worker' \in [job : Jobs \cup {None}, step : {"idle", "compile", "notify", "land"}]
    BY <1>1 DEF IInv, TypeOK, Idle
  <1>4. TypeOK'
    BY <1>1, <1>2, <1>3 DEF IInv, TypeOK, threadVars
  <1>5. CacheOK(cache') /\ Evolves(cache, cache')
    BY <1>1, EvolvesReflexive DEF IInv, CacheOK
  <1>6. CompilesOK'
    <2>1. \A job \in Jobs : JobOK(job) => JobOK(job)'
      BY <1>5, JobStays DEF IInv, CacheOK
    <2>2. /\ \A k \in DOMAIN queue' : queue'[k] \in Jobs /\ JobOK(queue'[k])
          /\ worker.job # None => worker.job \in Jobs /\ JobOK(worker.job)
      BY <1>1 DEF IInv, CompilesOK, TypeOK
    <2>3. worker'.job = None \/ worker'.job = worker.job
      BY <1>1 DEF IInv, TypeOK, Idle
    <2>4. worker'.step # "idle" => worker'.job # None
      BY <1>1 DEF IInv, CompilesOK, TypeOK, Idle
    <2>5. worker'.step = "land" => worker'.job.form # Full
      BY <1>1 DEF IInv, CompilesOK, TypeOK, Idle
    <2>6. QED
      BY <2>1, <2>2, <2>3, <2>4, <2>5 DEF CompilesOK
  <1>7. QED
    BY <1>1, <1>4, <1>5, <1>6, BackgroundStep

\* The code of a specialization lands only while that one is held.
LEMMA LandSpecKeeps ==
    ASSUME IInv, LandSpec
    PROVE  Keeps
  <1>1. PICK o \in SpecOutcomes \ {"panic"} : cache' = Landed(o)
    BY DEF LandSpec
  <1>2. /\ worker' = Idle /\ lock' = None
        /\ UNCHANGED <<jit, bodyForms, queue, threadVars>>
        /\ worker.step = "land"
    BY DEF LandSpec, Unlock
  <1>3. /\ worker.job \in Jobs /\ worker.job.form # Full /\ JobOK(worker.job)
        /\ cache \in Caches
    BY <1>2 DEF IInv, TypeOK, CompilesOK
  <1> DEFINE lands == o = "native" /\ cache.choices.version = worker.job.ver
             n == IF lands THEN worker.job ELSE cache.native
  <1>4. /\ cache' \in Caches /\ cache'.spec = cache.spec /\ cache'.choices = cache.choices
        /\ cache'.native = n
    <2>1. n \in Jobs \cup {None}
      BY <1>3 DEF Caches
    <2>2. cache' = [cache EXCEPT !.inflight = FALSE, !.native = n]
      BY <1>1 DEF Landed
    <2> HIDE DEF n
    <2>3. QED
      BY <1>3, <2>1, <2>2 DEF Caches
  <1>5. lands => cache.spec = worker.job.form /\ cache.spec # None
    <2>1. worker.job.form # None
      BY <1>3, MarkersApart DEF Jobs
    <2>2. QED
      BY <1>3, <2>1 DEF JobOK, Current
  <1>6. CacheOK(cache')
    BY <1>4, <1>5 DEF IInv, CacheOK
  <1>7. Evolves(cache, cache')
    <2>1. cache.choices.version \in Nat
      BY <1>3 DEF Caches, ChoicesSet
    <2>2. QED
      BY <1>4, <2>1 DEF Evolves
  <1>8. TypeOK'
    BY <1>2, <1>4 DEF IInv, TypeOK, threadVars, Idle
  <1>9. CompilesOK'
    BY <1>2, <1>4 DEF IInv, CompilesOK, JobOK, Current, Idle
  <1>10. QED
    BY <1>2, <1>6, <1>7, <1>8, <1>9, BackgroundStep

\* A landing in a body changes nothing of the cache.
LEMMA BodyFormLandsKeeps ==
    ASSUME IInv, BodyFormLands
    PROVE  Keeps
  <1>1. UNCHANGED <<cache, lock, jit, queue, worker, threadVars>> /\ bodyForms' \in Nat
    BY DEF BodyFormLands, IInv, TypeOK
  <1>2. TypeOK'
    BY <1>1 DEF IInv, TypeOK, threadVars
  <1>3. CacheOK(cache') /\ Evolves(cache, cache')
    BY <1>1, EvolvesReflexive DEF IInv, CacheOK
  <1>4. CompilesOK'
    BY <1>1 DEF IInv, CompilesOK, JobOK
  <1>5. QED
    BY <1>1, <1>2, <1>3, <1>4, BackgroundStep

------------------------------------------------------------------------------
(* Parts of a caller's steps                                                *)

\* What is put behind the queue is the full tape's compile or a current one.
LEMMA QueueGrows ==
    ASSUME TypeOK, CompilesOK, cache' \in Caches, Evolves(cache, cache'),
           worker' = worker, queue' \in Seq(Jobs),
           \A k \in DOMAIN queue' :
              \/ k \in DOMAIN queue /\ queue'[k] = queue[k]
              \/ queue'[k].form = Full
              \/ Current(cache', queue'[k].form, queue'[k].ver)
    PROVE  CompilesOK'
  <1>1. \A job \in Jobs : JobOK(job) => JobOK(job)'
    BY JobStays
  <1>2. ASSUME NEW k \in DOMAIN queue'
        PROVE  JobOK(queue[k])'
    <2>1. CASE k \in DOMAIN queue /\ queue'[k] = queue[k]
      <3>1. queue[k] \in Jobs /\ JobOK(queue[k])
        BY <2>1 DEF TypeOK, CompilesOK
      <3>2. QED
        BY <1>1, <2>1, <3>1
    <2>2. CASE queue'[k].form = Full \/ Current(cache', queue'[k].form, queue'[k].ver)
      BY <2>2 DEF JobOK
    <2>3. QED
      BY <1>2, <2>1, <2>2
  <1>3. worker.job # None => JobOK(worker.job)'
    <2>1. worker.job # None => worker.job \in Jobs /\ JobOK(worker.job)
      BY DEF TypeOK, CompilesOK
    <2>2. QED
      BY <1>1, <2>1
  <1>4. QED
    BY <1>2, <1>3 DEF CompilesOK

Calls == {"eval", "prolog", "main", "reprolog"}

\* A call that starts asks for the full tape's compile at most.
LEMMA StartOK ==
    ASSUME TypeOK, NEW t \in Threads, NEW c \in Calls, Start(t, c)
    PROVE  /\ jit' \in Jits
           /\ queue' \in Seq(Jobs)
           /\ \A k \in DOMAIN queue' :
                 (k \in DOMAIN queue /\ queue'[k] = queue[k]) \/ queue'[k].form = Full
           /\ call' = [call EXCEPT ![t] = c]
           /\ \E step \in {"wait", IF c = "main" THEN "main" ELSE "rung"} :
                 pc' = [pc EXCEPT ![t] = step]
  <1> DEFINE kicks == Jit /\ (jit.evals + 1 >= KickAfter \/ jit.large) /\ ~jit.kicked
             kicked == jit.kicked \/ kicks
             job == [form |-> Full, ver |-> 0]
  <1>1. /\ jit' = [jit EXCEPT !.evals = jit.evals + 1, !.kicked = kicked]
        /\ queue' = IF kicks THEN Append(queue, job) ELSE queue
        /\ call' = [call EXCEPT ![t] = c]
        /\ \E step \in {"wait", IF c = "main" THEN "main" ELSE "rung"} :
              pc' = [pc EXCEPT ![t] = step]
    BY DEF Start, Enter, Goto
  <1>2. jit \in Jits /\ queue \in Seq(Jobs)
    BY DEF TypeOK
  <1>3. kicked \in BOOLEAN
    BY <1>2 DEF Jits
  <1> HIDE DEF kicks, kicked
  <1>4. jit' \in Jits
    <2>1. jit.evals + 1 \in Nat
      BY <1>2 DEF Jits
    <2>2. PICK e \in Nat, k \in BOOLEAN : jit' = [jit EXCEPT !.evals = e, !.kicked = k]
      BY <1>1, <1>3, <2>1, Zenon
    <2>3. QED
      BY <1>2, <2>2 DEF Jits
  <1>5. job \in Jobs
    BY DEF Jobs
  <1>6. /\ queue' \in Seq(Jobs)
        /\ \A k \in DOMAIN queue' :
              (k \in DOMAIN queue /\ queue'[k] = queue[k]) \/ queue'[k].form = Full
    <2>1. CASE kicks
      <3>1. queue' = Append(queue, job)
        BY <1>1, <2>1
      <3> HIDE DEF job
      <3>2. queue' \in Seq(Jobs) /\ Len(queue') = Len(queue) + 1
        BY <1>2, <1>5, <3>1
      <3>3. \A k \in DOMAIN queue' : (k \in DOMAIN queue /\ queue'[k] = queue[k]) \/ queue'[k] = job
        BY <1>2, <1>5, <3>1, <3>2
      <3>4. job.form = Full
        BY DEF job
      <3>5. QED
        BY <3>2, <3>3, <3>4
    <2>2. CASE ~kicks
      BY <1>1, <1>2, <2>2
    <2>3. QED
      BY <2>1, <2>2
  <1>7. QED
    BY <1>1, <1>4, <1>6

\* A call that returns is at rest, or goes on to its session's pass.
LEMMA ReturnOK ==
    ASSUME TypeOK, NEW t \in Threads, Return(t)
    PROVE  /\ jit' \in Jits
           /\ \/ /\ call[t] = "reprolog"
                 /\ pc' = [pc EXCEPT ![t] = "pass"] /\ call' = [call EXCEPT ![t] = "main"]
              \/ /\ call[t] # "reprolog"
                 /\ pc' = [pc EXCEPT ![t] = "idle"] /\ call' = call
  <1>1. PICK slow \in BOOLEAN : jit' = [jit EXCEPT !.large = @ \/ slow]
    BY DEF Return
  <1>2. jit' \in Jits
    <2>1. jit \in Jits
      BY DEF TypeOK
    <2>2. (jit.large \/ slow) \in BOOLEAN
      BY <2>1 DEF Jits
    <2>3. QED
      BY <1>1, <2>1, <2>2 DEF Jits
  <1>3. QED
    BY <1>2 DEF Return, Goto

\* A call served by a form that its buffer was laid out for.
LEMMA ServedKeeps ==
    ASSUME IInv, NEW t \in Threads, NEW form \in Specs \cup {Full}, pc[t] # "idle",
           Return(t), Laid(t, form), UNCHANGED <<bodyForms, worker, arg, bound>>,
           CacheOK(cache'), Evolves(cache, cache'),
           lock' \in Threads \cup {Worker, None},
           queue' \in Seq(Jobs),
           \A k \in DOMAIN queue' :
              \/ k \in DOMAIN queue /\ queue'[k] = queue[k]
              \/ queue'[k].form = Full
              \/ Current(cache', queue'[k].form, queue'[k].ver),
           NEW e \in Episodes, ep' = [ep EXCEPT ![t] = e], EpisodeOK(t)',
           call[t] = "eval" \/ e.form = form,
           NEW o, out' = [out EXCEPT ![t] = o],
           o = None \/ (call[t] # "reprolog" /\ o = arg[t])
    PROVE  Keeps
  <1>1. TypeOK /\ CallOK(t)
    BY DEF IInv
  <1>2. /\ jit' \in Jits
        /\ \/ /\ call[t] = "reprolog"
              /\ pc' = [pc EXCEPT ![t] = "pass"] /\ call' = [call EXCEPT ![t] = "main"]
           \/ /\ call[t] # "reprolog"
              /\ pc' = [pc EXCEPT ![t] = "idle"] /\ call' = call
    BY <1>1, ReturnOK
  <1>3. arg[t] \in Inputs /\ arg[t][1] \in Bindings
    BY <1>1 DEF TypeOK, Inputs
  <1>4. work' = [work EXCEPT ![t] = [layout |-> form, bind |-> arg[t][1]]]
    BY DEF Laid
  <1>5. TypeOK'
    <2>1. o \in Inputs \cup {Garbage, None}
      BY <1>3
    <2>2. pc' \in [Threads -> Steps] /\ call' \in [Threads -> {"eval", "prolog", "main", "reprolog"}]
      BY <1>1, <1>2 DEF TypeOK, Steps
    <2>3. work' \in [Threads -> Buffers]
      BY <1>1, <1>3, <1>4 DEF TypeOK, Buffers
    <2>4. ep' \in [Threads -> Episodes] /\ out' \in [Threads -> Inputs \cup {Garbage, None}]
      BY <1>1, <2>1 DEF TypeOK
    <2>5. QED
      BY <1>1, <1>2, <2>2, <2>3, <2>4 DEF TypeOK, CacheOK
  <1>6. CompilesOK'
    BY <1>1, QueueGrows DEF IInv, CacheOK
  <1>7. CallOK(t)'
    <2>1. /\ ep'[t] = e /\ out'[t] = o /\ arg'[t] = arg[t] /\ bound'[t] = bound[t]
          /\ work'[t] = [layout |-> form, bind |-> arg[t][1]]
      BY <1>1, <1>4 DEF TypeOK
    <2>2. bound[t] = IF call[t] = "eval" THEN None ELSE arg[t][1]
      BY <1>1 DEF CallOK
    <2>3. CASE call[t] = "reprolog"
      <3>1. pc'[t] = "pass" /\ call'[t] = "main" /\ o = None
        BY <1>1, <1>2, <2>3 DEF TypeOK
      <3>2. e.form = form
        BY <2>3
      <3>3. QED
        BY <2>1, <2>2, <2>3, <3>1, <3>2 DEF CallOK, Prepared
    <2>4. CASE call[t] # "reprolog"
      <3>1. pc'[t] = "idle" /\ call'[t] = call[t]
        BY <1>1, <1>2, <2>4 DEF TypeOK
      <3>2. QED
        BY <2>1, <2>2, <3>1 DEF CallOK, Prepared
    <2>5. QED
      BY <2>3, <2>4
  <1>8. \A u \in Threads \ {t} : Untouched(u)
    BY <1>1, <1>2, <1>4 DEF TypeOK, Untouched
  <1>9. QED
    BY <1>5, <1>6, <1>7, <1>8, ThreadStep

\* The lock is given back with the cache in order, and the full tape serves.
LEMMA ToFullKeeps ==
    ASSUME IInv, NEW t \in Threads, pc[t] = "locked", NEW st, ToFull(t, st), Unlock,
           UNCHANGED <<bodyForms, worker, arg, bound>>,
           CacheOK(st), Evolves(cache, st)
    PROVE  Keeps
  <1>1. TypeOK /\ CallOK(t) /\ EpisodeOK(t)
    BY DEF IInv
  <1>2. /\ cache' = st /\ pc' = [pc EXCEPT ![t] = "full"]
        /\ UNCHANGED <<jit, queue, call, ep, work, out>> /\ lock' = None
    BY DEF ToFull, Goto, Unlock
  <1>3. TypeOK'
    BY <1>1, <1>2 DEF TypeOK, CacheOK, Steps
  <1>4. CompilesOK'
    BY <1>1, <1>2, CompilesStay DEF IInv, CacheOK
  <1>5. EpisodeOK(t)'
    BY <1>1, <1>2, EpisodeStays DEF CacheOK
  <1>6. CallOK(t)'
    <2>1. pc'[t] = "full"
      BY <1>1, <1>2 DEF TypeOK
    <2>2. QED
      BY <1>1, <1>2, <2>1 DEF CallOK, Prepared
  <1>7. \A u \in Threads \ {t} : Untouched(u)
    BY <1>1, <1>2 DEF TypeOK, Untouched
  <1>8. QED
    BY <1>2, <1>3, <1>4, <1>5, <1>6, <1>7, ThreadStep

------------------------------------------------------------------------------
(* A caller's steps                                                         *)

\* A step that changes nothing but how far the caller is, and who holds the
\* lock.
LEMMA MoveKeeps ==
    ASSUME IInv, NEW t \in Threads, NEW step \in Steps, pc' = [pc EXCEPT ![t] = step],
           lock' \in Threads \cup {Worker, None},
           UNCHANGED <<cache, jit, bodyForms, queue, worker, call, arg, bound, ep, work, out>>,
           CallOK(t)'
    PROVE  Keeps
  <1>1. TypeOK /\ EpisodeOK(t) /\ CacheOK(cache)
    BY DEF IInv
  <1>2. TypeOK'
    BY <1>1 DEF TypeOK
  <1>3. CacheOK(cache') /\ Evolves(cache, cache')
    BY <1>1, EvolvesReflexive DEF CacheOK
  <1>4. CompilesOK' /\ EpisodeOK(t)'
    BY <1>1, <1>3, CompilesStay, EpisodeStays DEF IInv, CacheOK
  <1>5. \A u \in Threads \ {t} : Untouched(u)
    BY <1>1 DEF TypeOK, Untouched
  <1>6. QED
    BY <1>2, <1>3, <1>4, <1>5, ThreadStep

\* The wait for the full tape's code ends.
LEMMA WakeKeeps ==
    ASSUME IInv, NEW t \in Threads, Wake(t)
    PROVE  Keeps
  <1> DEFINE step == IF call[t] = "main" THEN "main" ELSE "rung"
  <1>1. /\ pc[t] = "wait" /\ pc' = [pc EXCEPT ![t] = step]
        /\ UNCHANGED <<cache, lock, jit, bodyForms, queue, worker, call, arg, bound, ep, work, out>>
    BY DEF Wake, Enter, Goto
  <1>2. step \in Steps
    BY DEF Steps
  <1>3. CallOK(t)'
    <2>1. pc'[t] = step
      BY <1>1 DEF IInv, TypeOK
    <2>2. QED
      BY <1>1, <2>1 DEF IInv, CallOK, Prepared
  <1>4. QED
    BY <1>1, <1>2, <1>3, MoveKeeps DEF IInv, TypeOK

\* A flip takes the lock.
LEMMA FlipLockKeeps ==
    ASSUME IInv, NEW t \in Threads, FlipLock(t)
    PROVE  Keeps
  <1>1. /\ pc[t] = "flip" /\ pc' = [pc EXCEPT ![t] = "flipped"] /\ lock' = t
        /\ UNCHANGED <<cache, jit, bodyForms, queue, worker, call, arg, bound, ep, work, out>>
    BY DEF FlipLock, Goto
  <1>2. CallOK(t)'
    <2>1. pc'[t] = "flipped"
      BY <1>1 DEF IInv, TypeOK
    <2>2. QED
      BY <1>1, <2>1 DEF IInv, CallOK, Prepared
  <1>3. QED
    BY <1>1, <1>2, MoveKeeps DEF Steps

\* The lock taken or not, a prolog opens a full episode.
LEMMA TryLockKeeps ==
    ASSUME IInv, NEW t \in Threads, TryLock(t)
    PROVE  Keeps
  <1>1. TypeOK /\ CacheOK(cache) /\ EpisodeOK(t) /\ CallOK(t)
    BY DEF IInv
  <1>2. /\ pc[t] = "rung"
        /\ UNCHANGED <<cache, jit, bodyForms, queue, worker, call, arg, bound, work, out>>
        /\ ep' = IF call[t] = "eval" THEN ep ELSE [ep EXCEPT ![t] = FullEpisode(Forms)]
        /\ lock' \in Threads \cup {Worker, None}
    BY <1>1 DEF TryLock, Opens, TypeOK
  <1>3. PICK step \in {"locked", "full"} : pc' = [pc EXCEPT ![t] = step]
    BY DEF TryLock, Goto
  <1>4. FullEpisode(Forms) \in Episodes
    <2>1. Forms \in Nat
      BY <1>1 DEF TypeOK, Forms
    <2>2. QED
      BY <2>1 DEF Episodes, FullEpisode
  <1>5. TypeOK'
    BY <1>1, <1>2, <1>3, <1>4 DEF TypeOK, Steps
  <1>6. CacheOK(cache') /\ Evolves(cache, cache')
    BY <1>1, <1>2, EvolvesReflexive DEF CacheOK
  <1>7. CompilesOK'
    BY <1>1, <1>2, <1>6, CompilesStay DEF IInv, CacheOK
  <1>8. EpisodeOK(t)'
    <2>1. CASE call[t] = "eval"
      BY <1>1, <1>2, <1>6, <2>1, EpisodeStays DEF CacheOK
    <2>2. CASE call[t] # "eval"
      BY <1>1, <1>2, <2>2 DEF EpisodeOK, FullEpisode, TypeOK
    <2>3. QED
      BY <2>1, <2>2
  <1>9. CallOK(t)'
    <2>1. pc'[t] = step
      BY <1>1, <1>3 DEF TypeOK
    <2>2. call[t] # "eval" => ep'[t].kind = "full"
      BY <1>1, <1>2 DEF FullEpisode, TypeOK
    <2>3. QED
      BY <1>1, <1>2, <2>1, <2>2 DEF CallOK, Prepared
  <1>10. \A u \in Threads \ {t} : Untouched(u)
    BY <1>1, <1>2, <1>3 DEF TypeOK, Untouched
  <1>11. QED
    BY <1>5, <1>6, <1>7, <1>8, <1>9, <1>10, ThreadStep

\* A call begins.
LEMMA BeginKeeps ==
    ASSUME IInv, NEW t \in Threads, Begin(t)
    PROVE  Keeps
  <1>1. TypeOK /\ CacheOK(cache) /\ EpisodeOK(t) /\ CallOK(t)
    BY DEF IInv
  <1>2. PICK c \in CallKinds, i \in Inputs :
          /\ c = "main" => bound[t] = i[1]
          /\ Start(t, c)
          /\ arg' = [arg EXCEPT ![t] = i]
          /\ bound' = [bound EXCEPT ![t] = IF c = "eval" THEN None ELSE i[1]]
    BY DEF Begin
  <1>3. /\ pc[t] = "idle" /\ out' = [out EXCEPT ![t] = None]
        /\ UNCHANGED <<cache, lock, bodyForms, worker, ep, work>>
    BY DEF Begin, Out
  <1>4. c \in {"eval", "prolog", "main"} /\ c \in Calls
    BY PolicyAssumption DEF Calls
  <1>5. /\ jit' \in Jits /\ queue' \in Seq(Jobs)
        /\ \A k \in DOMAIN queue' :
              (k \in DOMAIN queue /\ queue'[k] = queue[k]) \/ queue'[k].form = Full
        /\ call' = [call EXCEPT ![t] = c]
    BY <1>1, <1>2, <1>4, StartOK
  <1>6. PICK step \in {"wait", IF c = "main" THEN "main" ELSE "rung"} :
          pc' = [pc EXCEPT ![t] = step]
    BY <1>1, <1>2, <1>4, StartOK
  <1>7. TypeOK'
    <2>1. i[1] \in Bindings
      BY DEF Inputs
    <2>2. pc' \in [Threads -> Steps]
      BY <1>1, <1>6 DEF TypeOK, Steps
    <2>3. QED
      BY <1>1, <1>2, <1>3, <1>4, <1>5, <2>1, <2>2 DEF TypeOK
  <1>8. CacheOK(cache') /\ Evolves(cache, cache')
    BY <1>1, <1>3, EvolvesReflexive DEF CacheOK
  <1>9. CompilesOK'
    BY <1>1, <1>3, <1>5, <1>8, QueueGrows DEF IInv, CacheOK
  <1>10. EpisodeOK(t)'
    BY <1>1, <1>3, <1>8, EpisodeStays DEF CacheOK
  <1>11. CallOK(t)'
    <2>1. /\ pc'[t] = step /\ call'[t] = c /\ arg'[t] = i /\ out'[t] = None
          /\ bound'[t] = IF c = "eval" THEN None ELSE i[1]
      BY <1>1, <1>2, <1>3, <1>5, <1>6 DEF TypeOK
    <2>2. CASE c = "main"
      BY <1>1, <1>2, <1>3, <2>1, <2>2 DEF CallOK, Prepared
    <2>3. CASE c # "main"
      BY <1>1, <1>3, <1>4, <2>1, <2>3 DEF CallOK, Prepared
    <2>4. QED
      BY <2>2, <2>3
  <1>12. \A u \in Threads \ {t} : Untouched(u)
    BY <1>1, <1>2, <1>3, <1>5, <1>6 DEF TypeOK, Untouched
  <1>13. QED
    BY <1>7, <1>8, <1>9, <1>10, <1>11, <1>12, ThreadStep

\* The full tape serves.
LEMMA RunFullKeeps ==
    ASSUME IInv, NEW t \in Threads, RunFull(t)
    PROVE  Keeps
  <1>1. TypeOK /\ CacheOK(cache) /\ EpisodeOK(t) /\ CallOK(t)
    BY DEF IInv
  <1> DEFINE o == IF call[t] = "eval" THEN arg[t] ELSE out[t]
  <1>2. /\ pc[t] = "full" /\ Return(t) /\ Laid(t, Full)
        /\ UNCHANGED <<cache, lock, bodyForms, queue, worker, arg, bound, ep>>
        /\ out' = [out EXCEPT ![t] = o]
    BY <1>1 DEF RunFull, Value, TypeOK
  <1>3. CacheOK(cache') /\ Evolves(cache, cache')
    BY <1>1, <1>2, EvolvesReflexive DEF CacheOK
  <1>4. o = None \/ (call[t] # "reprolog" /\ o = arg[t])
    BY <1>1, <1>2 DEF CallOK
  <1>5. EpisodeOK(t)'
    BY <1>1, <1>2, <1>3, EpisodeStays DEF CacheOK
  <1>6. /\ ep[t] \in Episodes /\ ep' = [ep EXCEPT ![t] = ep[t]]
        /\ call[t] = "eval" \/ ep[t].form = Full
    BY <1>1, <1>2 DEF TypeOK, CallOK, EpisodeOK
  <1>7. queue' \in Seq(Jobs) /\ lock' \in Threads \cup {Worker, None}
    BY <1>1, <1>2 DEF TypeOK
  <1>8. \A k \in DOMAIN queue' : k \in DOMAIN queue /\ queue'[k] = queue[k]
    BY <1>2
  <1> HIDE DEF o
  <1>9. QED
    BY <1>2, <1>3, <1>4, <1>5, <1>6, <1>7, <1>8, ServedKeeps

\* A session's main pass finds its form, or its prolog runs again.
LEMMA MainKeeps ==
    ASSUME IInv, NEW t \in Threads, Main(t)
    PROVE  Keeps
  <1>1. TypeOK /\ CacheOK(cache) /\ EpisodeOK(t) /\ CallOK(t)
    BY DEF IInv
  <1>2. CASE Forms # ep[t].forms
    <2>1. /\ pc[t] = "main" /\ Start(t, "reprolog")
          /\ UNCHANGED <<cache, lock, bodyForms, worker, arg, bound, ep, work, out>>
      BY <1>2 DEF Main
    <2>2. /\ jit' \in Jits /\ queue' \in Seq(Jobs)
          /\ \A k \in DOMAIN queue' :
                (k \in DOMAIN queue /\ queue'[k] = queue[k]) \/ queue'[k].form = Full
          /\ call' = [call EXCEPT ![t] = "reprolog"]
          /\ \E step \in {"wait", "rung"} : pc' = [pc EXCEPT ![t] = step]
      BY <1>1, <2>1, StartOK DEF Calls
    <2>3. PICK step \in {"wait", "rung"} : pc' = [pc EXCEPT ![t] = step]
      BY <2>2
    <2>4. TypeOK'
      BY <1>1, <2>1, <2>2, <2>3 DEF TypeOK, Steps
    <2>5. CacheOK(cache') /\ Evolves(cache, cache')
      BY <1>1, <2>1, EvolvesReflexive DEF CacheOK
    <2>6. CompilesOK'
      BY <1>1, <2>1, <2>2, <2>5, QueueGrows DEF IInv, CacheOK
    <2>7. EpisodeOK(t)'
      BY <1>1, <2>1, <2>5, EpisodeStays DEF CacheOK
    <2>8. CallOK(t)'
      <3>1. pc'[t] = step /\ call'[t] = "reprolog"
        BY <1>1, <2>2, <2>3 DEF TypeOK
      <3>2. QED
        BY <1>1, <2>1, <3>1 DEF CallOK, Prepared
    <2>9. \A u \in Threads \ {t} : Untouched(u)
      BY <1>1, <2>1, <2>2, <2>3 DEF TypeOK, Untouched
    <2>10. QED
      BY <2>4, <2>5, <2>6, <2>7, <2>8, <2>9, ThreadStep
  <1>3. CASE Forms = ep[t].forms
    <2>1. /\ pc[t] = "main" /\ pc' = [pc EXCEPT ![t] = "pass"]
          /\ UNCHANGED <<cache, lock, jit, bodyForms, queue, worker, call, arg, bound, ep, work, out>>
      BY <1>3 DEF Main, Goto
    <2>2. CallOK(t)'
      <3>1. pc'[t] = "pass"
        BY <1>1, <2>1 DEF TypeOK
      <3>2. QED
        BY <1>1, <2>1, <3>1 DEF CallOK, Prepared
    <2>3. QED
      BY <1>1, <2>1, <2>2, MoveKeeps DEF Steps, TypeOK
  <1>4. QED
    BY <1>2, <1>3

\* The specialization held is of its version.
LEMMA SpecKept ==
    ASSUME NEW st, CacheOK(st), st.spec # None
    PROVE  /\ st.spec \in Specs /\ st.choices.version \in Nat
           /\ Current(st, st.spec, st.choices.version)
  <1>1. st.spec \in Specs /\ st.choices.version \in Nat
    BY DEF CacheOK, Caches, ChoicesSet
  <1>2. QED
    BY <1>1 DEF Current

\* The rest of a whole evaluation, from a cache that evolved from the one
\* found.
LEMMA InterpretedKeeps ==
    ASSUME IInv, NEW t \in Threads, pc[t] = "locked", call[t] = "eval",
           NEW st, CacheOK(st), Evolves(cache, st), st.spec = None => st.native = None,
           EvalInterpreted(t, st, arg[t]), Unlock,
           UNCHANGED <<bodyForms, worker, arg, bound>>
    PROVE  Keeps
  <1>1. /\ TypeOK /\ CacheOK(cache) /\ EpisodeOK(t) /\ CallOK(t)
        /\ cache \in Caches /\ st \in Caches /\ arg[t] \in Inputs
    BY DEF IInv, CacheOK, TypeOK
  <1>2. /\ lock' \in Threads \cup {Worker, None} /\ arg[t] # None
    BY <1>1, MarkersApart DEF Unlock
  <1>3. /\ ep[t] \in Episodes /\ queue \in Seq(Jobs)
    BY <1>1 DEF TypeOK
  <1>4. CASE ToFull(t, st)
    BY <1>4, ToFullKeeps
  <1>5. CASE /\ st.spec # None /\ Holds(st.spec, arg[t])
             /\ Held(st, st.spec, st.choices.version)
             /\ Laid(t, st.spec) /\ Out(t, Value(st.spec, arg[t]))
             /\ Return(t) /\ UNCHANGED ep
    <2>1. /\ st.spec \in Specs /\ st.choices.version \in Nat
          /\ Current(st, st.spec, st.choices.version)
      BY <1>5, SpecKept
    <2>2. /\ CacheOK(cache') /\ Evolves(st, cache') /\ queue' \in Seq(Jobs)
          /\ \A k \in DOMAIN queue' :
                \/ k \in DOMAIN queue /\ queue'[k] = queue[k]
                \/ Current(cache', queue'[k].form, queue'[k].ver)
      BY <1>3, <1>5, <2>1, HeldOK
    <2>3. Evolves(cache, cache')
      BY <1>1, <2>2, EvolvesTransitive DEF CacheOK
    <2>4. Value(st.spec, arg[t]) = arg[t]
      BY <1>5, <2>1, MarkersApart DEF Value
    <2>5. EpisodeOK(t)'
      BY <1>1, <1>5, <2>2, <2>3, EpisodeStays DEF CacheOK
    <2>6. out' = [out EXCEPT ![t] = arg[t]] /\ ep' = [ep EXCEPT ![t] = ep[t]]
      BY <1>1, <1>5, <2>4 DEF Out, TypeOK
    <2>7. QED
      BY <1>2, <1>3, <1>5, <2>1, <2>2, <2>3, <2>5, <2>6, ServedKeeps
  <1>6. CASE /\ cache' = OnFlip(st, arg[t]) \/ (cache' = Retrace(st, arg[t]) /\ st.spec = None)
             /\ Laid(t, Full) /\ Out(t, arg[t])
             /\ Return(t) /\ UNCHANGED <<queue, ep>>
    <2>1. CacheOK(cache') /\ Evolves(st, cache')
      <3>1. CASE cache' = OnFlip(st, arg[t])
        BY <1>1, <3>1, OnFlipOK
      <3>2. CASE cache' = Retrace(st, arg[t]) /\ st.spec = None
        <4>1. CacheOK(cache') /\ cache'.choices.version = st.choices.version
          BY <1>1, <3>2, RetraceOK
        <4>2. st.choices.version \in Nat
          BY <1>1 DEF Caches, ChoicesSet
        <4>3. QED
          BY <3>2, <4>1, <4>2 DEF Evolves
      <3>3. QED
        BY <1>6, <3>1, <3>2
    <2>2. Evolves(cache, cache')
      BY <1>1, <2>1, EvolvesTransitive DEF CacheOK
    <2>3. EpisodeOK(t)'
      BY <1>1, <1>6, <2>1, <2>2, EpisodeStays DEF CacheOK
    <2>4. /\ out' = [out EXCEPT ![t] = arg[t]] /\ ep' = [ep EXCEPT ![t] = ep[t]]
          /\ queue' \in Seq(Jobs)
          /\ \A k \in DOMAIN queue' : k \in DOMAIN queue /\ queue'[k] = queue[k]
      BY <1>1, <1>6 DEF Out, TypeOK
    <2>5. QED
      BY <1>2, <1>3, <1>6, <2>1, <2>2, <2>3, <2>4, ServedKeeps
  <1>7. QED
    BY <1>4, <1>5, <1>6 DEF EvalInterpreted

\* A whole evaluation under the lock.
LEMMA EvalSpecKeeps ==
    ASSUME IInv, NEW t \in Threads, EvalSpec(t)
    PROVE  Keeps
  <1> DEFINE st == [cache EXCEPT !.choices = Ran(@, 1)]
             passed == IF NativeCurrent(st)
                       THEN Check(st.spec, st.native.form, Holds(st.native.form, arg[t]))
                       ELSE {FALSE}
  <1>1. /\ TypeOK /\ CacheOK(cache) /\ EpisodeOK(t) /\ CallOK(t)
        /\ cache \in Caches /\ arg[t] \in Inputs
    BY DEF IInv, CacheOK, TypeOK
  <1>2. /\ pc[t] = "locked" /\ call[t] = "eval" /\ Unlock
        /\ UNCHANGED <<bodyForms, worker, arg, bound>>
    BY DEF EvalSpec
  <1>3. CacheOK(st) /\ Evolves(cache, st) /\ st.spec = cache.spec /\ st.native = cache.native
    BY <1>1, RanOK
  <1>4. st \in Caches
    BY <1>3 DEF CacheOK
  <1>5. \/ ToFull(t, cache)
        \/ /\ TRUE \in passed
           /\ cache' = [st EXCEPT !.stable = @ + 1]
           /\ Laid(t, st.native.form) /\ Out(t, Value(st.native.form, arg[t]))
           /\ Return(t) /\ UNCHANGED <<queue, ep>>
        \/ EvalInterpreted(t, DropNative(st), arg[t])
    BY DEF EvalSpec
  <1> HIDE DEF st
  <1>6. CASE ToFull(t, cache)
    BY <1>1, <1>2, <1>6, EvolvesReflexive, ToFullKeeps
  <1>7. CASE EvalInterpreted(t, DropNative(st), arg[t])
    <2>1. /\ CacheOK(DropNative(st)) /\ Evolves(st, DropNative(st))
          /\ DropNative(st).native = None
      BY <1>3, DropNativeOK
    <2>2. Evolves(cache, DropNative(st))
      BY <1>1, <1>3, <1>4, <2>1, EvolvesTransitive DEF CacheOK
    <2>3. QED
      BY <1>2, <1>7, <2>1, <2>2, InterpretedKeeps
  <1>8. CASE /\ TRUE \in passed
             /\ cache' = [st EXCEPT !.stable = @ + 1]
             /\ Laid(t, st.native.form) /\ Out(t, Value(st.native.form, arg[t]))
             /\ Return(t) /\ UNCHANGED <<queue, ep>>
    <2>1. /\ st.native # None /\ st.spec # None /\ st.native.form = st.spec
          /\ Holds(st.spec, arg[t])
      BY <1>3, <1>8 DEF NativeCurrent, Check, CacheOK
    <2>2. st.spec \in Specs
      BY <1>3, <2>1, SpecKept
    <2>3. Value(st.native.form, arg[t]) = arg[t]
      BY <2>1, <2>2, MarkersApart DEF Value
    <2>4. /\ cache' \in Caches /\ cache'.spec = st.spec /\ cache'.native = st.native
          /\ cache'.choices = st.choices
      BY <1>4, <1>8 DEF Caches
    <2>5. CacheOK(cache')
      BY <1>3, <2>4 DEF CacheOK
    <2>6. Evolves(cache, cache')
      BY <1>3, <2>4 DEF Evolves
    <2>7. EpisodeOK(t)'
      BY <1>1, <1>8, <2>4, <2>6, EpisodeStays
    <2>8. /\ out' = [out EXCEPT ![t] = arg[t]] /\ ep' = [ep EXCEPT ![t] = ep[t]]
          /\ queue' \in Seq(Jobs) /\ ep[t] \in Episodes
          /\ \A k \in DOMAIN queue' : k \in DOMAIN queue /\ queue'[k] = queue[k]
      BY <1>1, <1>8, <2>3 DEF Out, TypeOK
    <2>9. lock' \in Threads \cup {Worker, None}
      BY <1>2 DEF Unlock
    <2>10. QED
      BY <1>2, <1>8, <2>1, <2>2, <2>5, <2>6, <2>7, <2>8, <2>9, ServedKeeps
  <1>9. QED
    BY <1>5, <1>6, <1>7, <1>8

\* A prolog that entered the specialization, or found it failing at its
\* binding.
LEMMA EntersKeeps ==
    ASSUME IInv, NEW t \in Threads, pc[t] = "locked", call[t] # "eval",
           NEW st, CacheOK(st), Evolves(cache, st), st.spec # None,
           NEW kind \in {"interp", "native"}, NEW passed,
           Enters(t, st, kind, st.spec, passed), Unlock,
           UNCHANGED <<bodyForms, worker, arg, bound>>
    PROVE  Keeps
  <1> DEFINE o == out[t]
  <1>1. /\ TypeOK /\ CacheOK(cache) /\ EpisodeOK(t) /\ CallOK(t)
        /\ cache \in Caches /\ st \in Caches /\ arg[t] \in Inputs
        /\ ep[t] \in Episodes /\ queue \in Seq(Jobs)
    BY DEF IInv, CacheOK, TypeOK
  <1>2. /\ ep[t].kind = "full" /\ ep[t].form = Full /\ out[t] = None
    BY <1>1 DEF CallOK, EpisodeOK
  <1>3. /\ st.spec \in Specs /\ st.choices.version \in Nat
        /\ Current(st, st.spec, st.choices.version)
    BY SpecKept
  <1>4. /\ lock' \in Threads \cup {Worker, None}
        /\ out = [out EXCEPT ![t] = o] /\ o = None
    BY <1>1, <1>2 DEF Unlock, TypeOK
  <1> HIDE DEF o
  <1>5. CASE /\ cache' = st
             /\ ep' = [ep EXCEPT ![t] = [@ EXCEPT !.kind = kind, !.form = st.spec,
                                           !.sp = st.spec, !.ver = st.choices.version]]
             /\ Laid(t, st.spec)
             /\ Return(t) /\ UNCHANGED <<queue, out>>
    <2> DEFINE e == [kind |-> kind, form |-> st.spec, sp |-> st.spec,
                     ver |-> st.choices.version, forms |-> ep[t].forms]
    <2>1. [ep[t] EXCEPT !.kind = kind, !.form = st.spec, !.sp = st.spec,
                        !.ver = st.choices.version] = e
      <3> DEFINE e1 == [ep[t] EXCEPT !.kind = kind]
                 e2 == [e1 EXCEPT !.form = st.spec]
                 e3 == [e2 EXCEPT !.sp = st.spec]
                 e4 == [e3 EXCEPT !.ver = st.choices.version]
      <3>1. e1 = [kind |-> kind, form |-> ep[t].form, sp |-> ep[t].sp,
                  ver |-> ep[t].ver, forms |-> ep[t].forms]
        BY <1>1 DEF Episodes
      <3> HIDE DEF e1
      <3>2. e2 = [kind |-> kind, form |-> st.spec, sp |-> ep[t].sp,
                  ver |-> ep[t].ver, forms |-> ep[t].forms]
        BY <3>1
      <3> HIDE DEF e2
      <3>3. e3 = [kind |-> kind, form |-> st.spec, sp |-> st.spec,
                  ver |-> ep[t].ver, forms |-> ep[t].forms]
        BY <3>2
      <3> HIDE DEF e3
      <3>4. e4 = e
        BY <3>3
      <3>5. QED
        BY <3>4 DEF e1, e2, e3
    <2>2. ep' = [ep EXCEPT ![t] = e]
      BY <1>1, <1>5, <2>1 DEF TypeOK
    <2>3. e \in Episodes /\ e.form = st.spec
      BY <1>1, <1>3 DEF Episodes
    <2>4. EpisodeOK(t)'
      <3>1. ep'[t] = e
        BY <1>1, <2>2 DEF TypeOK
      <3>2. QED
        BY <1>3, <1>5, <3>1 DEF EpisodeOK
    <2> HIDE DEF e
    <2>5. /\ out' = [out EXCEPT ![t] = o] /\ queue' \in Seq(Jobs)
          /\ \A k \in DOMAIN queue' : k \in DOMAIN queue /\ queue'[k] = queue[k]
      BY <1>1, <1>4, <1>5
    <2>6. /\ pc[t] # "idle" /\ Return(t) /\ Laid(t, st.spec)
          /\ CacheOK(cache') /\ Evolves(cache, cache')
          /\ lock' \in Threads \cup {Worker, None}
          /\ o = None
      BY <1>4, <1>5
    <2>7. QED
      BY <1>3, <2>2, <2>3, <2>4, <2>5, <2>6, ServedKeeps
  <1>6. CASE /\ cache' = OnFlip(st, arg[t])
             /\ Laid(t, Full)
             /\ Return(t) /\ UNCHANGED <<queue, ep, out>>
    <2>1. CacheOK(cache') /\ Evolves(st, cache')
      BY <1>1, <1>6, OnFlipOK
    <2>2. Evolves(cache, cache')
      BY <1>1, <2>1, EvolvesTransitive DEF CacheOK
    <2>3. EpisodeOK(t)'
      BY <1>1, <1>6, <2>1, <2>2, EpisodeStays DEF CacheOK
    <2>4. ep' = [ep EXCEPT ![t] = ep[t]]
      BY <1>1, <1>6 DEF TypeOK
    <2>5. /\ out' = [out EXCEPT ![t] = o] /\ queue' \in Seq(Jobs)
          /\ \A k \in DOMAIN queue' : k \in DOMAIN queue /\ queue'[k] = queue[k]
      BY <1>1, <1>4, <1>6
    <2>6. /\ pc[t] # "idle" /\ Return(t) /\ Laid(t, Full)
          /\ lock' \in Threads \cup {Worker, None}
          /\ ep[t] \in Episodes /\ ep[t].form = Full
          /\ o = None
      BY <1>1, <1>2, <1>4, <1>6
    <2>7. QED
      BY <2>1, <2>2, <2>3, <2>4, <2>5, <2>6, ServedKeeps
  <1>7. QED
    BY <1>5, <1>6 DEF Enters

\* The first specialization of a program is a new version.
LEMMA FirstOK ==
    ASSUME NEW st, CacheOK(st), st.spec = None, NEW i \in Inputs
    PROVE  LET first == [Retrace(st, i) EXCEPT !.choices = NewVersion(@), !.stable = 0]
           IN  CacheOK(first) /\ Evolves(st, first)
  <1> DEFINE r == Retrace(st, i)
             n == NewVersion(r.choices)
             v == [r EXCEPT !.choices = n]
             first == [v EXCEPT !.stable = 0]
  <1>1. st \in Caches /\ st.native = None
    <2>1. st.native = DropNative(st).native
      BY DEF DropNative
    <2>2. DropNative(st).native = None
      BY DropNativeOK
    <2>3. QED
      BY <2>1, <2>2 DEF CacheOK
  <1>2. CacheOK(r) /\ r.native = None /\ r.choices.version = st.choices.version
    BY <1>1, RetraceOK
  <1>3. r \in Caches /\ r.choices \in ChoicesSet /\ st.choices.version \in Nat
    BY <1>1, <1>2 DEF CacheOK, Caches, ChoicesSet
  <1> HIDE DEF r
  <1>4. /\ n \in ChoicesSet /\ n.version = st.choices.version + 1
        /\ n.trace = r.choices.trace /\ n.off = r.choices.off
        /\ n.unpinned = r.choices.unpinned
    BY <1>2, <1>3, PolicyTypes DEF NewVersion, ChoicesSet
  <1> HIDE DEF n
  <1>5. v \in Caches /\ v.choices = n /\ v.spec = r.spec /\ v.native = None
    BY <1>2, <1>3, <1>4 DEF Caches
  <1> HIDE DEF v
  <1>6. first \in Caches /\ first.choices = n /\ first.spec = r.spec /\ first.native = None
    BY <1>5 DEF Caches
  <1>7. first = [r EXCEPT !.choices = NewVersion(@), !.stable = 0]
    BY <1>3 DEF v, n, Caches
  <1>8. Pinned(n) = Pinned(r.choices)
    BY <1>4 DEF Pinned
  <1>9. CacheOK(first)
    BY <1>2, <1>4, <1>6, <1>8 DEF CacheOK
  <1>10. Evolves(st, first)
    BY <1>3, <1>4, <1>6 DEF Evolves
  <1>11. QED
    BY <1>7, <1>9, <1>10 DEF r

\* A prolog under the lock.
LEMMA SpecPrologKeeps ==
    ASSUME IInv, NEW t \in Threads, SpecProlog(t)
    PROVE  Keeps
  <1> DEFINE ran == [cache EXCEPT !.choices = Ran(@, 1)]
             first == [Retrace(ran, arg[t]) EXCEPT !.choices = NewVersion(@), !.stable = 0]
             st == IF ran.spec = None THEN first ELSE ran
             entry == Check(st.spec, st.native.form, EntryHolds(st.native.form, arg[t]))
             holds == {EntryHolds(st.spec, arg[t])}
  <1>1. /\ TypeOK /\ CacheOK(cache) /\ cache \in Caches /\ arg[t] \in Inputs
    BY DEF IInv, CacheOK, TypeOK
  <1>2. /\ pc[t] = "locked" /\ call[t] # "eval" /\ Unlock
        /\ UNCHANGED <<bodyForms, worker, arg, bound>>
    BY DEF SpecProlog
  <1>3. CacheOK(ran) /\ Evolves(cache, ran)
    BY <1>1, RanOK
  <1>4. \/ ToFull(t, cache)
        \/ ToFull(t, ran)
        \/ NativeCurrent(st) /\ Enters(t, st, "native", st.native.form, entry)
        \/ ToFull(t, DropNative(st))
        \/ st.spec # None /\ Enters(t, DropNative(st), "interp", st.spec, holds)
    BY DEF SpecProlog
  <1> HIDE DEF ran
  <1>5. CacheOK(st) /\ Evolves(cache, st) /\ st \in Caches
    <2>1. CASE ran.spec = None
      <3>1. CacheOK(first) /\ Evolves(ran, first)
        BY <1>1, <1>3, <2>1, FirstOK
      <3>2. Evolves(cache, first)
        BY <1>1, <1>3, <3>1, EvolvesTransitive DEF CacheOK
      <3>3. QED
        BY <2>1, <3>1, <3>2 DEF CacheOK
    <2>2. CASE ran.spec # None
      BY <1>3, <2>2 DEF CacheOK
    <2>3. QED
      BY <2>1, <2>2
  <1> HIDE DEF st
  <1>6. CacheOK(DropNative(st)) /\ Evolves(cache, DropNative(st)) /\ DropNative(st).spec = st.spec
    <2>1. CacheOK(DropNative(st)) /\ Evolves(st, DropNative(st)) /\ DropNative(st).spec = st.spec
      BY <1>5, DropNativeOK
    <2>2. QED
      BY <1>1, <1>5, <2>1, EvolvesTransitive DEF CacheOK
  <1> HIDE DEF entry, holds
  <1>7. CASE ToFull(t, cache) \/ ToFull(t, ran) \/ ToFull(t, DropNative(st))
    BY <1>1, <1>2, <1>3, <1>6, <1>7, EvolvesReflexive, ToFullKeeps
  <1>8. CASE NativeCurrent(st) /\ Enters(t, st, "native", st.native.form, entry)
    <2>1. st.spec # None /\ st.native.form = st.spec
      BY <1>5, <1>8 DEF NativeCurrent, CacheOK
    <2>2. QED
      BY <1>2, <1>5, <1>8, <2>1, EntersKeeps
  <1>9. CASE st.spec # None /\ Enters(t, DropNative(st), "interp", st.spec, holds)
    BY <1>2, <1>6, <1>9, EntersKeeps
  <1>10. QED
    BY <1>4, <1>7, <1>8, <1>9

\* A main pass goes on, or ends, with a result or with the one it had.
LEMMA PassesKeeps ==
    ASSUME IInv, NEW t \in Threads, call[t] = "main", pc[t] \in {"pass", "note"},
           NEW step \in {"idle", "note", "noted", "flip"}, pc' = [pc EXCEPT ![t] = step],
           lock' \in Threads \cup {Worker, None}, jit' \in Jits,
           out' = out \/ out' = [out EXCEPT ![t] = arg[t]],
           UNCHANGED <<cache, bodyForms, queue, worker, call, arg, bound, ep, work>>,
           step \in {"note", "noted"} => ep[t].kind = "interp",
           step = "flip" => out'[t] = None
    PROVE  Keeps
  <1>1. TypeOK /\ EpisodeOK(t) /\ CacheOK(cache) /\ CallOK(t) /\ arg[t] \in Inputs
    BY DEF IInv, TypeOK
  <1>2. out' \in [Threads -> Inputs \cup {Garbage, None}]
    BY <1>1 DEF TypeOK
  <1>3. TypeOK'
    BY <1>1, <1>2 DEF TypeOK, Steps
  <1>4. CacheOK(cache') /\ Evolves(cache, cache')
    BY <1>1, EvolvesReflexive DEF CacheOK
  <1>5. CompilesOK' /\ EpisodeOK(t)'
    BY <1>1, <1>4, CompilesStay, EpisodeStays DEF IInv, CacheOK
  <1>6. CallOK(t)'
    <2>1. /\ pc'[t] = step /\ (out'[t] = out[t] \/ out'[t] = arg[t])
      BY <1>1 DEF TypeOK
    <2>2. /\ bound[t] = arg[t][1] /\ work[t] = [layout |-> ep[t].form, bind |-> bound[t]]
          /\ out[t] = None \/ out[t] = arg[t]
      <3>1. bound[t] = arg[t][1] /\ (out[t] = None \/ out[t] = arg[t])
        BY <1>1 DEF CallOK
      <3>2. bound[t] # None
        BY <1>1, <3>1, MarkerAssumption DEF Inputs
      <3>3. QED
        BY <1>1, <3>1, <3>2 DEF CallOK, Prepared
    <2>3. QED
      BY <1>1, <2>1, <2>2 DEF CallOK, Prepared
  <1>7. \A u \in Threads \ {t} : Untouched(u)
    BY <1>1 DEF TypeOK, Untouched
  <1>8. QED
    BY <1>3, <1>4, <1>5, <1>6, <1>7, ThreadStep

\* The pass looks for the lock to be counted.
LEMMA TryNoteKeeps ==
    ASSUME IInv, NEW t \in Threads, TryNote(t)
    PROVE  Keeps
  <1>1. TypeOK /\ CallOK(t) /\ pc[t] = "note" /\ call[t] = "main" /\ ep[t].kind = "interp"
    BY DEF IInv, TryNote, CallOK
  <1>2. UNCHANGED <<cache, bodyForms, queue, worker, arg, bound, ep, work, out>>
    BY DEF TryNote
  <1>3. CASE lock = None
    <2>1. lock' = t /\ pc' = [pc EXCEPT ![t] = "noted"] /\ UNCHANGED <<jit, call>>
      BY <1>3 DEF TryNote, Goto
    <2>2. jit' \in Jits /\ lock' \in Threads \cup {Worker, None}
      BY <1>1, <2>1 DEF TypeOK
    <2>3. QED
      BY <1>1, <1>2, <2>1, <2>2, PassesKeeps
  <1>4. CASE lock # None
    <2>1. lock' = lock /\ Return(t)
      BY <1>4 DEF TryNote
    <2>2. jit' \in Jits /\ pc' = [pc EXCEPT ![t] = "idle"] /\ call' = call
      BY <1>1, <2>1, ReturnOK
    <2>3. lock' \in Threads \cup {Worker, None}
      BY <1>1, <2>1 DEF TypeOK
    <2>4. QED
      BY <1>1, <1>2, <2>2, <2>3, PassesKeeps
  <1>5. QED
    BY <1>3, <1>4

\* The pass runs, over a buffer its own form laid out.
LEMMA PassKeeps ==
    ASSUME IInv, NEW t \in Threads, Pass(t)
    PROVE  Keeps
  <1> DEFINE e == ep[t]
             v == <<work[t].bind, arg[t][2]>>
             value == MainValue(e.form, work[t], arg[t][2])
             passed == IF e.kind = "full" THEN {TRUE}
                       ELSE Check(e.sp, work[t].layout, Holds(e.sp, v))
  <1>1. /\ TypeOK /\ CallOK(t) /\ EpisodeOK(t) /\ pc[t] = "pass" /\ call[t] = "main"
        /\ arg[t] \in Inputs /\ out[t] = None
    BY DEF IInv, TypeOK, Pass, CallOK
  <1>2. /\ UNCHANGED <<cache, lock, bodyForms, queue, worker, arg, bound, ep, work>>
        /\ \/ /\ TRUE \in passed
              /\ out' = [out EXCEPT ![t] = value]
              /\ IF e.kind = "interp"
                 THEN Goto(t, "note") /\ UNCHANGED <<jit, call>>
                 ELSE Return(t)
           \/ /\ Goto(t, "flip")
              /\ UNCHANGED <<jit, call, out>>
    BY DEF Pass, Out
  <1>3. work[t] = [layout |-> e.form, bind |-> arg[t][1]] /\ v = arg[t]
    <2>1. bound[t] = arg[t][1] /\ bound[t] # None
      BY <1>1, MarkerAssumption DEF CallOK, Inputs
    <2>2. work[t] = [layout |-> e.form, bind |-> arg[t][1]]
      BY <1>1, <2>1 DEF CallOK, Prepared
    <2>3. arg[t] = <<arg[t][1], arg[t][2]>>
      BY <1>1 DEF Inputs
    <2>4. QED
      BY <2>2, <2>3
  <1>4. TRUE \in passed => value = arg[t]
    <2>1. value = Value(e.form, arg[t])
      BY <1>3 DEF MainValue
    <2>2. CASE e.kind = "full"
      BY <1>1, <2>1, <2>2 DEF EpisodeOK, Value
    <2>3. CASE e.kind # "full"
      <3>1. e.form = e.sp /\ work[t].layout = e.sp
        BY <1>1, <1>3, <2>3 DEF EpisodeOK
      <3>2. passed = {Holds(e.sp, arg[t])}
        BY <1>3, <2>3, <3>1 DEF Check
      <3>3. QED
        BY <2>1, <3>1, <3>2 DEF Value
    <2>4. QED
      BY <2>2, <2>3
  <1> HIDE DEF passed, value, v
  <1>5. lock' \in Threads \cup {Worker, None} /\ jit \in Jits
    BY <1>1, <1>2 DEF TypeOK
  <1>6. CASE /\ TRUE \in passed
             /\ out' = [out EXCEPT ![t] = value]
             /\ e.kind = "interp"
             /\ Goto(t, "note") /\ UNCHANGED <<jit, call>>
    <2>1. pc' = [pc EXCEPT ![t] = "note"] /\ out' = [out EXCEPT ![t] = arg[t]]
      BY <1>4, <1>6 DEF Goto
    <2>2. QED
      BY <1>1, <1>2, <1>5, <1>6, <2>1, PassesKeeps
  <1>7. CASE /\ TRUE \in passed
             /\ out' = [out EXCEPT ![t] = value]
             /\ Return(t)
    <2>1. jit' \in Jits /\ pc' = [pc EXCEPT ![t] = "idle"] /\ call' = call
      BY <1>1, <1>7, ReturnOK
    <2>2. out' = [out EXCEPT ![t] = arg[t]]
      BY <1>4, <1>7
    <2>3. QED
      BY <1>1, <1>2, <1>5, <2>1, <2>2, PassesKeeps
  <1>8. CASE Goto(t, "flip") /\ UNCHANGED <<jit, call, out>>
    <2>1. pc' = [pc EXCEPT ![t] = "flip"] /\ out'[t] = None
      BY <1>1, <1>8 DEF Goto
    <2>2. QED
      BY <1>1, <1>2, <1>5, <1>8, <2>1, PassesKeeps
  <1>9. QED
    BY <1>2, <1>6, <1>7, <1>8

\* A pass whose guards held is counted.
LEMMA NoteKeeps ==
    ASSUME IInv, NEW t \in Threads, Note(t)
    PROVE  Keeps
  <1> DEFINE st == [cache EXCEPT !.choices = Ran(@, 1)]
  <1>1. /\ TypeOK /\ CacheOK(cache) /\ cache \in Caches /\ CallOK(t) /\ EpisodeOK(t)
        /\ ep[t] \in Episodes /\ arg[t] \in Inputs
    BY DEF IInv, CacheOK, TypeOK
  <1>2. /\ pc[t] = "noted" /\ Held(st, ep[t].sp, ep[t].ver) /\ lock' = None /\ Return(t)
        /\ UNCHANGED <<bodyForms, worker, arg, bound, ep, work, out>>
    BY DEF Note, Unlock
  <1>3. /\ CacheOK(st) /\ Evolves(cache, st) /\ st \in Caches
    BY <1>1, RanOK DEF CacheOK
  <1> HIDE DEF st
  <1>4. /\ call[t] = "main" /\ ep[t].kind = "interp" /\ ep[t].sp \in Specs /\ ep[t].ver \in Nat
        /\ ep[t].form = ep[t].sp /\ bound[t] = arg[t][1]
        /\ Current(cache, ep[t].sp, ep[t].ver)
    BY <1>1, <1>2 DEF CallOK, EpisodeOK, Episodes
  <1>5. Current(st, ep[t].sp, ep[t].ver)
    BY <1>1, <1>3, <1>4, CurrentStays
  <1>6. /\ CacheOK(cache') /\ Evolves(st, cache') /\ queue' \in Seq(Jobs)
        /\ \A k \in DOMAIN queue' :
              \/ k \in DOMAIN queue /\ queue'[k] = queue[k]
              \/ Current(cache', queue'[k].form, queue'[k].ver)
    BY <1>1, <1>2, <1>3, <1>4, <1>5, HeldOK DEF TypeOK
  <1>7. Evolves(cache, cache')
    BY <1>1, <1>3, <1>6, EvolvesTransitive DEF CacheOK
  <1>8. EpisodeOK(t)'
    BY <1>1, <1>2, <1>6, <1>7, EpisodeStays DEF CacheOK
  <1>9. /\ ep' = [ep EXCEPT ![t] = ep[t]] /\ out' = [out EXCEPT ![t] = out[t]]
        /\ out[t] = None \/ (call[t] # "reprolog" /\ out[t] = arg[t])
    BY <1>1, <1>2, <1>4 DEF TypeOK, CallOK
  <1>10. Laid(t, ep[t].sp)
    <2>1. bound[t] # None
      BY <1>1, <1>4, MarkerAssumption DEF Inputs
    <2>2. work[t] = [layout |-> ep[t].sp, bind |-> arg[t][1]]
      BY <1>1, <1>2, <1>4, <2>1 DEF CallOK, Prepared
    <2>3. work' = work /\ work \in [Threads -> Buffers]
      BY <1>1, <1>2 DEF TypeOK
    <2>4. QED
      BY <2>2, <2>3 DEF Laid
  <1> DEFINE o == out[t]
  <1>11. /\ pc[t] # "idle" /\ Return(t) /\ UNCHANGED <<bodyForms, worker, arg, bound>>
         /\ lock' \in Threads \cup {Worker, None}
         /\ out' = [out EXCEPT ![t] = o]
         /\ o = None \/ (call[t] # "reprolog" /\ o = arg[t])
    BY <1>2, <1>9
  <1> HIDE DEF o
  <1>12. QED
    BY <1>1, <1>4, <1>6, <1>7, <1>8, <1>9, <1>10, <1>11, ServedKeeps

\* A pass whose guards failed is traced again.
LEMMA FlipRetraceKeeps ==
    ASSUME IInv, NEW t \in Threads, FlipRetrace(t)
    PROVE  Keeps
  <1> DEFINE e == FullEpisode(ep[t].forms)
  <1>1. /\ TypeOK /\ CacheOK(cache) /\ cache \in Caches /\ CallOK(t)
        /\ ep[t] \in Episodes /\ arg[t] \in Inputs
    BY DEF IInv, CacheOK, TypeOK
  <1>2. /\ pc[t] = "flipped" /\ cache' = OnFlip(cache, arg[t]) /\ Laid(t, Full)
        /\ out' = [out EXCEPT ![t] = arg[t]] /\ ep' = [ep EXCEPT ![t] = e]
        /\ lock' = None /\ Return(t)
        /\ UNCHANGED <<bodyForms, queue, worker, arg, bound>>
    BY <1>1 DEF FlipRetrace, Out, FallsFull, Unlock, TypeOK
  <1>3. CacheOK(cache') /\ Evolves(cache, cache')
    BY <1>1, <1>2, OnFlipOK
  <1>4. e \in Episodes /\ e.form = Full /\ e.kind = "full"
    BY <1>1 DEF Episodes, FullEpisode
  <1> HIDE DEF e
  <1>5. EpisodeOK(t)'
    BY <1>1, <1>2, <1>4 DEF EpisodeOK, TypeOK
  <1>6. queue' \in Seq(Jobs) /\ \A k \in DOMAIN queue' : k \in DOMAIN queue /\ queue'[k] = queue[k]
    BY <1>1, <1>2 DEF TypeOK
  <1>7. /\ pc[t] # "idle" /\ call[t] # "reprolog"
        /\ lock' \in Threads \cup {Worker, None}
    BY <1>1, <1>2 DEF CallOK
  <1>8. QED
    BY <1>2, <1>3, <1>4, <1>5, <1>6, <1>7, ServedKeeps

------------------------------------------------------------------------------
(* The specification                                                        *)

\* At first there is nothing to be out of order.
LEMMA InitOK ==
    ASSUME Init
    PROVE  IInv
  <1>1. NoTrace \in {NoTrace} /\ NoChoices \in ChoicesSet
    BY DEF NoChoices, ChoicesSet
  <1>2. cache = [spec |-> None, choices |-> NoChoices, stable |-> 0, compiles |-> 0,
                 inflight |-> FALSE, native |-> None]
    BY DEF Init
  <1>3. cache \in Caches /\ cache.spec = None /\ cache.native = None
    BY <1>1, <1>2 DEF Caches
  <1>4. CacheOK(cache)
    BY <1>3 DEF CacheOK
  <1>5. /\ (CHOOSE i \in Inputs : TRUE) \in Inputs
        /\ FullEpisode(0) \in Episodes /\ FullEpisode(0).kind = "full"
        /\ FullEpisode(0).form = Full
    BY PolicyAssumption DEF FullEpisode, Episodes
  <1> HIDE DEF Inputs, Episodes
  <1>6. TypeOK
    <2>1. jit \in Jits /\ bodyForms \in Nat /\ queue \in Seq(Jobs)
      BY DEF Init, Jits
    <2>2. worker \in [job : Jobs \cup {None}, step : {"idle", "compile", "notify", "land"}]
      BY DEF Init, Idle
    <2>3. /\ pc \in [Threads -> Steps]
          /\ call \in [Threads -> {"eval", "prolog", "main", "reprolog"}]
          /\ arg \in [Threads -> Inputs] /\ bound \in [Threads -> Bindings \cup {None}]
      BY <1>5 DEF Init, Steps
    <2>4. /\ ep \in [Threads -> Episodes] /\ work \in [Threads -> Buffers]
          /\ out \in [Threads -> Inputs \cup {Garbage, None}]
      BY <1>5 DEF Init, Buffers
    <2>5. QED
      BY <1>3, <2>1, <2>2, <2>3, <2>4 DEF TypeOK, Init
  <1>7. CompilesOK
    BY DEF Init, CompilesOK, Idle
  <1>8. ASSUME NEW t \in Threads
        PROVE  EpisodeOK(t) /\ CallOK(t)
    <2>1. /\ pc[t] = "idle" /\ bound[t] = None /\ out[t] = None
          /\ ep[t] = FullEpisode(0)
      BY DEF Init
    <2>2. QED
      BY <1>5, <2>1 DEF EpisodeOK, CallOK
  <1>9. QED
    BY <1>4, <1>6, <1>7, <1>8 DEF IInv

\* Every step keeps the invariant.
LEMMA StepKeeps ==
    ASSUME IInv, [Next]_vars
    PROVE  Keeps
  <1>1. ASSUME NEW t \in Threads, Begin(t) \/ Step(t)
        PROVE  Keeps
    <2>1. CASE Begin(t) \/ Wake(t) \/ TryLock(t) \/ RunFull(t) \/ Main(t) \/ Pass(t)
      BY <2>1, BeginKeeps, WakeKeeps, TryLockKeeps, RunFullKeeps, MainKeeps, PassKeeps
    <2>2. CASE EvalSpec(t) \/ SpecProlog(t)
      BY <2>2, EvalSpecKeeps, SpecPrologKeeps
    <2>3. CASE TryNote(t) \/ Note(t) \/ FlipLock(t) \/ FlipRetrace(t)
      BY <2>3, TryNoteKeeps, NoteKeeps, FlipLockKeeps, FlipRetraceKeeps
    <2>4. QED
      BY <1>1, <2>1, <2>2, <2>3 DEF Step
  <1>2. CASE Background
    BY <1>2, TakeKeeps, WorkerKeeps, LandSpecKeeps DEF Background
  <1>3. CASE BodyFormLands
    BY <1>3, BodyFormLandsKeeps
  <1>4. CASE UNCHANGED vars
    <2>1. UNCHANGED <<cache, lock, jit, bodyForms, queue, worker, pc, call, arg, bound,
                      ep, work, out>>
      BY <1>4 DEF vars, threadVars
    <2>2. CacheOK(cache') /\ Evolves(cache, cache')
      BY <2>1, EvolvesReflexive DEF IInv, CacheOK
    <2>3. TypeOK' /\ CompilesOK'
      BY <2>1 DEF IInv, TypeOK, CompilesOK, JobOK
    <2>4. UNCHANGED threadVars
      BY <2>1 DEF threadVars
    <2>5. QED
      BY <2>2, <2>3, <2>4, BackgroundStep
  <1>5. QED
    BY <1>1, <1>2, <1>3, <1>4 DEF Next

\* The inductive invariant holds in every behaviour: the types, a cache in
\* order, compiles and episodes of forms that were current once, and every
\* caller's buffer and result as its step requires (adaptive.rs:105-131).
THEOREM InductiveInvariant == Spec => []IInv
  <1>1. Init => IInv
    BY InitOK
  <1>2. IInv /\ [Next]_vars => IInv'
    BY StepKeeps DEF Keeps
  <1>3. QED
    BY <1>1, <1>2, PTL DEF Spec

\* Type correctness.
THEOREM TypesHold == Spec => []TypeOK
  <1>1. IInv => TypeOK
    BY DEF IInv
  <1>2. QED
    BY <1>1, InductiveInvariant, PTL

\* Whichever rung served a call, and whatever landed or flipped meanwhile,
\* the call returns the full tape's value at its inputs (adaptive.rs:3-4).
THEOREM EveryRungIsExact == Spec => []ResultsExact
  <1>1. IInv => ResultsExact
    BY DEF IInv, CallOK, ResultsExact
  <1>2. QED
    BY <1>1, InductiveInvariant, PTL

\* No compile of an outdated specialization is ever run (adaptive.rs:105-107).
THEOREM NativeStaysCurrent == Spec => []NativeIsCurrent
  <1>1. IInv => NativeIsCurrent
    BY DEF IInv, CacheOK, NativeIsCurrent
  <1>2. QED
    BY <1>1, InductiveInvariant, PTL

\* Nothing of a specialization survives its being turned off, or lands after
\* it (adaptive.rs:461-472).
THEOREM OffStaysOff == Spec => []OffIsFinal
  <1>1. IInv => OffIsFinal
    BY DEF IInv, CacheOK, OffIsFinal
  <1>2. QED
    BY <1>1, InductiveInvariant, PTL

\* The specialization held pins what the last traced evaluation took
\* (adaptive.rs:474-499).
THEOREM SpecIsOfTrace == Spec => []SpecFollowsTrace
  <1>1. IInv => SpecFollowsTrace
    BY DEF IInv, CacheOK, SpecFollowsTrace
  <1>2. QED
    BY <1>1, InductiveInvariant, PTL

\* A session's main pass never reads a buffer of another layout or another
\* binding (adaptive.rs:128-131).
THEOREM BufferIsOfEpisode == Spec => []EpisodeMatchesBuffer
  <1>1. IInv => EpisodeMatchesBuffer
    BY DEF IInv, CallOK, Prepared, EpisodeMatchesBuffer
  <1>2. QED
    BY <1>1, InductiveInvariant, PTL

\* Within a version the specialization never changes, so that a version
\* checked at the landing names the specialization (adaptive.rs:105-107).
THEOREM VersionsNameSpecs == Spec => VersionNamesSpec
  <1>1. IInv /\ [Next]_vars =>
          [cache.spec # None /\ cache'.spec # cache.spec
             => cache'.choices.version > cache.choices.version]_vars
    <2> SUFFICES ASSUME IInv, [Next]_vars, cache.spec # None, cache'.spec # cache.spec
                 PROVE  cache'.choices.version > cache.choices.version
      OBVIOUS
    <2>1. IInv' /\ Evolves(cache, cache')
      BY StepKeeps DEF Keeps
    <2>2. cache.choices.version \in Nat /\ cache'.choices.version \in Nat
      BY <2>1 DEF IInv, CacheOK, Caches, ChoicesSet
    <2>3. QED
      BY <2>1, <2>2 DEF Evolves
  <1>2. QED
    BY <1>1, InductiveInvariant, PTL DEF Spec, VersionNamesSpec

------------------------------------------------------------------------------
(* Compiles in flight                                                       *)

Running == worker.step # "idle" /\ worker.job.form # Full

\* What inflight tells: a compile of a specialization is the only one, and
\* counted; where no compile panics, what is counted is there.
OneJob ==
    /\ Running \/ SpecJobs # {} => cache.inflight
    /\ Running => SpecJobs = {}
    /\ \A j, k \in SpecJobs : j = k
    /\ worker.step = "notify" => worker.job.form = Full
    /\ "panic" \notin SpecOutcomes /\ cache.inflight => Running \/ SpecJobs # {}

\* A step with the same compiles of specializations.
LEMMA JobsStay ==
    ASSUME TypeOK, OneJob, worker' = worker, cache'.inflight = cache.inflight,
           \/ queue' = queue
           \/ queue' = Append(queue, [form |-> Full, ver |-> 0])
    PROVE  OneJob'
  <1> DEFINE job == [form |-> Full, ver |-> 0]
  <1>1. job \in Jobs /\ job.form = Full /\ queue \in Seq(Jobs)
    BY DEF Jobs, TypeOK
  <1> HIDE DEF job
  <1>2. CASE queue' = queue
    BY <1>2 DEF OneJob, Running, SpecJobs
  <1>3. CASE queue' = Append(queue, job)
    <2>1. /\ DOMAIN queue' = DOMAIN queue \cup {Len(queue) + 1}
          /\ \A k \in DOMAIN queue : queue'[k] = queue[k]
          /\ queue'[Len(queue) + 1] = job
      BY <1>1, <1>3
    <2>2. SpecJobs' = SpecJobs
      BY <1>1, <2>1 DEF SpecJobs
    <2>3. Running' = Running
      BY DEF Running
    <2>4. QED
      BY <2>2, <2>3 DEF OneJob
  <1>4. QED
    BY <1>2, <1>3 DEF job

\* What tracing, flips and counting do to the cache leaves its compiles alone.
LEMMA InflightStays ==
    ASSUME NEW st \in Caches, NEW i \in Inputs
    PROVE  /\ Retrace(st, i).inflight = st.inflight
           /\ OnFlip(st, i).inflight = st.inflight
           /\ DropNative(st).inflight = st.inflight
           /\ [st EXCEPT !.choices = Ran(@, 1)].inflight = st.inflight
  <1>1. ASSUME NEW s \in Caches
        PROVE  Disable(s).inflight = s.inflight /\ Retrace(s, i).inflight = s.inflight
    <2>1. ASSUME NEW c
          PROVE  /\ [s EXCEPT !.choices = c, !.spec = None].inflight = s.inflight
                 /\ [s EXCEPT !.choices = c, !.spec = Pinned(Observe(s.choices, Takes[i]))].inflight
                      = s.inflight
                 /\ Disable([s EXCEPT !.choices = c]).inflight = s.inflight
      BY DEF Disable, Caches
    <2>2. Disable(s).inflight = s.inflight
      BY DEF Disable, Caches
    <2>3. QED
      BY <2>1, <2>2 DEF Retrace
  <1>2. OnFlip(st, i).inflight = st.inflight
    <2> DEFINE c == Flipped(Cool(NewVersion(st.choices)), 1)
               s == [st EXCEPT !.native = None, !.stable = 0, !.choices = c]
    <2>1. c \in ChoicesSet
      <3>1. st.choices \in ChoicesSet
        BY DEF Caches
      <3>2. Cool(NewVersion(st.choices)) \in ChoicesSet
        BY <3>1, NewVersionMoves, PolicyTypes
      <3>3. QED
        BY <3>2, FlippedMoves
    <2>2. OnFlip(st, i) = IF c.off THEN Disable(s) ELSE Retrace(s, i)
      BY DEF OnFlip
    <2> HIDE DEF c
    <2>3. s \in Caches /\ s.inflight = st.inflight
      BY <2>1 DEF Caches
    <2> HIDE DEF s
    <2>4. QED
      BY <1>1, <2>2, <2>3
  <1>3. DropNative(st).inflight = st.inflight
    BY DEF DropNative, Caches
  <1>4. [st EXCEPT !.choices = Ran(@, 1)].inflight = st.inflight
    BY DEF Caches
  <1>5. QED
    BY <1>1, <1>2, <1>3, <1>4

\* What a probation submits is the only compile of a specialization.
LEMMA HeldOneJob ==
    ASSUME TypeOK, OneJob, NEW st \in Caches, st.inflight = cache.inflight,
           NEW sp \in Specs, NEW ver \in Nat, Held(st, sp, ver), worker' = worker
    PROVE  OneJob'
  <1> DEFINE s == [st EXCEPT !.stable = @ + 1]
             job == [form |-> sp, ver |-> ver]
  <1>1. s \in Caches /\ s.inflight = cache.inflight /\ cache.inflight \in BOOLEAN
    <2>1. s \in Caches /\ s.inflight = st.inflight
      BY DEF Caches
    <2>2. cache.inflight \in BOOLEAN
      BY DEF Caches, TypeOK
    <2>3. QED
      BY <2>1, <2>2
  <1>2. /\ job \in Jobs /\ job.form # Full
        /\ queue \in Seq(Jobs)
    BY MarkersApart DEF Jobs, TypeOK
  <1>3. \/ /\ ~s.inflight
           /\ cache' = [s EXCEPT !.inflight = TRUE, !.compiles = @ + 1]
           /\ queue' = Append(queue, job)
        \/ cache' = s /\ queue' = queue
    BY DEF Held, Submits
  <1> HIDE DEF s, job
  <1>4. CASE cache' = s /\ queue' = queue
    BY <1>1, <1>4, JobsStay
  <1>5. CASE /\ ~s.inflight
             /\ cache' = [s EXCEPT !.inflight = TRUE, !.compiles = @ + 1]
             /\ queue' = Append(queue, job)
    <2>1. cache'.inflight
      BY <1>1, <1>5 DEF Caches
    <2>2. /\ DOMAIN queue' = DOMAIN queue \cup {Len(queue) + 1}
          /\ \A k \in DOMAIN queue : queue'[k] = queue[k]
          /\ queue'[Len(queue) + 1] = job
      BY <1>2, <1>5
    <2>3. SpecJobs = {} /\ ~Running
      BY <1>1, <1>5 DEF OneJob
    <2>4. SpecJobs' = {Len(queue) + 1}
      BY <1>2, <2>2, <2>3 DEF SpecJobs
    <2>5. Running' = Running
      BY DEF Running
    <2>6. QED
      BY <2>1, <2>3, <2>4, <2>5 DEF OneJob
  <1>6. QED
    BY <1>3, <1>4, <1>5

\* The background thread takes, lands and drops what is counted.
LEMMA BackgroundOneJob ==
    ASSUME IInv, OneJob, Background
    PROVE  OneJob'
  <1>1. /\ queue \in Seq(Jobs) /\ CompilesOK /\ cache \in Caches
        /\ worker \in [job : Jobs \cup {None}, step : {"idle", "compile", "notify", "land"}]
    BY DEF IInv, TypeOK
  <1>2. CASE Take
    <2>1. /\ worker.step = "idle" /\ worker' = [job |-> queue[1], step |-> "compile"]
          /\ 1 \in DOMAIN queue /\ cache' = cache
          /\ \A k : k \in DOMAIN queue' <=> k \in Nat \ {0} /\ k + 1 \in DOMAIN queue
          /\ \A k \in DOMAIN queue' : queue'[k] = queue[k + 1]
      BY <1>1, <1>2 DEF Take, Idle
    <2>2. \A k : k \in SpecJobs' <=> k \in Nat \ {0} /\ k + 1 \in SpecJobs
      BY <1>1, <2>1 DEF SpecJobs
    <2>3. Running' <=> 1 \in SpecJobs
      BY <2>1 DEF Running, SpecJobs
    <2>4. ~Running
      BY <2>1 DEF Running
    <2>5. \A k \in SpecJobs : k \in Nat /\ (k = 1 \/ k - 1 \in Nat \ {0})
      BY <1>1 DEF SpecJobs
    <2>6. Running' \/ SpecJobs' # {} <=> SpecJobs # {}
      BY <2>2, <2>3, <2>5
    <2>7. Running' => SpecJobs' = {}
      BY <2>2, <2>3 DEF OneJob
    <2>8. \A j, k \in SpecJobs' : j = k
      BY <2>2 DEF OneJob
    <2>9. QED
      BY <2>1, <2>4, <2>6, <2>7, <2>8 DEF OneJob
  <1>3. CASE LandFull \/ Notify
    <2>1. /\ cache' = cache /\ queue' = queue /\ worker.job.form = Full
          /\ \/ worker' = Idle
             \/ worker' = [worker EXCEPT !.step = "notify"]
      BY <1>3 DEF LandFull, Notify, OneJob
    <2>2. ~Running /\ ~Running' /\ SpecJobs' = SpecJobs
          /\ (worker'.step = "notify" => worker'.job.form = Full)
      BY <1>1, <2>1 DEF Running, SpecJobs, Idle
    <2>3. QED
      BY <2>1, <2>2 DEF OneJob
  <1>4. CASE LockSpec
    <2>1. /\ cache' = cache /\ queue' = queue /\ worker.step = "compile"
          /\ worker' = [worker EXCEPT !.step = "land"]
      BY <1>4 DEF LockSpec
    <2>2. Running' = Running /\ SpecJobs' = SpecJobs /\ worker'.step = "land"
      BY <1>1, <2>1 DEF Running, SpecJobs
    <2>3. QED
      BY <2>1, <2>2 DEF OneJob
  <1>5. CASE LandSpec
    <2>1. ~cache'.inflight /\ queue' = queue /\ worker' = Idle
      BY <1>1, <1>5 DEF LandSpec, Landed, Caches
    <2>2. Running
      BY <1>1, <1>5 DEF LandSpec, CompilesOK, Running
    <2>3. SpecJobs' = {} /\ ~Running' /\ worker'.step = "idle"
      BY <2>1, <2>2 DEF OneJob, SpecJobs, Running, Idle
    <2>4. QED
      BY <2>1, <2>3 DEF OneJob
  <1>6. CASE PanicJob
    <2>1. /\ cache' = cache /\ queue' = queue /\ worker' = Idle
          /\ Running => "panic" \in SpecOutcomes
      BY <1>6 DEF PanicJob, Running
    <2>2. SpecJobs' = SpecJobs /\ ~Running' /\ worker'.step = "idle"
      BY <2>1 DEF SpecJobs, Running, Idle
    <2>3. QED
      BY <2>1, <2>2 DEF OneJob
  <1>7. QED
    BY <1>2, <1>3, <1>4, <1>5, <1>6 DEF Background

\* A whole evaluation asks for a compile only where none is on its way.
LEMMA EvalOneJob ==
    ASSUME IInv, OneJob, NEW t \in Threads, EvalSpec(t)
    PROVE  OneJob'
  <1> DEFINE st == [cache EXCEPT !.choices = Ran(@, 1)]
             d == DropNative(st)
  <1>1. TypeOK /\ CacheOK(cache) /\ cache \in Caches /\ arg[t] \in Inputs
    BY DEF IInv, TypeOK
  <1>2. CacheOK(st) /\ st \in Caches /\ st.inflight = cache.inflight
    BY <1>1, RanOK, InflightStays DEF CacheOK
  <1>3. CacheOK(d) /\ d \in Caches /\ d.inflight = cache.inflight
    BY <1>1, <1>2, DropNativeOK, InflightStays DEF CacheOK
  <1>4. /\ worker' = worker
        /\ \/ cache' = cache /\ queue' = queue
           \/ cache' = [st EXCEPT !.stable = @ + 1] /\ queue' = queue
           \/ EvalInterpreted(t, d, arg[t])
    BY DEF EvalSpec, ToFull
  <1> HIDE DEF st, d
  <1>5. CASE /\ cache' = cache \/ cache' = [st EXCEPT !.stable = @ + 1]
             /\ queue' = queue
    <2>1. cache'.inflight = cache.inflight
      BY <1>2, <1>5 DEF Caches
    <2>2. QED
      BY <1>1, <1>4, <1>5, <2>1, JobsStay
  <1>6. CASE EvalInterpreted(t, d, arg[t])
    <2>1. \/ /\ cache' = d \/ cache' = OnFlip(d, arg[t]) \/ cache' = Retrace(d, arg[t])
             /\ queue' = queue
          \/ d.spec # None /\ Held(d, d.spec, d.choices.version)
      BY <1>6 DEF EvalInterpreted, ToFull
    <2>2. CASE /\ cache' = d \/ cache' = OnFlip(d, arg[t]) \/ cache' = Retrace(d, arg[t])
               /\ queue' = queue
      BY <1>1, <1>3, <1>4, <2>2, InflightStays, JobsStay
    <2>3. CASE d.spec # None /\ Held(d, d.spec, d.choices.version)
      <3>1. d.spec \in Specs /\ d.choices.version \in Nat
        BY <1>3, <2>3 DEF Caches, ChoicesSet
      <3>2. QED
        BY <1>1, <1>3, <1>4, <2>3, <3>1, HeldOneJob
    <2>4. QED
      BY <2>1, <2>2, <2>3
  <1>7. QED
    BY <1>4, <1>5, <1>6

\* A prolog asks for none.
LEMMA PrologOneJob ==
    ASSUME IInv, OneJob, NEW t \in Threads, SpecProlog(t)
    PROVE  OneJob'
  <1> DEFINE ran == [cache EXCEPT !.choices = Ran(@, 1)]
             first == [Retrace(ran, arg[t]) EXCEPT !.choices = NewVersion(@), !.stable = 0]
             st == IF ran.spec = None THEN first ELSE ran
  <1>1. TypeOK /\ CacheOK(cache) /\ cache \in Caches /\ arg[t] \in Inputs
    BY DEF IInv, TypeOK
  <1>2. CacheOK(ran) /\ ran \in Caches /\ ran.inflight = cache.inflight
    BY <1>1, RanOK, InflightStays DEF CacheOK
  <1>3. /\ worker' = worker /\ queue' = queue
        /\ \/ cache' \in {cache, ran, st, DropNative(st)}
           \/ cache' \in {OnFlip(st, arg[t]), OnFlip(DropNative(st), arg[t])}
    BY DEF SpecProlog, ToFull, Enters
  <1> HIDE DEF ran
  <1>4. st \in Caches /\ st.inflight = cache.inflight
    <2>1. CASE ran.spec = None
      <3>1. CacheOK(first)
        BY <1>1, <1>2, <2>1, FirstOK
      <3>2. Retrace(ran, arg[t]).inflight = cache.inflight /\ Retrace(ran, arg[t]) \in Caches
        <4>1. ran.native = DropNative(ran).native /\ DropNative(ran).native = None
          BY <1>2, <2>1, DropNativeOK DEF DropNative
        <4>2. QED
          BY <1>1, <1>2, <4>1, RetraceOK, InflightStays DEF CacheOK
      <3>3. first.inflight = cache.inflight
        BY <3>2 DEF Caches
      <3>4. QED
        BY <2>1, <3>1, <3>3 DEF CacheOK
    <2>2. CASE ran.spec # None
      BY <1>2, <2>2
    <2>3. QED
      BY <2>1, <2>2
  <1>5. CacheOK(st)
    BY <1>1, <1>2, FirstOK
  <1> HIDE DEF st
  <1>6. DropNative(st) \in Caches /\ DropNative(st).inflight = cache.inflight
    BY <1>1, <1>4, <1>5, DropNativeOK, InflightStays DEF CacheOK
  <1>7. cache'.inflight = cache.inflight
    BY <1>1, <1>2, <1>3, <1>4, <1>6, InflightStays
  <1>8. QED
    BY <1>1, <1>3, <1>7, JobsStay

\* A main pass that held is counted for the specialization it ran.
LEMMA NoteOneJob ==
    ASSUME IInv, OneJob, NEW t \in Threads, Note(t)
    PROVE  OneJob'
  <1> DEFINE r == [cache EXCEPT !.choices = Ran(@, 1)]
  <1>1. /\ TypeOK /\ CacheOK(cache) /\ cache \in Caches /\ EpisodeOK(t) /\ CallOK(t)
        /\ ep[t] \in Episodes
    BY DEF IInv, TypeOK
  <1>2. CacheOK(r)
    BY <1>1, RanOK
  <1>3. r \in Caches /\ r.inflight = cache.inflight
    BY <1>1, <1>2 DEF CacheOK, Caches
  <1>4. pc[t] = "noted" /\ Held(r, ep[t].sp, ep[t].ver) /\ worker' = worker
    BY DEF Note
  <1> HIDE DEF r
  <1>5. ep[t].sp \in Specs /\ ep[t].ver \in Nat
    BY <1>1, <1>4 DEF CallOK, EpisodeOK, Episodes
  <1>6. QED
    BY <1>1, <1>3, <1>4, <1>5, HeldOneJob

\* Every step keeps one compile of a specialization at most.
LEMMA StepOneJob ==
    ASSUME IInv, OneJob, [Next]_vars
    PROVE  OneJob'
  <1>1. TypeOK /\ cache \in Caches
    BY DEF IInv, TypeOK
  <1>2. CASE Background
    BY <1>2, BackgroundOneJob
  <1>3. CASE \E t \in Threads : EvalSpec(t) \/ SpecProlog(t) \/ Note(t)
    BY <1>3, EvalOneJob, PrologOneJob, NoteOneJob
  <1>4. ASSUME NEW t \in Threads, FlipRetrace(t)
        PROVE  OneJob'
    <2>1. cache' = OnFlip(cache, arg[t]) /\ UNCHANGED <<queue, worker>> /\ arg[t] \in Inputs
      BY <1>1, <1>4 DEF FlipRetrace, TypeOK
    <2>2. cache'.inflight = cache.inflight
      BY <1>1, <2>1, InflightStays
    <2>3. QED
      BY <1>1, <2>1, <2>2, JobsStay
  <1>5. ASSUME NEW t \in Threads, Begin(t) \/ Main(t)
        PROVE  OneJob'
    <2>1. UNCHANGED <<cache, worker>>
      BY <1>5 DEF Begin, Main
    <2>2. queue' = queue \/ queue' = Append(queue, [form |-> Full, ver |-> 0])
      BY <1>5 DEF Begin, Main, Start
    <2>3. QED
      BY <1>1, <2>1, <2>2, JobsStay
  <1>6. CASE UNCHANGED <<cache, queue, worker>>
    BY <1>1, <1>6, JobsStay
  <1>7. QED
    <2>1. \A t \in Threads :
            Wake(t) \/ TryLock(t) \/ RunFull(t) \/ Pass(t) \/ TryNote(t) \/ FlipLock(t)
              => UNCHANGED <<cache, queue, worker>>
      BY DEF Wake, TryLock, RunFull, Pass, TryNote, FlipLock
    <2>2. BodyFormLands \/ UNCHANGED vars => UNCHANGED <<cache, queue, worker>>
      BY DEF BodyFormLands, vars
    <2>3. QED
      BY <1>2, <1>3, <1>4, <1>5, <1>6, <2>1, <2>2 DEF Next, Step

\* A compile of a specialization is in flight only where the cache counts it,
\* and alone, whatever the compiles come to: the budget is never spent on work
\* already queued (adaptive.rs:523-524).
THEOREM CompilesAreCounted ==
    Spec => [](/\ Running \/ SpecJobs # {} => cache.inflight
               /\ Running => SpecJobs = {}
               /\ \A j, k \in SpecJobs : j = k)
  <1>1. Init => IInv /\ OneJob
    BY InitOK DEF Init, OneJob, Running, SpecJobs, Idle
  <1>2. IInv /\ OneJob /\ [Next]_vars => IInv' /\ OneJob'
    BY StepKeeps, StepOneJob DEF Keeps
  <1>3. OneJob => /\ Running \/ SpecJobs # {} => cache.inflight
                  /\ Running => SpecJobs = {}
                  /\ \A j, k \in SpecJobs : j = k
    BY DEF OneJob
  <1>4. QED
    BY <1>1, <1>2, <1>3, PTL DEF Spec

\* Where no compile of a specialization panics, the cache counts one in flight
\* exactly while there is one.
THEOREM InflightIsOneJob == Spec => []("panic" \notin SpecOutcomes => OneSpecJob)
  <1>1. Init => IInv /\ OneJob
    BY InitOK DEF Init, OneJob, Running, SpecJobs, Idle
  <1>2. IInv /\ OneJob /\ [Next]_vars => IInv' /\ OneJob'
    BY StepKeeps, StepOneJob DEF Keeps
  <1>3. IInv /\ OneJob => ("panic" \notin SpecOutcomes => OneSpecJob)
    BY DEF OneJob, OneSpecJob, Running, IInv, TypeOK, Caches
  <1>4. QED
    BY <1>1, <1>2, <1>3, PTL DEF Spec

===============================================================================
