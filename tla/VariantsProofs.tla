---------------------------- MODULE VariantsProofs ----------------------------
(***************************************************************************)
(* Variants are built once and run exactly, for any threads, forms,        *)
(* limits, bindings and patterns.  The inductive invariant says where the  *)
(* one job that builds a pattern is, and whose lock or mark keeps others   *)
(* from building it; that a slot's number is that of a body decided by the *)
(* slot's pattern; and what each step of a call has made sure of.          *)
(***************************************************************************)
EXTENDS Variants, SequenceTheorems, TLAPS

------------------------------------------------------------------------------
(* The inductive invariant                                                  *)

\* A job as it waits or is worked on, before the announcement, with n bodies.
MakeOK(j, n) ==
    /\ j.kind = "make" /\ j.step \in {"look", "compile"}
    /\ j.form \in Compiles /\ j.v < Limit[j.form] /\ j.v < n
BuildOK(j) ==
    /\ j.kind = "build" /\ j.step \in {"check", "keep", "file"} /\ j.pattern \in Patterns
    /\ j.step = "check" => j.v = 0
JobOK(j, n) ==
    \/ j.kind = "find" /\ j.step = "find"
    \/ j.kind = "conds" /\ j.step = "conds"
    \/ BuildOK(j) \/ MakeOK(j, n)

\* What waits for the background.
QueueOK ==
    \A i \in DOMAIN queue :
        /\ JobOK(queue[i], Len(bodies)) /\ queue[i].form \in Submits
        /\ queue[i].step \in {"find", "check", "look", "conds"}

\* The background has one job at a time.
WorkerOK ==
    todo[Worker] # <<>> =>
        /\ Len(todo[Worker]) = 1
        /\ Now(Worker).step # "announce" => JobOK(Now(Worker), Len(bodies))

\* The jobs a thread runs are its call's.
TodoOK(t) ==
    /\ \A i \in DOMAIN todo[t] : JobOK(todo[t][i], Len(bodies)) /\ todo[t][i].kind # "find"
    /\ todo[t] # <<>> =>
         \/ /\ pc[t] = "forming"
            /\ \A i \in DOMAIN todo[t] : todo[t][i].kind = "make" /\ todo[t][i].form = call[t]
         \/ /\ Len(todo[t]) = 1
            /\ \/ pc[t] = "index" /\ Now(t).kind = "conds"
               \/ pc[t] = "choose" /\ Now(t).kind = "build" /\ Now(t).pattern = Pattern(t)
               \/ pc[t] \in {"made", "idle"} /\ Now(t).kind = "make" /\ Now(t).form \notin Submits

\* Executor e builds a variant, or has yet to enter it.
Builds(e) == todo[e] # <<>> /\ Now(e).kind = "build" /\ Now(e).step # "announce"
Files(e, p, v) == Builds(e) /\ Now(e).step = "file" /\ Now(e).pattern = p /\ Now(e).v = v
Asked(i, p) == queue[i].kind = "build" /\ queue[i].pattern = p

\* A thread that builds holds the index, which has no slot for its pattern;
\* the background builds what is marked, each pattern once.
BuildsOK ==
    /\ \A t \in Threads : Builds(t) <=> indexLock = t
    /\ \A t \in Threads : Builds(t) => Now(t).pattern \notin DOMAIN index
    /\ Builds(Worker) =>
           Now(Worker).pattern \in DOMAIN index /\ index[Now(Worker).pattern] = Building
    /\ \A i \in DOMAIN queue : queue[i].kind = "build" =>
           /\ queue[i].pattern \in DOMAIN index /\ index[queue[i].pattern] = Building
           /\ ~(Builds(Worker) /\ Now(Worker).pattern = queue[i].pattern)
           /\ \A k \in DOMAIN queue : Asked(k, queue[i].pattern) => k = i
    /\ \A p \in DOMAIN index : index[p] = Building =>
           \/ Builds(Worker) /\ Now(Worker).pattern = p
           \/ \E i \in DOMAIN queue : Asked(i, p)

\* The selects are being found as long as finding them is all there is.
FindingOK ==
    finding /\ ~found =>
        \/ todo[Worker] # <<>> /\ Now(Worker).step = "find"
        \/ \E i \in DOMAIN queue : queue[i].step = "find"

\* Every body but the full one was kept once, for the pattern whose slot has
\* its number or is about to.
BodiesOK ==
    /\ Len(bodies) >= 1 /\ bodies[1] = Full
    /\ \A n \in 2..Len(bodies) :
           /\ bodies[n] \in Patterns
           /\ \/ bodies[n] \in DOMAIN index /\ index[bodies[n]] = n - 1
              \/ \E e \in Executors : Files(e, bodies[n], n - 1)

\* A number stands for a body decided by the slot's pattern, or for the full
\* one.
Stands(v, p) == v < Len(bodies) /\ (v > 0 => bodies[v + 1] = p)
SlotsOK ==
    /\ \A p \in DOMAIN index : index[p] # Building => Stands(index[p], p)
    /\ \A e \in Executors : Builds(e) /\ Now(e).step = "file" => Stands(Now(e).v, Now(e).pattern)

\* A form's code is that compiled first under its key.
CodeOK ==
    \A f \in Forms, v \in Kept : made[f][v] # None => made[f][v] = cached[v][Key[f]]

\* What each step of a call relies on.
CallOK(t) ==
    /\ pc[t] \in {"variant", "index", "choose", "made", "run"} => session[t] \in Sessions
    /\ pc[t] \in {"variant", "index", "choose", "made"} => call[t] \in {None, Form(t)}
    /\ pc[t] \in {"variant", "run"} => todo[t] = <<>>
    /\ pc[t] \in {"index", "choose", "made"} => Form(t) \in Specializing \cap Wants /\ found
    /\ pc[t] = "made" \/ (pc[t] = "choose" /\ todo[t] = <<>>) =>
           Pattern(t) \in DOMAIN index /\ index[Pattern(t)] # Building
    /\ pc[t] = "made" => index[Pattern(t)] < Limit[Form(t)]
    /\ pc[t] = "run" => call[t] \in Forms /\ Program[call[t]] = Program[Form(t)]

\* A state's tag is that of a body right for its binding, within its form's
\* limit; a result is its binding's value.
SessionOK(t) ==
    /\ session[t] # None => Stands(session[t].tag, Pattern(t)) /\ session[t].tag < Limit[Form(t)]
    /\ out[t] # None => session[t] \in Sessions /\ out[t] = session[t].binding

\* Forms being made are nobody's yet, and each is one thread's.
FormingOK ==
    \A t \in Threads : pc[t] = "forming" =>
        /\ call[t] \in Forms \ forms
        /\ \A u \in Threads : pc[u] = "forming" /\ call[u] = call[t] => u = t

\* A session laid by a form whose work goes to the background, with nothing
\* there and nothing announced since: its form looked its pattern up, and
\* it runs the variant there is.
Pending == queue # <<>> \/ todo[Worker] # <<>>
LaidOK(t) ==
    pc[t] \in {"idle", "run", "forming"} /\ session[t] # None =>
        (Form(t) \in Submits /\ ~Pending /\ session[t].seen = epoch =>
            /\ Form(t) \in Specializing => found
            /\ Form(t) \in Specializing \cap Wants => Pattern(t) \in DOMAIN index
            /\ session[t].tag = 0 => ~Available(Form(t), Pattern(t)))

IInv ==
    /\ TypeOK
    /\ QueueOK /\ WorkerOK /\ BuildsOK /\ FindingOK /\ BodiesOK /\ SlotsOK /\ CodeOK /\ FormingOK
    /\ \A t \in Threads : TodoOK(t) /\ CallOK(t) /\ SessionOK(t) /\ LaidOK(t)

------------------------------------------------------------------------------
(* Jobs                                                                     *)

\* The job under way is the first of those there are.
LEMMA NowIsFirst ==
    ASSUME TypeOK, NEW e \in Executors, todo[e] # <<>>
    PROVE  /\ Len(todo[e]) \in Nat \ {0} /\ 1 \in DOMAIN todo[e]
           /\ Now(e) = todo[e][1] /\ Now(e) \in Jobs
  <1>1. todo[e] \in Seq(Jobs)
    BY DEF TypeOK
  <1>2. QED
    BY <1>1 DEF Now

\* Job k is job j at another step.
Renamed(j, k, step) ==
    /\ k.step = step /\ k.kind = j.kind /\ k.form = j.form
    /\ k.pattern = j.pattern /\ k.v = j.v

\* A job that goes on stays what it is; so do the others.
LEMMA GoesMoves ==
    ASSUME TypeOK, NEW e \in Executors, todo[e] # <<>>, NEW step,
           step \in {"file", "keep", "compile", "announce"}, Goes(e, step)
    PROVE  /\ todo' \in [Executors -> Seq(Jobs)]
           /\ \A d \in Executors : d # e => todo'[d] = todo[d]
           /\ Len(todo'[e]) = Len(todo[e]) /\ todo'[e] # <<>>
           /\ DOMAIN todo'[e] = DOMAIN todo[e]
           /\ todo'[e][1] = Now(e)' /\ Renamed(Now(e), Now(e)', step)
           /\ \A i \in DOMAIN todo[e] : i # 1 => todo'[e][i] = todo[e][i]
  <1> DEFINE j == [todo[e][1] EXCEPT !.step = step]
  <1>1. todo \in [Executors -> Seq(Jobs)] /\ todo[e] \in Seq(Jobs)
    BY DEF TypeOK
  <1>2. Now(e) = todo[e][1] /\ Now(e) \in Jobs
    BY NowIsFirst
  <1>3. j \in Jobs /\ <<j>> \in Seq(Jobs) /\ Renamed(Now(e), j, step)
    BY <1>2 DEF Jobs, Renamed
  <1>4. todo' = [todo EXCEPT ![e] = <<j>> \o Tail(todo[e])]
    BY <1>1 DEF Goes
  <1> HIDE DEF j
  <1>5. /\ Tail(todo[e]) \in Seq(Jobs) /\ Len(Tail(todo[e])) = Len(todo[e]) - 1
        /\ \A i \in 1..Len(Tail(todo[e])) : Tail(todo[e])[i] = todo[e][i + 1]
    BY <1>1, HeadTailProperties
  <1> DEFINE s == <<j>> \o Tail(todo[e])
  <1>6. /\ s \in Seq(Jobs) /\ Len(s) = 1 + Len(Tail(todo[e]))
        /\ \A i \in 1..1 + Len(Tail(todo[e])) :
              s[i] = IF i <= 1 THEN <<j>>[i] ELSE Tail(todo[e])[i - 1]
    BY <1>3, <1>5, ConcatProperties
  <1>7. todo'[e] = s /\ \A d \in Executors : d # e => todo'[d] = todo[d]
    BY <1>1, <1>4
  <1>8. todo' \in [Executors -> Seq(Jobs)]
    BY <1>1, <1>4, <1>6
  <1> HIDE DEF s
  <1>9. Len(todo[e]) \in Nat \ {0}
    BY NowIsFirst
  <1>10. Len(s) = Len(todo[e]) /\ s # <<>> /\ DOMAIN s = DOMAIN todo[e] /\ s[1] = j
    BY <1>1, <1>5, <1>6, <1>9
  <1>11. \A i \in DOMAIN todo[e] : i # 1 => s[i] = todo[e][i]
    BY <1>1, <1>5, <1>6, <1>9, <1>10
  <1>12. Now(e)' = s[1]
    BY <1>7, <1>6, <1>10 DEF Now
  <1>13. QED
    BY <1>3, <1>7, <1>8, <1>10, <1>11, <1>12

\* A thread's job that is done leaves the rest.
LEMMA TailMoves ==
    ASSUME TypeOK, NEW e \in Executors, todo[e] # <<>>,
           todo' = [todo EXCEPT ![e] = Tail(@)]
    PROVE  /\ todo' \in [Executors -> Seq(Jobs)]
           /\ \A d \in Executors : d # e => todo'[d] = todo[d]
           /\ Len(todo'[e]) = Len(todo[e]) - 1
           /\ Len(todo[e]) = 1 => todo'[e] = <<>>
           /\ \A i \in DOMAIN todo'[e] : i + 1 \in DOMAIN todo[e] /\ todo'[e][i] = todo[e][i + 1]
  <1>1. todo \in [Executors -> Seq(Jobs)] /\ todo[e] \in Seq(Jobs)
    BY DEF TypeOK
  <1>2. /\ Tail(todo[e]) \in Seq(Jobs) /\ Len(Tail(todo[e])) = Len(todo[e]) - 1
        /\ \A i \in 1..Len(Tail(todo[e])) : Tail(todo[e])[i] = todo[e][i + 1]
    BY <1>1, HeadTailProperties
  <1>3. Len(todo[e]) \in Nat \ {0}
    BY NowIsFirst
  <1>4. todo'[e] = Tail(todo[e]) /\ \A d \in Executors : d # e => todo'[d] = todo[d]
    BY <1>1
  <1>5. todo' \in [Executors -> Seq(Jobs)]
    BY <1>1, <1>2
  <1>6. Len(todo[e]) = 1 => todo'[e] = <<>>
    <2>1. Tail(todo[e]) # <<>> => Len(Tail(todo[e])) \in Nat \ {0}
      BY <1>2, EmptySeq
    <2>2. Len(todo[e]) = 1 => Len(Tail(todo[e])) = 0
      BY <1>2
    <2>3. QED
      BY <1>4, <2>1, <2>2
  <1>7. \A i \in DOMAIN todo'[e] : i + 1 \in DOMAIN todo[e] /\ todo'[e][i] = todo[e][i + 1]
    <2> DEFINE r == Tail(todo[e])
    <2>1. DOMAIN r = 1..Len(r) /\ DOMAIN todo[e] = 1..Len(todo[e])
      BY <1>1, <1>2
    <2>2. \A i \in DOMAIN r : i + 1 \in DOMAIN todo[e] /\ r[i] = todo[e][i + 1]
      BY <1>2, <1>3, <2>1
    <2>3. QED
      BY <1>4, <2>2
  <1>8. QED
    BY <1>2, <1>4, <1>5, <1>6, <1>7

\* Work that is done ends: in the background it is yet to be announced.
LEMMA EndsMoves ==
    ASSUME TypeOK, NEW e \in Executors, todo[e] # <<>>, Ends(e)
    PROVE  /\ todo' \in [Executors -> Seq(Jobs)]
           /\ \A d \in Executors : d # e => todo'[d] = todo[d]
           /\ e = Worker => /\ Len(todo'[e]) = Len(todo[e]) /\ todo'[e] # <<>>
                            /\ Renamed(Now(e), Now(e)', "announce")
           /\ e # Worker =>
                 /\ Len(todo'[e]) = Len(todo[e]) - 1
                 /\ Len(todo[e]) = 1 => todo'[e] = <<>>
                 /\ \A i \in DOMAIN todo'[e] :
                       i + 1 \in DOMAIN todo[e] /\ todo'[e][i] = todo[e][i + 1]
  <1>1. CASE e = Worker
    BY <1>1, GoesMoves DEF Ends
  <1>2. CASE e # Worker
    BY <1>2, TailMoves DEF Ends
  <1>3. QED
    BY <1>1, <1>2

\* What is said of a job holds as bodies are added.
LEMMA JobStays ==
    ASSUME NEW j \in Jobs, NEW m \in Nat, NEW n \in Nat, m <= n, JobOK(j, m)
    PROVE  JobOK(j, n)
  BY DEF JobOK, BuildOK, MakeOK, Jobs

\* A step that leaves bodies and slots, and what is built and asked for, keeps
\* what is known of them.
LEMMA BuildsFrame ==
    ASSUME BuildsOK, BodiesOK, SlotsOK, UNCHANGED <<bodies, index, indexLock>>,
           \A e \in Executors : /\ Builds(e)' <=> Builds(e)
                                /\ Builds(e) => Now(e)' = Now(e),
           \A i \in DOMAIN queue : i \in DOMAIN queue' /\ queue'[i] = queue[i],
           \A i \in DOMAIN queue' : queue'[i].kind = "build" => i \in DOMAIN queue
    PROVE  BuildsOK' /\ BodiesOK' /\ SlotsOK'
  <1>1. \A e \in Executors : \A p, v : Files(e, p, v)' <=> Files(e, p, v)
    BY DEF Files
  <1>2. \A v, p : Stands(v, p)' <=> Stands(v, p)
    BY DEF Stands
  <1>3. Worker \in Executors /\ Threads \subseteq Executors
    BY DEF Executors
  <1>4. \A i \in DOMAIN queue' : queue'[i].kind = "build" =>
            i \in DOMAIN queue /\ queue'[i] = queue[i]
    OBVIOUS
  <1>5. BodiesOK'
    BY <1>1 DEF BodiesOK
  <1>6. SlotsOK'
    BY <1>2 DEF SlotsOK
  <1>7. BuildsOK'
    <2>1. \A t \in Threads : Builds(t)' <=> indexLock' = t
      BY <1>3 DEF BuildsOK
    <2>2. \A t \in Threads : Builds(t)' => Now(t)'.pattern \notin DOMAIN index'
      BY <1>3 DEF BuildsOK
    <2>3. Builds(Worker)' =>
           Now(Worker)'.pattern \in DOMAIN index' /\ index'[Now(Worker)'.pattern] = Building
      BY <1>3 DEF BuildsOK
    <2>4. ASSUME NEW i \in DOMAIN queue', queue'[i].kind = "build"
          PROVE /\ queue'[i].pattern \in DOMAIN index' /\ index'[queue'[i].pattern] = Building
                /\ ~(Builds(Worker)' /\ Now(Worker)'.pattern = queue'[i].pattern)
                /\ \A k \in DOMAIN queue' : Asked(k, queue[i].pattern)' => k = i
      BY <1>3, <1>4, <2>4 DEF BuildsOK, Asked
    <2>5. ASSUME NEW p \in DOMAIN index', index'[p] = Building
          PROVE  \/ Builds(Worker)' /\ Now(Worker)'.pattern = p
                 \/ \E i \in DOMAIN queue' : Asked(i, p)'
      BY <1>3, <2>5 DEF BuildsOK, Asked
    <2>6. QED
      BY <1>4, <2>1, <2>2, <2>3, <2>4, <2>5 DEF BuildsOK, Asked
  <1>8. QED
    BY <1>5, <1>6, <1>7

\* The first of executor e's jobs went on or ended; the others are as they
\* were.
WorkedOn(e) ==
    /\ todo' \in [Executors -> Seq(Jobs)]
    /\ \A d \in Executors : d # e => todo'[d] = todo[d]
    /\ Len(todo'[e]) <= Len(todo[e])
    /\ \A i \in DOMAIN todo'[e] : \E k \in DOMAIN todo[e] :
          /\ todo'[e][i].kind = todo[e][k].kind /\ todo'[e][i].form = todo[e][k].form
          /\ todo'[e][i].pattern = todo[e][k].pattern
          /\ (e = Worker /\ todo'[e][i].step = "announce")
             \/ JobOK(todo'[e][i], Len(bodies'))

\* An executor's jobs are well formed, but for what is to be announced.
LEMMA JobsAreOK ==
    ASSUME IInv, NEW e \in Executors, NEW i \in DOMAIN todo[e]
    PROVE  /\ todo[e][i] \in Jobs
           /\ (e = Worker /\ i = 1 /\ todo[e][i].step = "announce") \/ JobOK(todo[e][i], Len(bodies))
  <1>1. todo[e] \in Seq(Jobs)
    BY DEF IInv, TypeOK
  <1>2. todo[e][i] \in Jobs
    BY <1>1
  <1>3. CASE e = Worker
    <2>1. todo[e] # <<>>
      BY <1>1
    <2>2. Len(todo[e]) = 1 /\ Now(e) = todo[e][1]
      BY <1>3, <2>1, NowIsFirst DEF IInv, WorkerOK
    <2>3. i = 1
      BY <1>1, <2>2
    <2>4. QED
      BY <1>2, <1>3, <2>1, <2>2, <2>3 DEF IInv, WorkerOK
  <1>4. CASE e # Worker
    BY <1>2, <1>4 DEF IInv, TodoOK, Executors
  <1>5. QED
    BY <1>3, <1>4

\* A job going on is worked on.
LEMMA GoesOK ==
    ASSUME IInv, NEW e \in Executors, todo[e] # <<>>, NEW step,
           step \in {"file", "keep", "compile", "announce"}, Goes(e, step),
           (e = Worker /\ step = "announce") \/ JobOK(Now(e)', Len(bodies')),
           Len(bodies') \in Nat, Len(bodies) \in Nat, Len(bodies) <= Len(bodies')
    PROVE  WorkedOn(e)
  <1>1. TypeOK
    BY DEF IInv
  <1>2. /\ todo' \in [Executors -> Seq(Jobs)]
        /\ \A d \in Executors : d # e => todo'[d] = todo[d]
        /\ Len(todo'[e]) = Len(todo[e]) /\ DOMAIN todo'[e] = DOMAIN todo[e]
        /\ todo'[e][1] = Now(e)' /\ Renamed(Now(e), Now(e)', step)
        /\ \A i \in DOMAIN todo[e] : i # 1 => todo'[e][i] = todo[e][i]
    BY <1>1, GoesMoves
  <1>3. Now(e) = todo[e][1] /\ Len(todo[e]) \in Nat
    BY <1>1, NowIsFirst
  <1>4. ASSUME NEW i \in DOMAIN todo'[e]
        PROVE  \E k \in DOMAIN todo[e] :
          /\ todo'[e][i].kind = todo[e][k].kind /\ todo'[e][i].form = todo[e][k].form
          /\ todo'[e][i].pattern = todo[e][k].pattern
          /\ (e = Worker /\ todo'[e][i].step = "announce")
             \/ JobOK(todo'[e][i], Len(bodies'))
    <2>1. CASE i = 1
      BY <1>2, <1>3, <2>1 DEF Renamed
    <2>2. CASE i # 1
      <3>1. todo[e][i] \in Jobs /\ JobOK(todo[e][i], Len(bodies))
        BY <1>2, <2>2, JobsAreOK
      <3>2. JobOK(todo[e][i], Len(bodies'))
        BY <3>1, JobStays
      <3>3. QED
        BY <1>2, <2>2, <3>2
    <2>3. QED
      BY <2>1, <2>2
  <1>5. QED
    BY <1>2, <1>3, <1>4 DEF WorkedOn

\* A job that ends is worked on.
LEMMA EndsOK ==
    ASSUME IInv, NEW e \in Executors, todo[e] # <<>>, Ends(e),
           Len(bodies') \in Nat, Len(bodies) \in Nat, Len(bodies) <= Len(bodies')
    PROVE  WorkedOn(e)
  <1>1. TypeOK
    BY DEF IInv
  <1>2. CASE e = Worker
    <2>1. Goes(e, "announce")
      BY <1>2 DEF Ends
    <2>2. QED
      BY <1>2, <2>1, GoesOK
  <1>3. CASE e # Worker
    <2>1. /\ todo' \in [Executors -> Seq(Jobs)]
          /\ \A d \in Executors : d # e => todo'[d] = todo[d]
          /\ Len(todo'[e]) = Len(todo[e]) - 1
          /\ \A i \in DOMAIN todo'[e] :
                i + 1 \in DOMAIN todo[e] /\ todo'[e][i] = todo[e][i + 1]
      BY <1>1, <1>3, EndsMoves
    <2>2. Len(todo[e]) \in Nat
      BY <1>1, NowIsFirst
    <2>3. ASSUME NEW i \in DOMAIN todo'[e]
          PROVE  \E k \in DOMAIN todo[e] :
            /\ todo'[e][i].kind = todo[e][k].kind /\ todo'[e][i].form = todo[e][k].form
            /\ todo'[e][i].pattern = todo[e][k].pattern
            /\ (e = Worker /\ todo'[e][i].step = "announce")
             \/ JobOK(todo'[e][i], Len(bodies'))
      <3>1. todo[e][i + 1] \in Jobs /\ JobOK(todo[e][i + 1], Len(bodies))
        BY <1>3, <2>1, JobsAreOK
      <3>2. JobOK(todo[e][i + 1], Len(bodies'))
        BY <3>1, JobStays
      <3>3. QED
        BY <2>1, <3>2
    <2>4. QED
      BY <2>1, <2>2, <2>3 DEF WorkedOn
  <1>4. QED
    BY <1>2, <1>3

\* There is the full body, and every thread is an executor.
LEMMA Basics ==
    ASSUME IInv
    PROVE  /\ TypeOK /\ bodies \in Seq(Patterns \cup {Full}) /\ Len(bodies) \in Nat \ {0}
           /\ DOMAIN bodies = 1..Len(bodies)
           /\ Worker \in Executors /\ Worker \notin Threads
           /\ \A t \in Threads : t \in Executors /\ t # Worker
  <1>1. TypeOK /\ bodies \in Seq(Patterns \cup {Full})
    BY DEF IInv, TypeOK
  <1>2. Len(bodies) \in Nat /\ DOMAIN bodies = 1..Len(bodies)
    BY <1>1
  <1>3. Len(bodies) >= 1
    BY DEF IInv, BodiesOK
  <1>4. QED
    BY <1>1, <1>2, <1>3, FormsAssumption DEF Executors

\* What is worked on keeps its shape.
LEMMA WorkedShapes ==
    ASSUME IInv, NEW e \in Executors, todo[e] # <<>>, WorkedOn(e),
           UNCHANGED <<pc, call, session>>,
           Len(bodies') \in Nat, Len(bodies) <= Len(bodies')
    PROVE  WorkerOK' /\ \A t \in Threads : TodoOK(t)'
  <1>1. /\ Worker \in Executors /\ \A t \in Threads : t \in Executors /\ t # Worker
        /\ Len(bodies) \in Nat /\ TypeOK
    BY Basics
  <1>2. \A d \in Executors : todo[d] \in Seq(Jobs) /\ todo'[d] \in Seq(Jobs)
    BY DEF IInv, TypeOK, WorkedOn
  <1>3. \A d \in Executors : todo'[d] # <<>> => Now(d)' = todo'[d][1] /\ 1 \in DOMAIN todo'[d]
    BY <1>2 DEF Now
  <1>4. \A d \in Executors : todo[d] # <<>> => Now(d) = todo[d][1] /\ 1 \in DOMAIN todo[d]
    BY <1>2 DEF Now
  <1>5. \A d \in Executors : d # e => todo'[d] = todo[d] /\ Now(d)' = Now(d)
    BY DEF WorkedOn, Now
  <1>6. WorkerOK'
    <2>1. CASE e # Worker
      <3>1. todo[Worker] # <<>> => Now(Worker) \in Jobs
        BY <1>1, NowIsFirst
      <3>2. todo[Worker] # <<>> => Len(todo[Worker]) = 1
              /\ (Now(Worker).step # "announce" => JobOK(Now(Worker), Len(bodies)))
        BY DEF IInv, WorkerOK
      <3>3. todo[Worker] # <<>> =>
              (Now(Worker).step # "announce" => JobOK(Now(Worker), Len(bodies')))
        BY <1>1, <3>1, <3>2, JobStays
      <3>4. QED
        BY <1>1, <1>5, <2>1, <3>2, <3>3 DEF WorkerOK
    <2>2. CASE e = Worker
      <3>1. Len(todo[e]) = 1
        BY <2>2 DEF IInv, WorkerOK
      <3>2. todo'[e] # <<>> => Len(todo'[e]) = 1
        BY <1>1, <1>2, <1>3, <3>1 DEF WorkedOn
      <3>3. todo'[e] # <<>> => todo'[e][1].step = "announce"
                               \/ JobOK(todo'[e][1], Len(bodies'))
        BY <1>3, <2>2 DEF WorkedOn
      <3>4. QED
        BY <1>3, <2>2, <3>2, <3>3 DEF WorkerOK
    <2>3. QED
      BY <2>1, <2>2
  <1>7. ASSUME NEW t \in Threads
        PROVE  TodoOK(t)'
    <2>1. TodoOK(t)
      BY DEF IInv
    <2>2. Pattern(t)' = Pattern(t)
      BY DEF Pattern
    <2>3. CASE t # e
      <3>1. \A i \in DOMAIN todo[t] : todo[t][i] \in Jobs /\ JobOK(todo[t][i], Len(bodies))
        BY <1>1, <1>2, <2>1 DEF TodoOK
      <3>2. \A i \in DOMAIN todo[t] : JobOK(todo[t][i], Len(bodies'))
        BY <1>1, <3>1, JobStays
      <3>3. todo'[t] = todo[t] /\ Now(t)' = Now(t)
        BY <1>1, <1>5, <2>3
      <3>4. QED
        BY <2>1, <2>2, <3>2, <3>3 DEF TodoOK
    <2>4. CASE t = e
      <3>1. \A i \in DOMAIN todo'[t] : \E k \in DOMAIN todo[t] :
               /\ todo'[t][i].kind = todo[t][k].kind /\ todo'[t][i].form = todo[t][k].form
               /\ todo'[t][i].pattern = todo[t][k].pattern
               /\ JobOK(todo'[t][i], Len(bodies'))
        BY <1>1, <2>4 DEF WorkedOn
      <3>2. \A i \in DOMAIN todo'[t] : JobOK(todo'[t][i], Len(bodies')) /\ todo'[t][i].kind # "find"
        BY <2>1, <3>1 DEF TodoOK
      <3>3. ASSUME Len(todo[t]) = 1, todo'[t] # <<>>
            PROVE  /\ Len(todo'[t]) = 1 /\ Now(t)'.kind = Now(t).kind
                   /\ Now(t)'.form = Now(t).form /\ Now(t)'.pattern = Now(t).pattern
        <4>1. Len(todo'[t]) = 1
          BY <1>1, <1>2, <1>3, <2>4, <3>3 DEF WorkedOn
        <4>2. \A k \in DOMAIN todo[t] : k = 1
          BY <1>1, <1>2, <3>3
        <4>3. QED
          BY <1>1, <1>3, <1>4, <2>4, <3>1, <3>3, <4>1, <4>2
      <3>4. ASSUME pc[t] = "forming",
                   \A i \in DOMAIN todo[t] : todo[t][i].kind = "make" /\ todo[t][i].form = call[t]
            PROVE  \A i \in DOMAIN todo'[t] :
                      todo'[t][i].kind = "make" /\ todo'[t][i].form = call[t]
        BY <3>1, <3>4
      <3>5. QED
        BY <2>1, <2>2, <2>4, <3>2, <3>3, <3>4 DEF TodoOK
    <2>5. QED
      BY <2>3, <2>4
  <1>8. QED
    BY <1>6, <1>7

\* Work that builds nothing leaves what is built.
LEMMA WorkedUnbuilt ==
    ASSUME IInv, NEW e \in Executors, todo[e] # <<>>, WorkedOn(e), Now(e).kind # "build"
    PROVE  /\ \A d \in Executors : /\ Builds(d)' <=> Builds(d)
                                   /\ Builds(d) => Now(d)' = Now(d)
           /\ \A t \in Threads : pc[t] = "choose" => t # e
  <1>1. /\ Worker \in Executors /\ \A t \in Threads : t \in Executors /\ t # Worker /\ TypeOK
    BY Basics
  <1>2. \A d \in Executors : d # e => todo'[d] = todo[d] /\ Now(d)' = Now(d)
    BY DEF WorkedOn, Now
  <1>3. todo[e] \in Seq(Jobs) /\ todo'[e] \in Seq(Jobs)
    BY DEF IInv, TypeOK, WorkedOn
  <1>4. Now(e) = todo[e][1] /\ 1 \in DOMAIN todo[e]
    BY <1>3 DEF Now
  <1>5. \A k \in DOMAIN todo[e] : todo[e][k].kind # "build"
    <2>1. CASE Len(todo[e]) = 1
      BY <1>3, <1>4, <2>1
    <2>2. CASE Len(todo[e]) # 1
      <3>1. e # Worker
        BY <2>2 DEF IInv, WorkerOK
      <3>2. TodoOK(e)
        BY <3>1 DEF IInv, Executors
      <3>3. QED
        BY <2>2, <3>2 DEF TodoOK
    <2>3. QED
      BY <2>1, <2>2
  <1>6. \A i \in DOMAIN todo'[e] : todo'[e][i].kind # "build"
    BY <1>5 DEF WorkedOn
  <1>7. ~Builds(e)
    BY DEF Builds
  <1>8. ~Builds(e)'
    <2>1. todo'[e] # <<>> => Now(e)' = todo'[e][1] /\ 1 \in DOMAIN todo'[e]
      BY <1>3 DEF Now
    <2>2. QED
      BY <1>6, <2>1 DEF Builds
  <1>9. \A t \in Threads : pc[t] = "choose" => t # e
    <2>1. ASSUME NEW t \in Threads, t = e, pc[t] = "choose"
          PROVE  FALSE
      BY <2>1 DEF IInv, TodoOK
    <2>2. QED
      BY <2>1
  <1>10. QED
    BY <1>2, <1>7, <1>8, <1>9 DEF Builds

\* Work that builds nothing keeps what is known of jobs, bodies, slots and
\* calls.
LEMMA WorkFrame ==
    ASSUME IInv, NEW e \in Executors, todo[e] # <<>>, WorkedOn(e), Now(e).kind # "build",
           UNCHANGED <<forms, bodies, index, indexLock, queue, pc, call, session, out>>,
           found => found', epoch' \in Nat, epoch <= epoch'
    PROVE  /\ QueueOK' /\ WorkerOK' /\ BuildsOK' /\ BodiesOK' /\ SlotsOK' /\ FormingOK'
           /\ \A t \in Threads : TodoOK(t)' /\ CallOK(t)' /\ SessionOK(t)'
  <1>1. /\ TypeOK /\ Len(bodies) \in Nat \ {0} /\ Len(bodies') \in Nat /\ Len(bodies') = Len(bodies)
        /\ \A t \in Threads : t \in Executors
    BY Basics
  <1>2. QueueOK'
    BY DEF IInv, QueueOK
  <1>3. WorkerOK' /\ \A t \in Threads : TodoOK(t)'
    BY <1>1, WorkedShapes
  <1>4. /\ \A d \in Executors : /\ Builds(d)' <=> Builds(d)
                                /\ Builds(d) => Now(d)' = Now(d)
        /\ \A t \in Threads : pc[t] = "choose" => t # e
    BY WorkedUnbuilt
  <1>5. BuildsOK' /\ BodiesOK' /\ SlotsOK'
    <2>1. BuildsOK /\ BodiesOK /\ SlotsOK
      BY DEF IInv
    <2>2. QED
      BY <1>4, <2>1, BuildsFrame
  <1>6. FormingOK'
    BY DEF IInv, FormingOK
  <1>7. Sessions \subseteq Sessions'
    <2>1. epoch \in Nat
      BY <1>1 DEF TypeOK
    <2>2. 0..epoch \subseteq 0..epoch'
      BY <2>1
    <2>3. QED
      BY <2>2 DEF Sessions
  <1>8. ASSUME NEW t \in Threads
        PROVE  CallOK(t)' /\ SessionOK(t)'
    <2>1. CallOK(t) /\ SessionOK(t)
      BY DEF IInv
    <2>2. Form(t)' = Form(t) /\ Pattern(t)' = Pattern(t)
      BY DEF Form, Pattern
    <2>3. pc[t] \in {"variant", "run", "choose"} => todo'[t] = todo[t]
      <3>1. t # e => todo'[t] = todo[t]
        BY <1>1 DEF WorkedOn
      <3>2. QED
        BY <1>4, <2>1, <3>1 DEF CallOK
    <2>4. CallOK(t)'
      BY <1>7, <2>1, <2>2, <2>3 DEF CallOK
    <2>5. SessionOK(t)'
      BY <1>7, <2>1, <2>2 DEF SessionOK, Stands
    <2>6. QED
      BY <2>4, <2>5
  <1>9. QED
    BY <1>2, <1>3, <1>5, <1>6, <1>8

\* While the background works it has something to do, and a session that
\* nothing was announced to since sees as much.
LEMMA LaidFrame ==
    ASSUME IInv, NEW t \in Threads, session'[t] = session[t],
           pc'[t] \in {"idle", "run", "forming"} => pc[t] \in {"idle", "run", "forming"},
           epoch' = epoch, Pending => Pending', found => found',
           Pattern(t) \in DOMAIN index /\ index[Pattern(t)] # Building =>
               Pattern(t) \in DOMAIN index' /\ index'[Pattern(t)] = index[Pattern(t)],
           Form(t) \in Submits /\ ~Pending' /\ session[t] \in Sessions =>
               \A v \in Kept : Lacks(Form(t), v) => Lacks(Form(t), v)'
    PROVE  LaidOK(t)'
  <1> DEFINE f == Form(t)
             p == Pattern(t)
  <1>1. SUFFICES ASSUME pc'[t] \in {"idle", "run", "forming"}, session[t] # None,
                        f \in Submits, ~Pending', session[t].seen = epoch
                 PROVE  /\ f \in Specializing => found'
                        /\ f \in Specializing \cap Wants => p \in DOMAIN index'
                        /\ session[t].tag = 0 =>
                              ~(/\ f \in Specializing \cap Wants /\ found'
                                /\ p \in DOMAIN index' /\ index'[p] \in 1..Limit[f] - 1
                                /\ ~(f \in Compiles /\ made'[f][index'[p]] = None))
    BY DEF LaidOK, Available, Lacks, Form, Pattern
  <1>2. session[t] \in Sessions
    BY <1>1 DEF IInv, TypeOK
  <1>3. queue = <<>> /\ todo[Worker] = <<>>
    BY <1>1 DEF Pending
  <1>4. p \in DOMAIN index => index[p] # Building
    BY <1>3 DEF IInv, BuildsOK, Builds
  <1>5. /\ f \in Specializing => found
        /\ f \in Specializing \cap Wants => p \in DOMAIN index
        /\ session[t].tag = 0 => ~Available(f, p)
    BY <1>1, <1>3 DEF IInv, LaidOK, Pending
  <1>6. \A v \in Kept : f \in Compiles /\ made[f][v] = None => made'[f][v] = None
    BY <1>1, <1>2 DEF Lacks, Form
  <1>7. 1..Limit[f] - 1 \subseteq Kept
    <2>1. f \in Forms /\ Limit[f] \in Nat
      BY <1>1, FormsAssumption
    <2>2. 1..Limit[f] - 1 \subseteq 0..Limit[f] - 1
      BY <2>1
    <2>3. 0..Limit[f] - 1 \subseteq Kept
      BY <2>1 DEF Kept
    <2>4. QED
      BY <2>2, <2>3
  <1> HIDE DEF f, p
  <1>8. p \in DOMAIN index => p \in DOMAIN index' /\ index'[p] = index[p]
    BY <1>4 DEF p
  <1>9. ASSUME f \in Specializing \cap Wants, index'[p] \in 1..Limit[f] - 1,
               ~(f \in Compiles /\ made'[f][index'[p]] = None)
        PROVE  Available(f, p)
    <2>1. found /\ p \in DOMAIN index /\ index'[p] = index[p]
      BY <1>5, <1>8, <1>9
    <2>2. ~(f \in Compiles /\ made[f][index[p]] = None)
      BY <1>6, <1>7, <1>9, <2>1
    <2>3. QED
      BY <1>9, <2>1, <2>2 DEF Available, Lacks
  <1>10. QED
    BY <1>5, <1>8, <1>9

\* The step a job is at tells what job it is, and who may have it.
LEMMA StepsTell ==
    ASSUME IInv, NEW e \in Executors, NEW step, At(e, step)
    PROVE  /\ todo[e] # <<>> /\ Now(e) \in Jobs /\ Now(e).step = step
           /\ step = "find" => e = Worker /\ Now(e).kind = "find"
           /\ step = "announce" => e = Worker
           /\ step = "conds" => Now(e).kind = "conds"
           /\ step \in {"look", "compile"} => MakeOK(Now(e), Len(bodies))
           /\ step \in {"check", "keep", "file"} => BuildOK(Now(e)) /\ Builds(e)
           /\ e # Worker /\ step \in {"look", "compile"} =>
                  Now(e).form \notin Submits \/ Now(e).form \notin forms
  <1>1. todo[e] # <<>> /\ Now(e).step = step
    BY DEF At
  <1>2. Now(e) = todo[e][1] /\ 1 \in DOMAIN todo[e] /\ Now(e) \in Jobs
    BY <1>1, NowIsFirst DEF IInv
  <1>3. (e = Worker /\ step = "announce") \/ JobOK(Now(e), Len(bodies))
    BY <1>1, <1>2, JobsAreOK
  <1>4. e # Worker => e \in Threads /\ TodoOK(e) /\ FormingOK
    BY DEF IInv, Executors
  <1>5. e # Worker => Now(e).kind # "find"
    BY <1>2, <1>4 DEF TodoOK
  <1>6. e # Worker /\ Now(e).kind = "make" => Now(e).form \notin Submits \/ Now(e).form \notin forms
    <2>1. SUFFICES ASSUME e # Worker, Now(e).kind = "make"
                   PROVE  Now(e).form \notin Submits \/ Now(e).form \notin forms
      OBVIOUS
    <2>2. CASE pc[e] = "forming"
      <3>1. Now(e).form = call[e]
        BY <1>1, <1>2, <1>4, <2>1, <2>2 DEF TodoOK
      <3>2. call[e] \notin forms
        BY <1>4, <2>1, <2>2 DEF FormingOK
      <3>3. QED
        BY <3>1, <3>2
    <2>3. CASE pc[e] # "forming"
      BY <1>1, <1>4, <2>1, <2>3 DEF TodoOK
    <2>4. QED
      BY <2>2, <2>3
  <1>7. QED
    BY <1>1, <1>2, <1>3, <1>5, <1>6 DEF JobOK, BuildOK, MakeOK, Builds

\* The background still has its jobs, or the finding was never its business.
LEMMA FindingFrame ==
    ASSUME FindingOK, found => found', finding' = finding,
           todo[Worker] # <<>> /\ Now(Worker).step = "find" =>
               todo'[Worker] # <<>> /\ Now(Worker)'.step = "find",
           \A i \in DOMAIN queue : i \in DOMAIN queue' /\ queue'[i] = queue[i]
    PROVE  FindingOK'
  <1>1. \A i \in DOMAIN queue : queue[i].step = "find" => queue'[i].step = "find"
    OBVIOUS
  <1>2. finding' /\ ~found' => finding /\ ~found
    OBVIOUS
  <1>3. QED
    BY <1>1, <1>2 DEF FindingOK

------------------------------------------------------------------------------
(* One lemma per action                                                     *)

\* The selects are found by the background, which has yet to tell.
LEMMA FindSelectsOK ==
    ASSUME IInv, NEW e \in Executors, FindSelects(e)
    PROVE  IInv'
  <1>1. e = Worker /\ todo[e] # <<>> /\ Now(e).kind = "find"
    BY StepsTell DEF FindSelects
  <1>2. /\ Ends(e) /\ found'
        /\ UNCHANGED <<forms, finding, bodies, index, indexLock, epoch, cached, made, making,
                       condsMaking, queue, pc, call, session, calls, out>>
    BY DEF FindSelects
  <1>3. TypeOK /\ Len(bodies) \in Nat /\ epoch \in Nat
    BY Basics DEF TypeOK
  <1>4. WorkedOn(e)
    BY <1>1, <1>2, <1>3, EndsOK
  <1>5. todo'[Worker] # <<>>
    BY <1>1, <1>2, <1>3, EndsMoves
  <1>6. TypeOK'
    BY <1>2, <1>3, <1>4 DEF TypeOK, WorkedOn, Sessions
  <1>7. /\ QueueOK' /\ WorkerOK' /\ BuildsOK' /\ BodiesOK' /\ SlotsOK' /\ FormingOK'
        /\ \A t \in Threads : TodoOK(t)' /\ CallOK(t)' /\ SessionOK(t)'
    BY <1>1, <1>2, <1>3, <1>4, WorkFrame
  <1>8. FindingOK'
    BY <1>2 DEF FindingOK
  <1>9. CodeOK'
    BY <1>2 DEF IInv, CodeOK
  <1>10. ASSUME NEW t \in Threads
         PROVE  LaidOK(t)'
    BY <1>2, <1>5, LaidFrame DEF Pending
  <1>11. QED
    BY <1>6, <1>7, <1>8, <1>9, <1>10 DEF IInv

\* The conditions' tape is compiled: nothing but the job itself changes.
LEMMA CondsOK ==
    ASSUME IInv, NEW e \in Executors, Conds(e)
    PROVE  IInv'
  <1>1. todo[e] # <<>> /\ Now(e).kind = "conds" /\ Now(e).step = "conds"
    BY StepsTell DEF Conds
  <1>2. /\ Ends(e)
        /\ UNCHANGED <<forms, found, finding, bodies, index, indexLock, epoch, cached, made,
                       making, condsMaking, queue, pc, call, session, calls, out>>
    BY DEF Conds, shared
  <1>3. TypeOK /\ Len(bodies) \in Nat /\ epoch \in Nat /\ Worker \in Executors
    BY Basics DEF TypeOK
  <1>4. WorkedOn(e)
    BY <1>1, <1>2, <1>3, EndsOK
  <1>5. /\ e = Worker => todo'[Worker] # <<>>
        /\ e # Worker => todo'[Worker] = todo[Worker] /\ Now(Worker)' = Now(Worker)
    BY <1>1, <1>2, <1>3, EndsMoves DEF Now
  <1>6. TypeOK'
    BY <1>2, <1>3, <1>4 DEF TypeOK, WorkedOn, Sessions
  <1>7. /\ QueueOK' /\ WorkerOK' /\ BuildsOK' /\ BodiesOK' /\ SlotsOK' /\ FormingOK'
        /\ \A t \in Threads : TodoOK(t)' /\ CallOK(t)' /\ SessionOK(t)'
    BY <1>1, <1>2, <1>3, <1>4, WorkFrame
  <1>8. FindingOK'
    BY <1>1, <1>2, <1>5, FindingFrame DEF IInv
  <1>9. CodeOK'
    BY <1>2 DEF IInv, CodeOK
  <1>10. ASSUME NEW t \in Threads
         PROVE  LaidOK(t)'
    BY <1>2, <1>5, LaidFrame DEF Pending, Lacks, Form
  <1>11. QED
    BY <1>6, <1>7, <1>8, <1>9, <1>10 DEF IInv

\* The epoch moves past every session there is, and the background is free.
LEMMA AnnounceOK ==
    ASSUME IInv, NEW e \in Executors, Announce(e)
    PROVE  IInv'
  <1>1. e = Worker /\ todo[e] # <<>> /\ Now(e).step = "announce"
    BY StepsTell DEF Announce
  <1>2. /\ epoch' = epoch + 1 /\ todo' = [todo EXCEPT ![e] = <<>>]
        /\ UNCHANGED <<forms, found, finding, bodies, index, indexLock, cached, made,
                       making, condsMaking, queue, pc, call, session, calls, out>>
    BY DEF Announce
  <1>3. /\ TypeOK /\ Len(bodies) \in Nat /\ epoch \in Nat /\ todo \in [Executors -> Seq(Jobs)]
        /\ \A t \in Threads : t \in Executors /\ t # Worker
    BY Basics DEF TypeOK
  <1>4. todo' \in [Executors -> Seq(Jobs)] /\ todo'[e] = <<>>
        /\ \A d \in Executors : d # e => todo'[d] = todo[d] /\ Now(d)' = Now(d)
    BY <1>2, <1>3 DEF Now
  <1>5. TypeOK'
    <2>1. Sessions \subseteq Sessions'
      <3>1. 0..epoch \subseteq 0..epoch'
        BY <1>2, <1>3
      <3>2. QED
        BY <1>2, <3>1 DEF Sessions
    <2>2. QED
      BY <1>2, <1>3, <1>4, <2>1 DEF TypeOK
  <1>6. /\ \A d \in Executors : /\ Builds(d)' <=> Builds(d)
                                /\ Builds(d) => Now(d)' = Now(d)
    BY <1>1, <1>4 DEF Builds
  <1>7. BuildsOK' /\ BodiesOK' /\ SlotsOK'
    <2>1. BuildsOK /\ BodiesOK /\ SlotsOK
      BY DEF IInv
    <2>2. QED
      BY <1>2, <1>6, <2>1, BuildsFrame
  <1>8. QueueOK' /\ WorkerOK' /\ FormingOK' /\ CodeOK'
    BY <1>1, <1>2, <1>4 DEF IInv, QueueOK, WorkerOK, FormingOK, CodeOK
  <1>9. FindingOK'
    BY <1>1, <1>2, FindingFrame DEF IInv
  <1>10. ASSUME NEW t \in Threads
         PROVE  TodoOK(t)' /\ CallOK(t)' /\ SessionOK(t)' /\ LaidOK(t)'
    <2>1. TodoOK(t) /\ CallOK(t) /\ SessionOK(t)
      BY DEF IInv
    <2>2. Form(t)' = Form(t) /\ Pattern(t)' = Pattern(t) /\ todo'[t] = todo[t] /\ Now(t)' = Now(t)
      BY <1>1, <1>2, <1>3, <1>4 DEF Form, Pattern
    <2>3. Sessions \subseteq Sessions'
      <3>1. 0..epoch \subseteq 0..epoch'
        BY <1>2, <1>3
      <3>2. QED
        BY <1>2, <3>1 DEF Sessions
    <2>4. TodoOK(t)'
      BY <1>2, <2>1, <2>2 DEF TodoOK
    <2>5. CallOK(t)' /\ SessionOK(t)'
      BY <1>2, <2>1, <2>2, <2>3 DEF CallOK, SessionOK, Stands
    <2>6. session[t] # None => session[t].seen # epoch'
      <3>1. session[t] # None => session[t].seen \in 0..epoch
        BY <1>3 DEF TypeOK, Sessions
      <3>2. QED
        BY <1>2, <1>3, <3>1
    <2>7. LaidOK(t)'
      BY <1>2, <2>6 DEF LaidOK
    <2>8. QED
      BY <2>4, <2>5, <2>7
  <1>11. QED
    BY <1>5, <1>7, <1>8, <1>9, <1>10 DEF IInv

\* What is made is made for forms nobody waits on elsewhere: a thread makes
\* code only of forms that are nobody's yet or whose work stays with callers.
LEMMA MakesOwn ==
    ASSUME IInv, NEW e \in Executors, NEW t \in Threads, NEW step \in {"look", "compile"},
           At(e, step), session[t] \in Sessions, Form(t) \in Submits, todo[Worker] = <<>>
    PROVE  Now(e).form # Form(t)
  <1>1. e # Worker
    BY StepsTell
  <1>2. Now(e).form \notin Submits \/ Now(e).form \notin forms
    BY <1>1, StepsTell
  <1>3. Form(t) \in forms
    BY DEF Form, Sessions
  <1>4. QED
    BY <1>2, <1>3

\* Code another form compiled under the key is taken, or the job goes on.
LEMMA LookOK ==
    ASSUME IInv, NEW e \in Executors, Look(e)
    PROVE  IInv'
  <1> DEFINE f == Now(e).form
             v == Now(e).v
  <1>1. todo[e] # <<>> /\ MakeOK(Now(e), Len(bodies)) /\ Now(e) \in Jobs /\ At(e, "look")
        /\ Now(e).step = "look"
    BY StepsTell DEF Look
  <1>2. /\ \/ /\ cached[v][Key[f]] # None
              /\ made' = [made EXCEPT ![f][v] = cached[v][Key[f]]] /\ Ends(e)
           \/ Goes(e, "compile") /\ UNCHANGED made
        /\ UNCHANGED <<forms, found, finding, bodies, index, indexLock, epoch, cached,
                       making, condsMaking, queue, pc, call, session, calls, out>>
    BY DEF Look, MadeBe, shared
  <1>3. TypeOK /\ Len(bodies) \in Nat /\ epoch \in Nat /\ Worker \in Executors
    BY Basics DEF TypeOK
  <1>4. f \in Forms /\ v \in Kept /\ Now(e).kind = "make"
    <2>1. f \in Forms /\ v \in Nat /\ v < Limit[f] /\ Limit[f] \in Nat
      BY <1>1, FormsAssumption DEF MakeOK, Jobs
    <2>2. v \in 0..Limit[f] - 1
      BY <2>1
    <2>3. QED
      BY <1>1, <2>1, <2>2 DEF Kept, MakeOK
  <1> HIDE DEF f, v
  <1>5. WorkedOn(e)
    <2>1. CASE Ends(e)
      BY <1>1, <1>2, <1>3, <2>1, EndsOK
    <2>2. CASE Goes(e, "compile")
      <3>1. Renamed(Now(e), Now(e)', "compile")
        BY <1>1, <1>3, <2>2, GoesMoves
      <3>2. JobOK(Now(e)', Len(bodies'))
        BY <1>1, <1>2, <3>1 DEF Renamed, JobOK, MakeOK
      <3>3. QED
        BY <1>1, <1>2, <1>3, <2>2, <3>2, GoesOK
    <2>3. QED
      BY <1>2, <2>1, <2>2
  <1>6. /\ e = Worker => todo'[Worker] # <<>>
        /\ e # Worker => todo'[Worker] = todo[Worker] /\ Now(Worker)' = Now(Worker)
    BY <1>1, <1>2, <1>3, EndsMoves, GoesMoves DEF Now
  <1>7. made' \in [Forms -> [Kept -> Compiles \cup {None}]]
    <2>1. Key[f] \in Keys /\ cached[v][Key[f]] \in Compiles \cup {None}
      BY <1>3, <1>4, FormsAssumption DEF TypeOK
    <2>2. made \in [Forms -> [Kept -> Compiles \cup {None}]]
      BY <1>3 DEF TypeOK
    <2>3. QED
      BY <1>2, <1>4, <2>1, <2>2
  <1>8. TypeOK'
    BY <1>2, <1>3, <1>5, <1>7 DEF TypeOK, WorkedOn, Sessions
  <1>9. /\ QueueOK' /\ WorkerOK' /\ BuildsOK' /\ BodiesOK' /\ SlotsOK' /\ FormingOK'
        /\ \A t \in Threads : TodoOK(t)' /\ CallOK(t)' /\ SessionOK(t)'
    BY <1>1, <1>2, <1>3, <1>4, <1>5, WorkFrame
  <1>10. FindingOK'
    BY <1>1, <1>2, <1>6, FindingFrame DEF IInv
  <1>11. CodeOK'
    <2>1. ASSUME NEW g \in Forms, NEW w \in Kept, made'[g][w] # None
          PROVE  made'[g][w] = cached[w][Key[g]]
      <3>1. made \in [Forms -> [Kept -> Compiles \cup {None}]]
        BY <1>3 DEF TypeOK
      <3>2. made'[g][w] = IF UNCHANGED made THEN made[g][w]
                          ELSE IF g = f /\ w = v THEN cached[v][Key[f]] ELSE made[g][w]
        BY <1>2, <3>1
      <3>3. made[g][w] # None => made[g][w] = cached[w][Key[g]]
        BY DEF IInv, CodeOK
      <3>4. QED
        BY <2>1, <3>2, <3>3
    <2>2. QED
      BY <1>2, <2>1 DEF CodeOK
  <1>12. ASSUME NEW t \in Threads
         PROVE  LaidOK(t)'
    <2>1. ASSUME Form(t) \in Submits, ~Pending', session[t] \in Sessions,
                 NEW w \in Kept, Lacks(Form(t), w)
          PROVE  Lacks(Form(t), w)'
      <3>1. todo[Worker] = <<>>
        BY <1>1, <1>6, <2>1 DEF Pending
      <3>2. f # Form(t)
        BY <1>1, <2>1, <3>1, MakesOwn DEF f
      <3>3. Form(t) \in Forms
        BY <2>1, FormsAssumption
      <3>4. made'[Form(t)] = made[Form(t)]
        BY <1>2, <1>3, <1>4, <3>2, <3>3 DEF TypeOK
      <3>5. QED
        BY <1>2, <2>1, <3>4 DEF Lacks, Form
    <2>2. QED
      BY <1>2, <1>6, <2>1, LaidFrame DEF Pending
  <1>13. QED
    BY <1>8, <1>9, <1>10, <1>11, <1>12 DEF IInv

\* A form's code is what the cache had first, or its own, put there first.
LEMMA CompileOK ==
    ASSUME IInv, NEW e \in Executors, Compile(e)
    PROVE  IInv'
  <1> DEFINE f == Now(e).form
             v == Now(e).v
             k == Key[f]
             form == IF cached[v][k] # None THEN cached[v][k] ELSE f
  <1>1. todo[e] # <<>> /\ MakeOK(Now(e), Len(bodies)) /\ Now(e) \in Jobs /\ At(e, "compile")
        /\ Now(e).step = "compile"
    BY StepsTell DEF Compile
  <1>2. /\ \/ /\ cached' = [cached EXCEPT ![v][k] = form]
              /\ made' = [made EXCEPT ![f][v] = form]
           \/ UNCHANGED <<cached, made>>
        /\ Ends(e)
        /\ UNCHANGED <<forms, found, finding, bodies, index, indexLock, epoch, making,
                       condsMaking, queue, pc, call, session, calls, out>>
    BY DEF Compile, MadeBe
  <1>3. TypeOK /\ Len(bodies) \in Nat /\ epoch \in Nat /\ Worker \in Executors
    BY Basics DEF TypeOK
  <1>4. f \in Forms /\ f \in Compiles /\ v \in Kept /\ Now(e).kind = "make"
    <2>1. f \in Forms /\ v \in Nat /\ v < Limit[f] /\ Limit[f] \in Nat
      BY <1>1, FormsAssumption DEF MakeOK, Jobs
    <2>2. v \in 0..Limit[f] - 1
      BY <2>1
    <2>3. QED
      BY <1>1, <2>1, <2>2 DEF Kept, MakeOK
  <1>5. k \in Keys /\ form \in Compiles
    BY <1>3, <1>4, FormsAssumption DEF TypeOK
  <1>6. cached[v][k] # None => form = cached[v][k]
    OBVIOUS
  <1> HIDE DEF form
  <1>7. \A g \in Forms : Key[g] = k /\ made[g][v] # None => made[g][v] = form
    <2>1. ASSUME NEW g \in Forms, Key[g] = k, made[g][v] # None
          PROVE  made[g][v] = form
      <3>1. made[g][v] = cached[v][k]
        BY <1>4, <2>1 DEF IInv, CodeOK
      <3>2. QED
        BY <1>6, <2>1, <3>1
    <2>2. QED
      BY <2>1
  <1> HIDE DEF f, v, k
  <1>8. WorkedOn(e)
    BY <1>1, <1>2, <1>3, EndsOK
  <1>9. /\ e = Worker => todo'[Worker] # <<>>
        /\ e # Worker => todo'[Worker] = todo[Worker] /\ Now(Worker)' = Now(Worker)
    BY <1>1, <1>2, <1>3, EndsMoves DEF Now
  <1>10. /\ cached \in [Kept -> [Keys -> Compiles \cup {None}]]
         /\ made \in [Forms -> [Kept -> Compiles \cup {None}]]
    BY <1>3 DEF TypeOK
  <1>11. /\ cached' \in [Kept -> [Keys -> Compiles \cup {None}]]
         /\ made' \in [Forms -> [Kept -> Compiles \cup {None}]]
    <2>1. cached[v] \in [Keys -> Compiles \cup {None}] /\ made[f] \in [Kept -> Compiles \cup {None}]
      BY <1>4, <1>10
    <2>2. /\ [cached[v] EXCEPT ![k] = form] \in [Keys -> Compiles \cup {None}]
          /\ [made[f] EXCEPT ![v] = form] \in [Kept -> Compiles \cup {None}]
      BY <1>5, <2>1
    <2>3. cached' \in [Kept -> [Keys -> Compiles \cup {None}]]
      BY <1>2, <1>4, <1>10, <2>2
    <2>4. made' \in [Forms -> [Kept -> Compiles \cup {None}]]
      BY <1>2, <1>4, <1>10, <2>2
    <2>5. QED
      BY <2>3, <2>4
  <1>12. TypeOK'
    BY <1>2, <1>3, <1>8, <1>11 DEF TypeOK, WorkedOn, Sessions
  <1>13. /\ QueueOK' /\ WorkerOK' /\ BuildsOK' /\ BodiesOK' /\ SlotsOK' /\ FormingOK'
         /\ \A t \in Threads : TodoOK(t)' /\ CallOK(t)' /\ SessionOK(t)'
    BY <1>1, <1>2, <1>3, <1>4, <1>8, WorkFrame
  <1>14. FindingOK'
    BY <1>1, <1>2, <1>9, FindingFrame DEF IInv
  <1>15. CodeOK'
    <2>1. CASE UNCHANGED <<cached, made>>
      BY <2>1 DEF IInv, CodeOK
    <2>2. CASE /\ cached' = [cached EXCEPT ![v][k] = form]
               /\ made' = [made EXCEPT ![f][v] = form]
      <3>1. ASSUME NEW g \in Forms, NEW w \in Kept, made'[g][w] # None
            PROVE  made'[g][w] = cached'[w][Key[g]]
        <4>1. Key[g] \in Keys
          BY <3>1, FormsAssumption
        <4>2. cached'[w][Key[g]] = IF w = v /\ Key[g] = k THEN form ELSE cached[w][Key[g]]
          BY <1>10, <2>2, <4>1
        <4>3. made'[g][w] = IF g = f /\ w = v THEN form ELSE made[g][w]
          BY <1>10, <2>2
        <4>4. k = Key[f]
          BY DEF k
        <4>5. made[g][w] # None => made[g][w] = cached[w][Key[g]]
          BY DEF IInv, CodeOK
        <4>6. QED
          BY <1>7, <3>1, <4>2, <4>3, <4>4, <4>5
      <3>2. QED
        BY <3>1 DEF CodeOK
    <2>3. QED
      BY <1>2, <2>1, <2>2
  <1>16. ASSUME NEW t \in Threads
         PROVE  LaidOK(t)'
    <2>1. ASSUME Form(t) \in Submits, ~Pending', session[t] \in Sessions,
                 NEW w \in Kept, Lacks(Form(t), w)
          PROVE  Lacks(Form(t), w)'
      <3>1. todo[Worker] = <<>>
        BY <1>1, <1>9, <2>1 DEF Pending
      <3>2. f # Form(t)
        BY <1>1, <2>1, <3>1, MakesOwn DEF f
      <3>3. Form(t) \in Forms
        BY <2>1, FormsAssumption
      <3>4. made'[Form(t)] = made[Form(t)]
        BY <1>2, <1>4, <1>10, <3>2, <3>3
      <3>5. QED
        BY <1>2, <2>1, <3>4 DEF Lacks, Form
    <2>2. QED
      BY <1>2, <1>9, <2>1, LaidFrame DEF Pending
  <1>17. QED
    BY <1>12, <1>13, <1>14, <1>15, <1>16 DEF IInv

\* A call the step leaves alone stays in order as bodies are added and slots
\* get their numbers.
LEMMA CallFrame ==
    ASSUME IInv, NEW t \in Threads, bodies' \in Seq(Patterns \cup {Full}),
           pc'[t] = pc[t], call'[t] = call[t], session'[t] = session[t], out'[t] = out[t],
           found => found', Sessions \subseteq Sessions',
           Len(bodies) <= Len(bodies'), \A n \in 1..Len(bodies) : bodies'[n] = bodies[n],
           pc[t] \in {"variant", "run"} => todo'[t] = <<>>,
           pc[t] = "choose" /\ todo'[t] = <<>> => todo[t] = <<>>,
           Pattern(t) \in DOMAIN index /\ index[Pattern(t)] # Building =>
               Pattern(t) \in DOMAIN index' /\ index'[Pattern(t)] = index[Pattern(t)]
    PROVE  CallOK(t)' /\ SessionOK(t)'
  <1>1. CallOK(t) /\ SessionOK(t) /\ TypeOK /\ Len(bodies) \in Nat /\ Len(bodies') \in Nat
    BY Basics DEF IInv
  <1>2. Form(t)' = Form(t) /\ Pattern(t)' = Pattern(t)
    BY DEF Form, Pattern
  <1>3. session[t] # None => session[t].tag \in Nat
    BY <1>1 DEF TypeOK, Sessions
  <1>4. CallOK(t)'
    BY <1>1, <1>2 DEF CallOK
  <1>5. session[t] # None => Stands(session[t].tag, Pattern(t))'
    <2>1. SUFFICES ASSUME session[t] # None PROVE Stands(session[t].tag, Pattern(t))'
      OBVIOUS
    <2>2. /\ session[t].tag \in Nat /\ session[t].tag < Len(bodies)
          /\ session[t].tag > 0 => bodies[session[t].tag + 1] = Pattern(t)
      BY <1>1, <1>3, <2>1 DEF SessionOK, Stands
    <2>3. session[t].tag + 1 \in 1..Len(bodies) /\ session[t].tag < Len(bodies')
      BY <1>1, <2>2
    <2>4. bodies'[session[t].tag + 1] = bodies[session[t].tag + 1]
      BY <2>3
    <2>5. session'[t].tag = session[t].tag
      OBVIOUS
    <2>6. QED
      BY <1>2, <2>2, <2>3, <2>4, <2>5 DEF Stands
  <1>6. SessionOK(t)'
    BY <1>1, <1>2, <1>5 DEF SessionOK
  <1>7. QED
    BY <1>4, <1>6

\* A thread the step leaves alone keeps its jobs.
LEMMA TodoFrame ==
    ASSUME IInv, NEW t \in Threads, todo'[t] = todo[t],
           pc'[t] = pc[t], call'[t] = call[t], session'[t] = session[t],
           Len(bodies') \in Nat, Len(bodies) <= Len(bodies')
    PROVE  TodoOK(t)'
  <1>1. TodoOK(t) /\ t \in Executors /\ Len(bodies) \in Nat
    BY Basics DEF IInv
  <1>2. Pattern(t)' = Pattern(t) /\ Now(t)' = Now(t)
    BY DEF Pattern, Now
  <1>3. \A i \in DOMAIN todo[t] : todo[t][i] \in Jobs
    BY <1>1, JobsAreOK
  <1>4. \A i \in DOMAIN todo[t] : JobOK(todo[t][i], Len(bodies'))
    BY <1>1, <1>3, JobStays DEF TodoOK
  <1>5. QED
    BY <1>1, <1>2, <1>4 DEF TodoOK

\* What waits and what the background does keep as bodies are added.
LEMMA BackgroundFrame ==
    ASSUME IInv, Len(bodies') \in Nat, Len(bodies) <= Len(bodies')
    PROVE  /\ queue' = queue => QueueOK'
           /\ todo'[Worker] = todo[Worker] => WorkerOK'
  <1>1. Worker \in Executors /\ Len(bodies) \in Nat /\ queue \in Seq(Jobs) /\ TypeOK
    BY Basics DEF TypeOK
  <1>2. ASSUME queue' = queue
        PROVE  QueueOK'
    <2>1. \A i \in DOMAIN queue : queue[i] \in Jobs /\ JobOK(queue[i], Len(bodies))
      BY <1>1 DEF IInv, QueueOK
    <2>2. \A i \in DOMAIN queue : JobOK(queue[i], Len(bodies'))
      BY <1>1, <2>1, JobStays
    <2>3. QED
      BY <1>2, <2>2 DEF IInv, QueueOK
  <1>3. ASSUME todo'[Worker] = todo[Worker]
        PROVE  WorkerOK'
    <2>1. todo[Worker] # <<>> => Now(Worker) \in Jobs
      BY <1>1, NowIsFirst
    <2>2. todo[Worker] # <<>> /\ Now(Worker).step # "announce" => JobOK(Now(Worker), Len(bodies'))
      BY <1>1, <2>1, JobStays DEF IInv, WorkerOK
    <2>3. Now(Worker)' = Now(Worker)
      BY <1>3 DEF Now
    <2>4. QED
      BY <1>3, <2>2, <2>3 DEF IInv, WorkerOK
  <1>4. QED
    BY <1>2, <1>3

\* A build that goes on with its pattern leaves locks and marks as they are.
LEMMA BuildsGoOn ==
    ASSUME BuildsOK, UNCHANGED <<index, indexLock, queue>>,
           \A e \in Executors : /\ Builds(e)' <=> Builds(e)
                                /\ Builds(e) => Now(e)'.pattern = Now(e).pattern
    PROVE  BuildsOK'
  <1>1. Worker \in Executors /\ Threads \subseteq Executors
    BY DEF Executors
  <1>2. QED
    BY <1>1 DEF BuildsOK, Asked

\* A build whose body has no room or shortens nothing is filed with the full one.
LEMMA CheckRoomOK ==
    ASSUME IInv, NEW e \in Executors, CheckRoom(e)
    PROVE  IInv'
  <1>1. todo[e] # <<>> /\ BuildOK(Now(e)) /\ Builds(e) /\ Now(e) \in Jobs /\ Now(e).step = "check"
    BY StepsTell DEF CheckRoom
  <1>2. PICK step \in {"file", "keep"} : Goes(e, step)
    BY DEF CheckRoom
  <1>3. UNCHANGED <<forms, found, finding, bodies, index, indexLock, epoch, cached, made, making,
                    condsMaking, queue, pc, call, session, calls, out>>
    BY DEF CheckRoom, shared
  <1>4. /\ TypeOK /\ Len(bodies) \in Nat \ {0} /\ epoch \in Nat /\ Worker \in Executors
        /\ \A t \in Threads : t \in Executors
    BY Basics DEF TypeOK
  <1>5. /\ Renamed(Now(e), Now(e)', step) /\ todo'[e] # <<>>
        /\ \A d \in Executors : d # e => todo'[d] = todo[d] /\ Now(d)' = Now(d)
    BY <1>1, <1>2, <1>4, GoesMoves DEF Now
  <1>6. /\ Builds(e)' /\ Now(e)'.pattern = Now(e).pattern /\ Now(e)'.v = 0
        /\ BuildOK(Now(e)')
    BY <1>1, <1>5 DEF Builds, BuildOK, Renamed
  <1>7. WorkedOn(e)
    BY <1>1, <1>2, <1>3, <1>4, <1>6, GoesOK DEF JobOK
  <1>8. \A d \in Executors : /\ Builds(d)' <=> Builds(d)
                             /\ Builds(d) => Now(d)'.pattern = Now(d).pattern
    BY <1>1, <1>5, <1>6 DEF Builds
  <1>9. BuildsOK'
    BY <1>3, <1>8, BuildsGoOn DEF IInv
  <1>10. BodiesOK'
    <2>1. ASSUME NEW d \in Executors, NEW p, NEW v, Files(d, p, v)
          PROVE  Files(d, p, v)'
      <3>1. d # e
        BY <1>1, <2>1 DEF Files
      <3>2. QED
        BY <1>5, <2>1, <3>1 DEF Files, Builds
    <2>2. QED
      BY <1>3, <2>1 DEF IInv, BodiesOK
  <1>11. SlotsOK'
    <2>1. \A v, p : Stands(v, p)' <=> Stands(v, p)
      BY <1>3 DEF Stands
    <2>2. Stands(Now(e)'.v, Now(e)'.pattern)
      BY <1>4, <1>6 DEF Stands
    <2>3. \A d \in Executors : d # e => (Builds(d)' <=> Builds(d)) /\ Now(d)' = Now(d)
      BY <1>5, <1>8
    <2>4. QED
      BY <1>3, <2>1, <2>2, <2>3 DEF IInv, SlotsOK
  <1>12. TypeOK'
    BY <1>3, <1>4, <1>7 DEF TypeOK, WorkedOn, Sessions
  <1>13. WorkerOK' /\ \A t \in Threads : TodoOK(t)'
    BY <1>1, <1>3, <1>4, <1>7, WorkedShapes
  <1>14. QueueOK' /\ FormingOK' /\ CodeOK'
    BY <1>3 DEF IInv, QueueOK, FormingOK, CodeOK
  <1>15. FindingOK'
    <2>1. todo[Worker] # <<>> /\ Now(Worker).step = "find" => Worker # e
      BY <1>1
    <2>2. QED
      BY <1>3, <1>4, <1>5, <2>1, FindingFrame DEF IInv
  <1>16. ASSUME NEW t \in Threads
         PROVE  CallOK(t)' /\ SessionOK(t)'
    <2>1. Sessions' = Sessions /\ bodies' \in Seq(Patterns \cup {Full})
      BY <1>3, <1>4 DEF Sessions, TypeOK
    <2>2. pc[t] \in {"variant", "run"} => todo'[t] = <<>>
      <3>1. pc[t] \in {"variant", "run"} => t # e
        BY <1>1 DEF IInv, CallOK
      <3>2. QED
        BY <1>4, <1>5, <3>1 DEF IInv, CallOK
    <2>3. todo'[t] = <<>> => todo[t] = <<>>
      BY <1>4, <1>5
    <2>4. QED
      BY <1>3, <1>4, <2>1, <2>2, <2>3, CallFrame
  <1>17. ASSUME NEW t \in Threads
         PROVE  LaidOK(t)'
    <2>1. Pending => Pending'
      BY <1>3, <1>4, <1>5 DEF Pending
    <2>2. QED
      BY <1>3, <2>1, LaidFrame DEF Lacks, Form
  <1>18. QED
    BY <1>9, <1>10, <1>11, <1>12, <1>13, <1>14, <1>15, <1>16, <1>17 DEF IInv

\* Keep's job learns its index and goes on to enter it.
LEMMA KeepMoves ==
    ASSUME TypeOK, NEW e \in Executors, todo[e] # <<>>, NEW n \in Nat,
           todo' = [todo EXCEPT ![e][1] = [@ EXCEPT !.step = "file", !.v = n]]
    PROVE  /\ todo' \in [Executors -> Seq(Jobs)]
           /\ \A d \in Executors : d # e => todo'[d] = todo[d] /\ Now(d)' = Now(d)
           /\ Len(todo'[e]) = Len(todo[e]) /\ todo'[e] # <<>>
           /\ DOMAIN todo'[e] = DOMAIN todo[e]
           /\ todo'[e][1] = Now(e)'
           /\ Now(e)'.kind = Now(e).kind /\ Now(e)'.form = Now(e).form
           /\ Now(e)'.pattern = Now(e).pattern /\ Now(e)'.step = "file" /\ Now(e)'.v = n
           /\ \A i \in DOMAIN todo[e] : i # 1 => todo'[e][i] = todo[e][i]
  <1> DEFINE j == [todo[e][1] EXCEPT !.step = "file", !.v = n]
             s == [todo[e] EXCEPT ![1] = j]
  <1>1. todo \in [Executors -> Seq(Jobs)] /\ todo[e] \in Seq(Jobs)
    BY DEF TypeOK
  <1>2. Now(e) = todo[e][1] /\ Now(e) \in Jobs /\ Len(todo[e]) \in Nat \ {0} /\ 1 \in DOMAIN todo[e]
    BY NowIsFirst
  <1>3. j \in Jobs /\ j.kind = Now(e).kind /\ j.form = Now(e).form
        /\ j.pattern = Now(e).pattern /\ j.step = "file" /\ j.v = n
    BY <1>2 DEF Jobs
  <1>4. todo' = [todo EXCEPT ![e] = s]
    BY <1>1
  <1> HIDE DEF j
  <1>5. 1 \in 1..Len(todo[e])
    BY <1>2
  <1>6. /\ s \in Seq(Jobs) /\ Len(s) = Len(todo[e])
        /\ \A i \in 1..Len(todo[e]) : s[i] = IF i = 1 THEN j ELSE todo[e][i]
    BY <1>1, <1>3, <1>5
  <1> HIDE DEF s
  <1>7. DOMAIN s = DOMAIN todo[e] /\ DOMAIN todo[e] = 1..Len(todo[e]) /\ s # <<>> /\ s[1] = j
    BY <1>1, <1>2, <1>5, <1>6
  <1>8. todo'[e] = s /\ \A d \in Executors : d # e => todo'[d] = todo[d]
    BY <1>1, <1>4
  <1>9. todo' \in [Executors -> Seq(Jobs)]
    BY <1>1, <1>4, <1>6
  <1>10. Now(e)' = j
    <2>1. Now(e)' = Head(s)
      BY <1>8 DEF Now
    <2>2. s \in Seq(Jobs) /\ s # <<>>
      BY <1>6, <1>7
    <2>3. Head(s) = s[1]
      BY <2>2
    <2>4. QED
      BY <1>7, <2>1, <2>3
  <1>11. QED
    BY <1>3, <1>6, <1>7, <1>8, <1>9, <1>10 DEF Now

\* A variant is kept at the end of the bodies, by the one job of its pattern,
\* which alone knows its number so far.
LEMMA KeepOK ==
    ASSUME IInv, NEW e \in Executors, Keep(e)
    PROVE  IInv'
  <1>1. todo[e] # <<>> /\ BuildOK(Now(e)) /\ Builds(e) /\ Now(e) \in Jobs /\ Now(e).step = "keep"
    BY StepsTell DEF Keep
  <1> DEFINE n == Len(bodies)
             p == Now(e).pattern
  <1>2. /\ bodies' = Append(bodies, p)
        /\ todo' = [todo EXCEPT ![e][1] = [@ EXCEPT !.step = "file", !.v = n]]
        /\ UNCHANGED <<forms, found, finding, index, indexLock, epoch, cached, made, making,
                       condsMaking, queue, pc, call, session, calls, out>>
    BY DEF Keep
  <1>3. /\ TypeOK /\ n \in Nat \ {0} /\ epoch \in Nat /\ Worker \in Executors
        /\ bodies \in Seq(Patterns \cup {Full}) /\ p \in Patterns
        /\ \A t \in Threads : t \in Executors
    BY <1>1, Basics DEF TypeOK, BuildOK
  <1>4. /\ bodies' \in Seq(Patterns \cup {Full}) /\ Len(bodies') = n + 1
        /\ bodies'[n + 1] = p /\ \A m \in 1..n : bodies'[m] = bodies[m]
    BY <1>2, <1>3, AppendProperties
  <1> HIDE DEF n, p
  <1>5. /\ todo' \in [Executors -> Seq(Jobs)]
        /\ \A d \in Executors : d # e => todo'[d] = todo[d] /\ Now(d)' = Now(d)
        /\ Len(todo'[e]) = Len(todo[e]) /\ todo'[e] # <<>>
        /\ DOMAIN todo'[e] = DOMAIN todo[e]
        /\ todo'[e][1] = Now(e)'
        /\ Now(e)'.kind = Now(e).kind /\ Now(e)'.form = Now(e).form
        /\ Now(e)'.pattern = Now(e).pattern /\ Now(e)'.step = "file" /\ Now(e)'.v = n
        /\ \A i \in DOMAIN todo[e] : i # 1 => todo'[e][i] = todo[e][i]
    BY <1>1, <1>2, <1>3, KeepMoves
  <1>6. Builds(e)' /\ BuildOK(Now(e)')
    BY <1>1, <1>5 DEF Builds, BuildOK
  <1>7. WorkedOn(e)
    <2>1. ASSUME NEW i \in DOMAIN todo'[e]
          PROVE  \E k \in DOMAIN todo[e] :
            /\ todo'[e][i].kind = todo[e][k].kind /\ todo'[e][i].form = todo[e][k].form
            /\ todo'[e][i].pattern = todo[e][k].pattern
            /\ (e = Worker /\ todo'[e][i].step = "announce")
               \/ JobOK(todo'[e][i], Len(bodies'))
      <3>1. Now(e) = todo[e][1]
        BY <1>1, <1>3, NowIsFirst
      <3>2. CASE i = 1
        BY <1>5, <1>6, <3>1, <3>2 DEF JobOK
      <3>3. CASE i # 1
        <4>1. todo[e][i] \in Jobs /\ JobOK(todo[e][i], n)
          BY <1>5, <3>3, JobsAreOK DEF n
        <4>2. n \in Nat /\ n + 1 \in Nat /\ n <= n + 1
          BY <1>3
        <4>3. JobOK(todo[e][i], n + 1)
          BY <4>1, <4>2, JobStays
        <4>4. QED
          BY <1>4, <1>5, <3>3, <4>3
      <3>4. QED
        BY <3>2, <3>3
    <2>2. Len(todo[e]) \in Nat
      BY <1>1, <1>3, NowIsFirst
    <2>3. QED
      BY <1>5, <2>1, <2>2 DEF WorkedOn
  <1>8. \A d \in Executors : /\ Builds(d)' <=> Builds(d)
                             /\ Builds(d) => Now(d)'.pattern = Now(d).pattern
    BY <1>1, <1>5, <1>6 DEF Builds
  <1>9. BuildsOK'
    BY <1>2, <1>8, BuildsGoOn DEF IInv
  <1>10. \A v \in Nat : \A q : Stands(v, q) => Stands(v, q)'
    BY <1>3, <1>4 DEF Stands, n
  <1>11. BodiesOK'
    <2>1. ASSUME NEW d \in Executors, NEW q, NEW v, Files(d, q, v)
          PROVE  Files(d, q, v)'
      <3>1. d # e
        BY <1>1, <2>1 DEF Files
      <3>2. QED
        BY <1>5, <2>1, <3>1 DEF Files, Builds
    <2>2. Builds(e)' /\ Now(e)'.step = "file" /\ Now(e)'.pattern = p /\ Now(e)'.v = n
      BY <1>5, <1>6 DEF p
    <2>3. ASSUME NEW m \in 2..n
          PROVE  /\ bodies'[m] \in Patterns
                 /\ \/ bodies'[m] \in DOMAIN index' /\ index'[bodies'[m]] = m - 1
                    \/ \E d \in Executors : Files(d, bodies[m], m - 1)'
      <3>1. m \in 2..Len(bodies) /\ m \in 1..n
        BY <1>3 DEF n
      <3>2. bodies'[m] = bodies[m]
        BY <1>4, <3>1
      <3>3. QED
        BY <1>2, <2>1, <3>1, <3>2 DEF IInv, BodiesOK
    <2>4. \A m \in 2..n + 1 : m \in 2..n \/ m = n + 1
      BY <1>3
    <2>5. bodies'[1] = Full
      BY <1>3, <1>4 DEF IInv, BodiesOK
    <2>6. ASSUME NEW m \in 2..Len(bodies')
          PROVE  /\ bodies'[m] \in Patterns
                 /\ \/ bodies'[m] \in DOMAIN index' /\ index'[bodies'[m]] = m - 1
                    \/ \E d \in Executors : Files(d, bodies[m], m - 1)'
      <3>1. CASE m \in 2..n
        BY <2>3, <3>1
      <3>2. CASE m = n + 1
        <4>1. bodies'[m] = p /\ m - 1 = n
          BY <1>3, <1>4, <3>2
        <4>2. Files(e, bodies[m], m - 1)'
          BY <2>2, <4>1 DEF Files
        <4>3. QED
          BY <1>3, <4>1, <4>2
      <3>3. QED
        BY <1>4, <2>4, <3>1, <3>2
    <2>7. QED
      BY <1>3, <1>4, <2>5, <2>6 DEF BodiesOK
  <1>12. SlotsOK'
    <2>1. ASSUME NEW q \in DOMAIN index', index'[q] # Building
          PROVE  Stands(index[q], q)'
      <3>1. q \in DOMAIN index /\ index[q] # Building
        BY <1>2, <2>1
      <3>2. index[q] \in Nat /\ Stands(index[q], q)
        BY <1>3, <3>1 DEF IInv, TypeOK, SlotsOK
      <3>3. Stands(index[q], q)'
        BY <1>2, <1>10, <3>2
      <3>4. QED
        BY <3>3
    <2>2. ASSUME NEW d \in Executors, Builds(d)', Now(d)'.step = "file"
          PROVE  Stands(Now(d).v, Now(d).pattern)'
      <3>1. CASE d = e
        BY <1>3, <1>4, <1>5, <3>1 DEF Stands, p
      <3>2. CASE d # e
        <4>1. Now(d)' = Now(d) /\ Builds(d)
          BY <1>5, <1>8, <2>2, <3>2
        <4>2. Now(d) \in Jobs /\ Stands(Now(d).v, Now(d).pattern)
          BY <1>3, <2>2, <4>1, NowIsFirst DEF IInv, SlotsOK, Builds
        <4>3. Now(d).v \in Nat
          BY <4>2 DEF Jobs
        <4>4. QED
          BY <1>3, <1>4, <4>1, <4>2, <4>3 DEF Stands, n
      <3>3. QED
        BY <3>1, <3>2
    <2>3. QED
      BY <2>1, <2>2 DEF SlotsOK
  <1>13. TypeOK'
    <2>1. \A q \in DOMAIN index : index[q] \in {Building} \cup 0..Len(bodies') - 1
      BY <1>3, <1>4 DEF TypeOK, n
    <2>2. QED
      BY <1>2, <1>3, <1>4, <1>5, <2>1 DEF TypeOK, Sessions
  <1>14. Len(bodies') \in Nat /\ Len(bodies) <= Len(bodies')
    BY <1>3, <1>4 DEF n
  <1>15. WorkerOK' /\ QueueOK' /\ \A t \in Threads : TodoOK(t)'
    BY <1>1, <1>2, <1>7, <1>14, WorkedShapes, BackgroundFrame
  <1>16. FormingOK' /\ CodeOK'
    BY <1>2 DEF IInv, FormingOK, CodeOK
  <1>17. FindingOK'
    <2>1. todo[Worker] # <<>> /\ Now(Worker).step = "find" => Worker # e
      BY <1>1
    <2>2. QED
      BY <1>2, <1>3, <1>5, <2>1, FindingFrame DEF IInv
  <1>18. ASSUME NEW t \in Threads
         PROVE  CallOK(t)' /\ SessionOK(t)'
    <2>1. Sessions' = Sessions
      BY <1>2 DEF Sessions
    <2>2. pc[t] \in {"variant", "run"} => todo'[t] = <<>>
      <3>1. pc[t] \in {"variant", "run"} => t # e
        BY <1>1 DEF IInv, CallOK
      <3>2. QED
        BY <1>3, <1>5, <3>1 DEF IInv, CallOK
    <2>3. todo'[t] = <<>> => todo[t] = <<>>
      BY <1>3, <1>5
    <2>4. QED
      BY <1>2, <1>4, <1>14, <2>1, <2>2, <2>3, CallFrame DEF n
  <1>19. ASSUME NEW t \in Threads
         PROVE  LaidOK(t)'
    <2>1. Pending => Pending'
      BY <1>2, <1>3, <1>5 DEF Pending
    <2>2. QED
      BY <1>2, <2>1, LaidFrame DEF Lacks, Form
  <1>20. QED
    BY <1>9, <1>11, <1>12, <1>13, <1>15, <1>16, <1>17, <1>18, <1>19 DEF IInv

\* The slot takes the number the job has, and the index is let go: a pattern
\* being built becomes one that is ready, with the same body.
LEMMA FileOK ==
    ASSUME IInv, NEW e \in Executors, File(e)
    PROVE  IInv'
  <1>1. todo[e] # <<>> /\ BuildOK(Now(e)) /\ Builds(e) /\ Now(e) \in Jobs /\ Now(e).step = "file"
    BY StepsTell DEF File
  <1> DEFINE p == Now(e).pattern
             v == Now(e).v
  <1>2. /\ indexLock = (IF e = Worker THEN None ELSE e) /\ indexLock' = None
        /\ index' = [q \in DOMAIN index \cup {p} |-> IF q = p THEN v ELSE index[q]]
        /\ Ends(e)
        /\ UNCHANGED <<forms, found, finding, bodies, epoch, cached, made, making,
                       condsMaking, queue, pc, call, session, calls, out>>
    BY DEF File, Entered
  <1>3. /\ TypeOK /\ Len(bodies) \in Nat \ {0} /\ epoch \in Nat /\ Worker \in Executors
        /\ p \in Patterns /\ v \in Nat
        /\ Worker \notin Threads /\ \A t \in Threads : t \in Executors /\ t # Worker
        /\ \A d \in Executors : d = Worker \/ d \in Threads
    BY <1>1, Basics DEF TypeOK, BuildOK, Jobs, Executors
  <1>4. /\ DOMAIN index' = DOMAIN index \cup {p} /\ index'[p] = v
        /\ \A q \in DOMAIN index : q # p => index'[q] = index[q]
    BY <1>2
  <1>5. p \in DOMAIN index => e = Worker /\ index[p] = Building
    BY <1>1, <1>3 DEF IInv, BuildsOK
  <1>6. WorkedOn(e)
    BY <1>1, <1>2, <1>3, EndsOK
  <1>7. \A d \in Executors : d # e => todo'[d] = todo[d] /\ Now(d)' = Now(d)
    BY <1>6 DEF WorkedOn, Now
  <1>8. e # Worker => Len(todo[e]) = 1 /\ pc[e] = "choose" /\ p = Pattern(e)
    <2>1. e # Worker => TodoOK(e)
      BY <1>3 DEF IInv
    <2>2. Now(e) = todo[e][1] /\ 1 \in DOMAIN todo[e]
      BY <1>1, <1>3, NowIsFirst
    <2>3. QED
      BY <1>1, <2>1, <2>2 DEF TodoOK, BuildOK
  <1>9. /\ e = Worker => todo'[Worker] # <<>>
        /\ e # Worker => todo'[e] = <<>>
        /\ ~Builds(e)'
    BY <1>1, <1>2, <1>3, <1>8, EndsMoves DEF Builds, Renamed
  <1>10. \A d \in Executors : d # e => (Builds(d)' <=> Builds(d))
    BY <1>7 DEF Builds
  <1>11. \A t \in Threads : Builds(t) => t = e
    BY <1>2, <1>3, MarkersAssumption DEF IInv, BuildsOK
  <1> HIDE DEF p, v
  <1>12. BuildsOK'
    <2>1. \A t \in Threads : ~Builds(t)' /\ indexLock' # t
      BY <1>2, <1>3, <1>9, <1>10, <1>11, MarkersAssumption
    <2>2. ASSUME Builds(Worker)'
          PROVE  /\ Now(Worker)'.pattern \in DOMAIN index'
                 /\ index'[Now(Worker)'.pattern] = Building
      <3>1. e # Worker /\ Builds(Worker) /\ Now(Worker)' = Now(Worker)
        BY <1>3, <1>7, <1>9, <1>10, <2>2
      <3>2. Now(Worker).pattern \in DOMAIN index /\ index[Now(Worker).pattern] = Building
        BY <3>1 DEF IInv, BuildsOK
      <3>3. Now(Worker).pattern # p
        BY <1>5, <3>1, <3>2
      <3>4. QED
        BY <1>4, <3>1, <3>2, <3>3
    <2>3. ASSUME NEW i \in DOMAIN queue, queue[i].kind = "build"
          PROVE  /\ queue[i].pattern \in DOMAIN index' /\ index'[queue[i].pattern] = Building
                 /\ ~(Builds(Worker)' /\ Now(Worker)'.pattern = queue[i].pattern)
                 /\ \A k \in DOMAIN queue : Asked(k, queue[i].pattern) => k = i
      <3>1. /\ queue[i].pattern \in DOMAIN index /\ index[queue[i].pattern] = Building
            /\ ~(Builds(Worker) /\ Now(Worker).pattern = queue[i].pattern)
            /\ \A k \in DOMAIN queue : Asked(k, queue[i].pattern) => k = i
        BY <2>3 DEF IInv, BuildsOK
      <3>2. queue[i].pattern # p
        BY <1>1, <1>5, <3>1 DEF p
      <3>3. ~(Builds(Worker)' /\ Now(Worker)'.pattern = queue[i].pattern)
        BY <1>3, <1>7, <1>9, <1>10, <3>1
      <3>4. QED
        BY <1>4, <3>1, <3>2, <3>3
    <2>4. ASSUME NEW q \in DOMAIN index', index'[q] = Building
          PROVE  \/ Builds(Worker)' /\ Now(Worker)'.pattern = q
                 \/ \E i \in DOMAIN queue : Asked(i, q)
      <3>1. q # p /\ q \in DOMAIN index /\ index[q] = Building
        BY <1>3, <1>4, <2>4, MarkersAssumption
      <3>2. \/ Builds(Worker) /\ Now(Worker).pattern = q
            \/ \E i \in DOMAIN queue : Asked(i, q)
        BY <3>1 DEF IInv, BuildsOK
      <3>3. Builds(Worker) /\ Now(Worker).pattern = q => Worker # e
        BY <3>1 DEF p
      <3>4. QED
        BY <1>3, <1>7, <1>10, <3>2, <3>3
    <2>5. \A i, q : Asked(i, q)' <=> Asked(i, q)
      BY <1>2 DEF Asked
    <2>6. QED
      BY <1>2, <2>1, <2>2, <2>3, <2>4, <2>5 DEF BuildsOK, Asked
  <1>13. BodiesOK'
    <2>1. ASSUME NEW m \in 2..Len(bodies)
          PROVE  /\ bodies[m] \in Patterns
                 /\ \/ bodies[m] \in DOMAIN index' /\ index'[bodies[m]] = m - 1
                    \/ \E d \in Executors : Files(d, bodies[m], m - 1)'
      <3>1. bodies[m] \in Patterns
        BY DEF IInv, BodiesOK
      <3>2. CASE bodies[m] \in DOMAIN index /\ index[bodies[m]] = m - 1
        <4>1. m - 1 \in Nat
          BY <1>3
        <4>2. bodies[m] # p
          BY <1>5, <3>2, <4>1, MarkersAssumption
        <4>3. QED
          BY <1>4, <3>1, <3>2, <4>2
      <3>3. CASE \E d \in Executors : Files(d, bodies[m], m - 1)
        <4>1. PICK d \in Executors : Files(d, bodies[m], m - 1)
          BY <3>3
        <4>2. CASE d = e
          <5>1. bodies[m] = p /\ v = m - 1
            BY <4>1, <4>2 DEF Files, p, v
          <5>2. QED
            BY <1>4, <3>1, <5>1
        <4>3. CASE d # e
          <5>1. Files(d, bodies[m], m - 1)'
            BY <1>2, <1>7, <1>10, <4>1, <4>3 DEF Files
          <5>2. QED
            BY <3>1, <5>1
        <4>4. QED
          BY <4>2, <4>3
      <3>4. QED
        BY <3>2, <3>3 DEF IInv, BodiesOK
    <2>2. QED
      BY <1>2, <2>1 DEF IInv, BodiesOK
  <1>14. Stands(v, p)
    BY <1>1 DEF IInv, SlotsOK, v, p
  <1>15. SlotsOK'
    <2>1. \A w, q : Stands(w, q)' <=> Stands(w, q)
      BY <1>2 DEF Stands
    <2>2. ASSUME NEW q \in DOMAIN index', index'[q] # Building
          PROVE  Stands(index'[q], q)
      BY <1>4, <1>14, <2>2 DEF IInv, SlotsOK
    <2>3. ASSUME NEW d \in Executors, Builds(d)', Now(d)'.step = "file"
          PROVE  Stands(Now(d)'.v, Now(d)'.pattern)
      BY <1>7, <1>9, <1>10, <2>3 DEF IInv, SlotsOK
    <2>4. QED
      BY <2>1, <2>2, <2>3 DEF SlotsOK
  <1>16. TypeOK'
    <2>1. \A q \in DOMAIN index' : index'[q] \in {Building} \cup 0..Len(bodies) - 1
      <3>1. v \in 0..Len(bodies) - 1
        BY <1>3, <1>14 DEF Stands
      <3>2. QED
        BY <1>3, <1>4, <3>1 DEF TypeOK
    <2>2. DOMAIN index' \subseteq Patterns
      BY <1>3, <1>4 DEF TypeOK
    <2>3. QED
      BY <1>2, <1>3, <1>6, <2>1, <2>2 DEF TypeOK, WorkedOn, Sessions
  <1>17. WorkerOK' /\ QueueOK' /\ \A t \in Threads : TodoOK(t)'
    BY <1>1, <1>2, <1>3, <1>6, WorkedShapes, BackgroundFrame
  <1>18. FormingOK' /\ CodeOK'
    BY <1>2 DEF IInv, FormingOK, CodeOK
  <1>19. FindingOK'
    <2>1. todo[Worker] # <<>> /\ Now(Worker).step = "find" => Worker # e
      BY <1>1
    <2>2. QED
      BY <1>2, <1>3, <1>7, <2>1, FindingFrame DEF IInv
  <1>20. \A q \in DOMAIN index : index[q] # Building =>
             q \in DOMAIN index' /\ index'[q] = index[q]
    BY <1>4, <1>5
  <1>21. ASSUME NEW t \in Threads
         PROVE  CallOK(t)' /\ SessionOK(t)'
    <2>1. Sessions' = Sessions /\ bodies' \in Seq(Patterns \cup {Full})
      BY <1>2, <1>3 DEF Sessions, TypeOK
    <2>2. pc[t] \in {"variant", "run"} => todo'[t] = <<>>
      <3>1. pc[t] \in {"variant", "run"} => t # e
        BY <1>1 DEF IInv, CallOK
      <3>2. QED
        BY <1>3, <1>7, <3>1 DEF IInv, CallOK
    <2>3. CASE t # e
      <3>1. todo'[t] = <<>> => todo[t] = <<>>
        BY <1>3, <1>7, <2>3
      <3>2. Pattern(t) \in DOMAIN index /\ index[Pattern(t)] # Building =>
               Pattern(t) \in DOMAIN index' /\ index'[Pattern(t)] = index[Pattern(t)]
        BY <1>20
      <3>3. Len(bodies) <= Len(bodies') /\ \A n \in 1..Len(bodies) : bodies'[n] = bodies[n]
        BY <1>2, <1>3
      <3>4. QED
        BY <1>2, <2>1, <2>2, <3>1, <3>2, <3>3, CallFrame
    <2>4. CASE t = e
      <3>1. pc[t] = "choose" /\ p = Pattern(t)
        BY <1>3, <1>8, <2>4
      <3>2. Pattern(t) \in DOMAIN index' /\ index'[Pattern(t)] # Building
        BY <1>3, <1>4, <3>1, MarkersAssumption
      <3>3. Form(t)' = Form(t) /\ Pattern(t)' = Pattern(t)
        BY <1>2 DEF Form, Pattern
      <3>4. CallOK(t) /\ SessionOK(t)
        BY DEF IInv
      <3>5. CallOK(t)'
        BY <1>2, <2>1, <3>1, <3>2, <3>3, <3>4 DEF CallOK
      <3>6. SessionOK(t)'
        BY <1>2, <2>1, <3>3, <3>4 DEF SessionOK, Stands
      <3>7. QED
        BY <3>5, <3>6
    <2>5. QED
      BY <2>3, <2>4
  <1>22. ASSUME NEW t \in Threads
         PROVE  LaidOK(t)'
    <2>1. Pending => Pending'
      BY <1>2, <1>3, <1>7, <1>9 DEF Pending
    <2>2. QED
      BY <1>2, <1>20, <2>1, LaidFrame DEF Lacks, Form
  <1>23. QED
    BY <1>12, <1>13, <1>15, <1>16, <1>17, <1>18, <1>19, <1>21, <1>22 DEF IInv

\* A thread the step leaves alone: its call, its session and its jobs stay in
\* order.
LEMMA ThreadFrame ==
    ASSUME IInv, NEW t \in Threads, todo'[t] = todo[t],
           pc'[t] = pc[t], call'[t] = call[t], session'[t] = session[t], out'[t] = out[t],
           UNCHANGED <<bodies, epoch, made>>, forms \subseteq forms', found => found',
           Pending => Pending',
           Pattern(t) \in DOMAIN index /\ index[Pattern(t)] # Building =>
               Pattern(t) \in DOMAIN index' /\ index'[Pattern(t)] = index[Pattern(t)]
    PROVE  TodoOK(t)' /\ CallOK(t)' /\ SessionOK(t)' /\ LaidOK(t)'
  <1>1. Len(bodies) \in Nat /\ bodies \in Seq(Patterns \cup {Full})
    BY Basics
  <1>2. TodoOK(t)'
    BY <1>1, TodoFrame
  <1>3. Sessions \subseteq Sessions'
    BY DEF Sessions
  <1>4. pc[t] \in {"variant", "run"} => todo[t] = <<>>
    BY DEF IInv, CallOK
  <1>5. CallOK(t)' /\ SessionOK(t)'
    BY <1>1, <1>3, <1>4, CallFrame
  <1>6. LaidOK(t)'
    BY LaidFrame DEF Lacks, Form
  <1>7. QED
    BY <1>2, <1>5, <1>6

\* The background takes the oldest job, and it still pends.
LEMMA TakeOK ==
    ASSUME IInv, Take
    PROVE  IInv'
  <1> DEFINE j == queue[1]
  <1>1. /\ todo[Worker] = <<>> /\ queue # <<>>
        /\ todo' = [todo EXCEPT ![Worker] = <<Head(queue)>>] /\ queue' = Tail(queue)
        /\ UNCHANGED <<forms, found, finding, bodies, index, indexLock, epoch, cached, made,
                       making, condsMaking, pc, call, session, calls, out>>
    BY DEF Take, shared
  <1>2. /\ TypeOK /\ Len(bodies) \in Nat \ {0} /\ Worker \in Executors /\ Worker \notin Threads
        /\ \A t \in Threads : t \in Executors /\ t # Worker
        /\ queue \in Seq(Jobs) /\ todo \in [Executors -> Seq(Jobs)]
    BY Basics DEF TypeOK
  <1>3. Head(queue) = j /\ j \in Jobs /\ 1 \in DOMAIN queue /\ Len(queue) \in Nat \ {0}
        /\ DOMAIN queue = 1..Len(queue)
    BY <1>1, <1>2
  <1>4. /\ JobOK(j, Len(bodies)) /\ j.step \in {"find", "check", "look", "conds"}
    BY <1>3 DEF IInv, QueueOK
  <1>5. /\ queue' \in Seq(Jobs) /\ Len(queue') = Len(queue) - 1
        /\ \A i \in 1..Len(queue') : queue'[i] = queue[i + 1]
    BY <1>1, <1>2, HeadTailProperties
  <1>6. /\ \A i \in DOMAIN queue' : i + 1 \in DOMAIN queue /\ queue'[i] = queue[i + 1] /\ i + 1 # 1
        /\ \A i \in DOMAIN queue : i # 1 => i - 1 \in DOMAIN queue' /\ queue'[i - 1] = queue[i]
    <2>1. DOMAIN queue' = 1..Len(queue) - 1
      BY <1>3, <1>5
    <2>2. QED
      BY <1>3, <1>5, <2>1
  <1>7. /\ todo' \in [Executors -> Seq(Jobs)] /\ todo'[Worker] = <<j>>
        /\ \A d \in Executors : d # Worker => todo'[d] = todo[d] /\ Now(d)' = Now(d)
    BY <1>1, <1>2, <1>3 DEF Now
  <1>8. Now(Worker)' = j /\ Len(todo'[Worker]) = 1 /\ todo'[Worker] # <<>>
    BY <1>3, <1>7 DEF Now
  <1> HIDE DEF j
  <1>9. /\ ~Builds(Worker) /\ (Builds(Worker)' <=> j.kind = "build")
        /\ \A d \in Executors : d # Worker => (Builds(d)' <=> Builds(d))
    BY <1>1, <1>4, <1>7, <1>8 DEF Builds
  <1>10. TypeOK'
    BY <1>1, <1>2, <1>5, <1>7 DEF TypeOK, Sessions
  <1>11. QueueOK'
    BY <1>1, <1>6 DEF IInv, QueueOK
  <1>12. WorkerOK'
    BY <1>1, <1>4, <1>8 DEF WorkerOK
  <1>13. BuildsOK'
    <2>1. \A t \in Threads : /\ Builds(t)' <=> indexLock' = t
                             /\ Builds(t)' => Now(t)'.pattern \notin DOMAIN index'
      BY <1>1, <1>2, <1>7, <1>9 DEF IInv, BuildsOK
    <2>2. Builds(Worker)' =>
            Now(Worker)'.pattern \in DOMAIN index' /\ index'[Now(Worker)'.pattern] = Building
      BY <1>1, <1>3, <1>8, <1>9 DEF IInv, BuildsOK, j
    <2>3. ASSUME NEW i \in DOMAIN queue', queue'[i].kind = "build"
          PROVE  /\ queue'[i].pattern \in DOMAIN index' /\ index'[queue'[i].pattern] = Building
                 /\ ~(Builds(Worker)' /\ Now(Worker)'.pattern = queue'[i].pattern)
                 /\ \A k \in DOMAIN queue' :
                       queue'[k].kind = "build" /\ queue'[k].pattern = queue'[i].pattern => k = i
      <3>1. i + 1 \in DOMAIN queue /\ queue'[i] = queue[i + 1] /\ i + 1 # 1
        BY <1>6
      <3>2. /\ queue[i + 1].pattern \in DOMAIN index /\ index[queue[i + 1].pattern] = Building
            /\ \A k \in DOMAIN queue : Asked(k, queue[i + 1].pattern) => k = i + 1
        BY <2>3, <3>1 DEF IInv, BuildsOK
      <3>3. ~(Builds(Worker)' /\ Now(Worker)'.pattern = queue'[i].pattern)
        BY <1>3, <1>8, <1>9, <3>1, <3>2 DEF Asked, j
      <3>4. ASSUME NEW k \in DOMAIN queue', queue'[k].kind = "build",
                   queue'[k].pattern = queue'[i].pattern
            PROVE  k = i
        <4>1. k + 1 \in DOMAIN queue /\ queue'[k] = queue[k + 1]
          BY <1>6
        <4>2. k + 1 = i + 1
          BY <3>1, <3>2, <3>4, <4>1 DEF Asked
        <4>3. k \in Nat /\ i \in Nat
          BY <1>5
        <4>4. QED
          BY <4>2, <4>3
      <3>5. QED
        BY <1>1, <3>1, <3>2, <3>3, <3>4
    <2>4. ASSUME NEW p \in DOMAIN index', index'[p] = Building
          PROVE  \/ Builds(Worker)' /\ Now(Worker)'.pattern = p
                 \/ \E i \in DOMAIN queue' : queue'[i].kind = "build" /\ queue'[i].pattern = p
      <3>1. PICK i \in DOMAIN queue : Asked(i, p)
        BY <1>1, <1>9, <2>4 DEF IInv, BuildsOK
      <3>2. CASE i = 1
        BY <1>8, <1>9, <3>1, <3>2 DEF Asked, j
      <3>3. CASE i # 1
        BY <1>6, <3>1, <3>3 DEF Asked
      <3>4. QED
        BY <3>2, <3>3
    <2>5. QED
      BY <2>1, <2>2, <2>3, <2>4 DEF BuildsOK, Asked
  <1>14. BodiesOK' /\ SlotsOK'
    <2>1. \A d \in Executors : d # Worker => \A p, v : Files(d, p, v)' <=> Files(d, p, v)
      BY <1>7, <1>9 DEF Files
    <2>2. \A p, v : ~Files(Worker, p, v)
      BY <1>9 DEF Files
    <2>3. BodiesOK'
      BY <1>1, <2>1, <2>2 DEF IInv, BodiesOK
    <2>4. \A v, p : Stands(v, p)' <=> Stands(v, p)
      BY <1>1 DEF Stands
    <2>5. SlotsOK'
      BY <1>1, <1>4, <1>7, <1>8, <1>9, <2>4 DEF IInv, SlotsOK
    <2>6. QED
      BY <2>3, <2>5
  <1>15. FindingOK'
    <2>1. SUFFICES ASSUME finding, ~found
                   PROVE  \/ todo'[Worker] # <<>> /\ Now(Worker)'.step = "find"
                          \/ \E i \in DOMAIN queue' : queue'[i].step = "find"
      BY <1>1 DEF FindingOK
    <2>2. PICK i \in DOMAIN queue : queue[i].step = "find"
      BY <1>1, <2>1 DEF IInv, FindingOK
    <2>3. CASE i = 1
      BY <1>8, <2>2, <2>3 DEF j
    <2>4. CASE i # 1
      BY <1>6, <2>2, <2>4
    <2>5. QED
      BY <2>3, <2>4
  <1>16. FormingOK' /\ CodeOK'
    BY <1>1 DEF IInv, FormingOK, CodeOK
  <1>17. Pending'
    BY <1>8 DEF Pending
  <1>18. ASSUME NEW t \in Threads
         PROVE  TodoOK(t)' /\ CallOK(t)' /\ SessionOK(t)' /\ LaidOK(t)'
    BY <1>1, <1>2, <1>7, <1>17, ThreadFrame
  <1>19. QED
    BY <1>10, <1>11, <1>12, <1>13, <1>14, <1>15, <1>16, <1>18 DEF IInv

\* Thread t's step leaves the jobs of the others and what waits, behind which
\* it may have put something.
Serves(t) ==
    /\ todo' \in [Executors -> Seq(Jobs)] /\ queue' \in Seq(Jobs)
    /\ \A d \in Executors : d # t => todo'[d] = todo[d]
    /\ \A i \in DOMAIN queue : i \in DOMAIN queue' /\ queue'[i] = queue[i]
    /\ \A i \in DOMAIN queue' : i \in DOMAIN queue \/
           /\ JobOK(queue'[i], Len(bodies)) /\ queue'[i].form \in Submits
           /\ queue'[i].step \in {"find", "check", "look", "conds"}

\* A caller that asks for no variant leaves locks, marks and bodies in order.
LEMMA CallerFrame ==
    ASSUME IInv, NEW t \in Threads, Serves(t), ~Builds(t), ~Builds(t)',
           \A i \in DOMAIN queue' : i \in DOMAIN queue \/ queue'[i].kind # "build",
           UNCHANGED <<bodies, index, indexLock, cached, made>>
    PROVE  /\ QueueOK' /\ WorkerOK' /\ BuildsOK' /\ BodiesOK' /\ SlotsOK' /\ CodeOK'
           /\ Pending => Pending'
           /\ (found => found') /\ finding' = finding => FindingOK'
  <1>1. /\ Worker \in Executors /\ t # Worker /\ Len(bodies) \in Nat
        /\ queue \in Seq(Jobs) /\ queue' \in Seq(Jobs)
    BY Basics DEF TypeOK, Serves
  <1>2. \A d \in Executors : d # t => todo'[d] = todo[d] /\ Now(d)' = Now(d)
    BY DEF Serves, Now
  <1>3. QueueOK'
    BY DEF IInv, QueueOK, Serves
  <1>4. WorkerOK'
    BY <1>1, <1>2, BackgroundFrame
  <1>5. \A d \in Executors : /\ Builds(d)' <=> Builds(d)
                             /\ Builds(d) => Now(d)' = Now(d)
    BY <1>2 DEF Builds
  <1>6. BuildsOK' /\ BodiesOK' /\ SlotsOK'
    <2>1. BuildsOK /\ BodiesOK /\ SlotsOK
      BY DEF IInv
    <2>2. /\ \A i \in DOMAIN queue : i \in DOMAIN queue' /\ queue'[i] = queue[i]
          /\ \A i \in DOMAIN queue' : queue'[i].kind = "build" => i \in DOMAIN queue
      BY DEF Serves
    <2>3. QED
      BY <1>5, <2>1, <2>2, BuildsFrame
  <1>7. CodeOK'
    BY DEF IInv, CodeOK
  <1>8. Pending => Pending'
    <2>1. queue # <<>> => queue' # <<>>
      <3>1. queue # <<>> => 1 \in DOMAIN queue
        BY <1>1
      <3>2. 1 \in DOMAIN queue => 1 \in DOMAIN queue'
        BY DEF Serves
      <3>3. queue' = <<>> => 1 \notin DOMAIN queue'
        OBVIOUS
      <3>4. QED
        BY <3>1, <3>2, <3>3
    <2>2. QED
      BY <1>1, <1>2, <2>1 DEF Pending
  <1>9. (found => found') /\ finding' = finding => FindingOK'
    BY <1>1, <1>2, FindingFrame DEF IInv, Serves
  <1>10. QED
    BY <1>3, <1>4, <1>6, <1>7, <1>8, <1>9

\* A caller that asks for nothing.
LEMMA NothingServed ==
    ASSUME TypeOK, NEW t \in Threads, UNCHANGED <<queue, todo>>
    PROVE  Serves(t)
  BY DEF TypeOK, Serves

\* A job is handed to the background, or is the caller's own.
LEMMA DispatchServes ==
    ASSUME IInv, NEW t \in Threads, NEW job \in Jobs, JobOK(job, Len(bodies)),
           job.step \in {"find", "check", "look", "conds"}, Dispatches(t, job)
    PROVE  /\ Serves(t)
           /\ job.form \in Submits => /\ todo' = todo /\ Pending'
                                      /\ queue' = Append(queue, job)
           /\ job.form \notin Submits => /\ queue' = queue
                                         /\ todo'[t] = <<job>> /\ Now(t)' = job
           /\ \A i \in DOMAIN queue' : i \in DOMAIN queue \/ (queue'[i] = job /\ i = Len(queue) + 1)
  <1>1. /\ t \in Executors /\ queue \in Seq(Jobs) /\ todo \in [Executors -> Seq(Jobs)]
    BY Basics DEF TypeOK
  <1>2. CASE job.form \in Submits
    <2>1. queue' = Append(queue, job) /\ todo' = todo
      BY <1>2 DEF Dispatches
    <2>2. /\ queue' \in Seq(Jobs) /\ queue' # <<>> /\ Len(queue') = Len(queue) + 1
          /\ \A i \in 1..Len(queue) : queue'[i] = queue[i]
          /\ queue'[Len(queue) + 1] = job
      BY <1>1, <2>1, AppendProperties
    <2>3. /\ \A i \in DOMAIN queue : i \in DOMAIN queue' /\ queue'[i] = queue[i]
          /\ \A i \in DOMAIN queue' : i \in DOMAIN queue
                                      \/ (queue'[i] = job /\ i = Len(queue) + 1)
      <3>1. /\ Len(queue) \in Nat /\ DOMAIN queue = 1..Len(queue)
            /\ DOMAIN queue' = 1..Len(queue) + 1
        BY <1>1, <2>2
      <3>2. /\ \A i \in 1..Len(queue) : i \in 1..Len(queue) + 1
            /\ \A i \in 1..Len(queue) + 1 : i \in 1..Len(queue) \/ i = Len(queue) + 1
        BY <3>1
      <3>3. QED
        BY <2>2, <3>1, <3>2
    <2>4. Serves(t)
      BY <1>1, <1>2, <2>1, <2>2, <2>3 DEF Serves
    <2>5. QED
      BY <1>2, <2>1, <2>2, <2>3, <2>4 DEF Pending
  <1>3. CASE job.form \notin Submits
    <2>1. queue' = queue /\ todo' = [todo EXCEPT ![t] = <<job>>]
      BY <1>3 DEF Dispatches
    <2>2. todo'[t] = <<job>> /\ todo' \in [Executors -> Seq(Jobs)]
          /\ \A d \in Executors : d # t => todo'[d] = todo[d]
      BY <1>1, <2>1
    <2>3. Now(t)' = job
      BY <2>2 DEF Now
    <2>4. Serves(t)
      BY <1>1, <2>1, <2>2 DEF Serves
    <2>5. QED
      BY <1>3, <2>1, <2>2, <2>3, <2>4
  <1>4. QED
    BY <1>2, <1>3

\* The jobs a call has are those its step has: none once it is idle.
LEMMA NoJobs ==
    ASSUME todo' = todo, NEW t, todo[t] = <<>>
    PROVE  TodoOK(t)' /\ ~Builds(t) /\ ~Builds(t)'
  <1>1. todo'[t] = <<>> /\ DOMAIN todo'[t] = {}
    OBVIOUS
  <1>2. QED
    BY <1>1 DEF TodoOK, Builds

\* A call opens an instance, with the epoch as it is now and the full body's tag.
LEMMA PrologOK ==
    ASSUME IInv, NEW t \in Threads, Prolog(t)
    PROVE  IInv'
  <1>1. PICK f \in forms, b \in Bindings : Opens(t, f, b)
    BY DEF Prolog
  <1>2. /\ pc[t] = "idle" /\ todo[t] = <<>> /\ calls < MaxCalls
        /\ session' = [session EXCEPT ![t] = [form |-> f, binding |-> b, seen |-> epoch, tag |-> 0]]
        /\ pc' = [pc EXCEPT ![t] = "variant"]
        /\ calls' = calls + 1
        /\ call' = [call EXCEPT ![t] = None] /\ out' = [out EXCEPT ![t] = None]
        /\ UNCHANGED <<forms, found, finding, bodies, index, indexLock, epoch, cached, made,
                       making, condsMaking, queue, todo>>
    BY <1>1 DEF Prolog, Opens, Idle, shared
  <1>3. /\ TypeOK /\ Len(bodies) \in Nat \ {0} /\ epoch \in Nat
        /\ bodies \in Seq(Patterns \cup {Full})
        /\ pc \in [Threads -> {"idle", "forming", "variant", "index", "choose", "made", "run"}]
        /\ call \in [Threads -> Forms \cup {None}]
        /\ session \in [Threads -> Sessions \cup {None}]
        /\ out \in [Threads -> Bindings \cup {Garbage, None}]
        /\ f \in Forms
    BY Basics DEF TypeOK
  <1>4. /\ session'[t] = [form |-> f, binding |-> b, seen |-> epoch, tag |-> 0]
        /\ session'[t] \in Sessions
        /\ session'[t].tag = 0 /\ session'[t].form = f
        /\ pc'[t] = "variant" /\ call'[t] = None /\ out'[t] = None
    <2>1. epoch \in 0..epoch /\ 0 \in Nat
      BY <1>3
    <2>2. QED
      BY <1>2, <1>3, <2>1 DEF Sessions
  <1>5. TypeOK'
    <2>1. Sessions' = Sessions
      BY <1>2 DEF Sessions
    <2>2. session' \in [Threads -> Sessions \cup {None}]
      BY <1>2, <1>3, <1>4
    <2>3. calls' \in 0..MaxCalls
      BY <1>2, <1>3, FormsAssumption DEF TypeOK
    <2>4. QED
      BY <1>2, <1>3, <2>1, <2>2, <2>3 DEF TypeOK
  <1>6. TodoOK(t)' /\ ~Builds(t) /\ ~Builds(t)'
    BY <1>2, NoJobs
  <1>7. /\ QueueOK' /\ WorkerOK' /\ BuildsOK' /\ BodiesOK' /\ SlotsOK' /\ CodeOK'
        /\ FindingOK' /\ (Pending => Pending')
    BY <1>2, <1>3, <1>6, NothingServed, CallerFrame
  <1>8. FormingOK'
    BY <1>2, <1>3 DEF IInv, FormingOK
  <1>9. CallOK(t)'
    BY <1>2, <1>4 DEF CallOK, Sessions
  <1>10. SessionOK(t)'
    BY <1>2, <1>3, <1>4, FormsAssumption DEF SessionOK, Stands, Form
  <1>11. LaidOK(t)'
    BY <1>4 DEF LaidOK
  <1>12. ASSUME NEW u \in Threads, u # t
         PROVE  TodoOK(u)' /\ CallOK(u)' /\ SessionOK(u)' /\ LaidOK(u)'
    <2>1. pc'[u] = pc[u] /\ call'[u] = call[u] /\ session'[u] = session[u] /\ out'[u] = out[u]
      BY <1>2, <1>3, <1>12
    <2>2. QED
      BY <1>2, <1>7, <2>1, ThreadFrame
  <1>13. QED
    BY <1>5, <1>6, <1>7, <1>8, <1>9, <1>10, <1>11, <1>12 DEF IInv

\* A main phase of any form of the program whose prolog laid the state runs
\* within that form's limit, or its prolog runs again.
LEMMA MainOK ==
    ASSUME IInv, NEW t \in Threads, Main(t)
    PROVE  IInv'
  <1>1. PICK g \in forms :
          /\ Program[g] = Program[session[t].form]
          /\ call' = [call EXCEPT ![t] = g]
          /\ IF epoch # session[t].seen
             THEN Opens(t, g, session[t].binding)
             ELSE pc' = [pc EXCEPT ![t] = "run"] /\ UNCHANGED session
    BY DEF Main
  <1>2. /\ pc[t] = "idle" /\ todo[t] = <<>> /\ calls < MaxCalls /\ session[t] # None
        /\ calls' = calls + 1 /\ out' = [out EXCEPT ![t] = None]
        /\ UNCHANGED <<forms, found, finding, bodies, index, indexLock, epoch, cached, made,
                       making, condsMaking, queue, todo>>
    BY DEF Main, Idle, shared
  <1>3. /\ TypeOK /\ Len(bodies) \in Nat \ {0} /\ epoch \in Nat
        /\ bodies \in Seq(Patterns \cup {Full})
        /\ pc \in [Threads -> {"idle", "forming", "variant", "index", "choose", "made", "run"}]
        /\ call \in [Threads -> Forms \cup {None}]
        /\ session \in [Threads -> Sessions \cup {None}] /\ session[t] \in Sessions
        /\ out \in [Threads -> Bindings \cup {Garbage, None}]
        /\ g \in Forms
    BY <1>2, Basics DEF TypeOK
  <1>4. /\ call'[t] = g /\ out'[t] = None
        /\ \/ /\ pc' = [pc EXCEPT ![t] = "variant"] /\ pc'[t] = "variant"
              /\ session' = [session EXCEPT ![t] = [form |-> g, binding |-> session[t].binding,
                                                    seen |-> epoch, tag |-> 0]]
              /\ session'[t] = [form |-> g, binding |-> session[t].binding,
                                seen |-> epoch, tag |-> 0]
           \/ /\ pc' = [pc EXCEPT ![t] = "run"] /\ pc'[t] = "run"
              /\ session' = session
    BY <1>1, <1>2, <1>3 DEF Opens
  <1>5. session' \in [Threads -> Sessions \cup {None}] /\ session'[t] \in Sessions
    <2>1. [form |-> g, binding |-> session[t].binding, seen |-> epoch, tag |-> 0] \in Sessions
      <3>1. epoch \in 0..epoch /\ 0 \in Nat
        BY <1>3
      <3>2. QED
        BY <1>3, <3>1 DEF Sessions
    <2>2. QED
      BY <1>3, <1>4, <2>1
  <1>6. TypeOK'
    <2>1. Sessions' = Sessions
      BY <1>2 DEF Sessions
    <2>2. calls' \in 0..MaxCalls
      BY <1>2, <1>3, FormsAssumption DEF TypeOK
    <2>3. /\ call' \in [Threads -> Forms \cup {None}]
          /\ pc' \in [Threads -> {"idle", "forming", "variant", "index", "choose", "made", "run"}]
          /\ out' \in [Threads -> Bindings \cup {Garbage, None}]
      BY <1>1, <1>2, <1>3, <1>4
    <2>4. QED
      BY <1>2, <1>3, <1>5, <2>1, <2>2, <2>3 DEF TypeOK
  <1>7. TodoOK(t)' /\ ~Builds(t) /\ ~Builds(t)'
    BY <1>2, NoJobs
  <1>8. /\ QueueOK' /\ WorkerOK' /\ BuildsOK' /\ BodiesOK' /\ SlotsOK' /\ CodeOK'
        /\ FindingOK' /\ (Pending => Pending')
    BY <1>2, <1>3, <1>7, NothingServed, CallerFrame
  <1>9. \A u \in Threads : u # t => /\ pc'[u] = pc[u] /\ call'[u] = call[u]
                                    /\ session'[u] = session[u] /\ out'[u] = out[u]
    BY <1>1, <1>2, <1>3, <1>4
  <1>10. FormingOK'
    <2>1. ASSUME NEW u \in Threads, pc'[u] = "forming"
          PROVE  u # t /\ pc[u] = "forming" /\ call'[u] = call[u]
      BY <1>4, <1>9, <2>1
    <2>2. QED
      BY <1>2, <2>1 DEF IInv, FormingOK
  <1>11. Sessions' = Sessions
    BY <1>2 DEF Sessions
  <1>12. CallOK(t)' /\ SessionOK(t)' /\ LaidOK(t)'
    <2>1. CASE /\ pc'[t] = "variant"
               /\ session'[t] = [form |-> g, binding |-> session[t].binding,
                                 seen |-> epoch, tag |-> 0]
      <3>1. CallOK(t)'
        BY <1>2, <1>4, <1>5, <1>11, <2>1 DEF CallOK, Form
      <3>2. SessionOK(t)'
        BY <1>2, <1>3, <1>4, <2>1, FormsAssumption DEF SessionOK, Stands, Form
      <3>3. LaidOK(t)'
        BY <2>1 DEF LaidOK
      <3>4. QED
        BY <3>1, <3>2, <3>3
    <2>2. CASE pc'[t] = "run" /\ session' = session
      <3>1. CallOK(t)'
        BY <1>1, <1>2, <1>3, <1>4, <1>11, <2>2 DEF CallOK, Form
      <3>2. SessionOK(t)'
        BY <1>2, <1>4, <2>2 DEF IInv, SessionOK, Stands, Form, Pattern
      <3>3. LaidOK(t)'
        BY <1>2, <2>2, LaidFrame DEF Lacks, Form, Pending
      <3>4. QED
        BY <3>1, <3>2, <3>3
    <2>3. QED
      BY <1>4, <2>1, <2>2
  <1>13. ASSUME NEW u \in Threads, u # t
         PROVE  TodoOK(u)' /\ CallOK(u)' /\ SessionOK(u)' /\ LaidOK(u)'
    BY <1>2, <1>8, <1>9, <1>13, ThreadFrame
  <1>14. QED
    BY <1>6, <1>7, <1>8, <1>10, <1>12, <1>13 DEF IInv

\* A form is had by all once what it made is done.
LEMMA FormedOK ==
    ASSUME IInv, NEW t \in Threads, Formed(t)
    PROVE  IInv'
  <1>1. /\ pc[t] = "forming" /\ todo[t] = <<>>
        /\ forms' = forms \cup {call[t]} /\ pc' = [pc EXCEPT ![t] = "idle"]
        /\ UNCHANGED <<found, finding, bodies, index, indexLock, epoch, cached, made, making,
                       condsMaking, queue, todo, call, session, calls, out>>
    BY DEF Formed, shared
  <1>2. /\ TypeOK
        /\ pc \in [Threads -> {"idle", "forming", "variant", "index", "choose", "made", "run"}]
    BY Basics DEF TypeOK
  <1>3. pc'[t] = "idle" /\ \A u \in Threads : u # t => pc'[u] = pc[u]
    BY <1>1, <1>2
  <1>4. call[t] \in Forms \ forms
    BY <1>1 DEF IInv, FormingOK
  <1>5. Sessions \subseteq Sessions'
    BY <1>1 DEF Sessions
  <1>6. TypeOK'
    <2>1. session' \in [Threads -> Sessions' \cup {None}]
      BY <1>1, <1>2, <1>5 DEF TypeOK
    <2>2. pc' \in [Threads -> {"idle", "forming", "variant", "index", "choose", "made", "run"}]
      BY <1>1, <1>2
    <2>3. QED
      BY <1>1, <1>2, <1>4, <2>1, <2>2 DEF TypeOK
  <1>7. TodoOK(t)' /\ ~Builds(t) /\ ~Builds(t)'
    BY <1>1, NoJobs
  <1>8. /\ QueueOK' /\ WorkerOK' /\ BuildsOK' /\ BodiesOK' /\ SlotsOK' /\ CodeOK'
        /\ FindingOK' /\ (Pending => Pending')
    BY <1>1, <1>2, <1>7, NothingServed, CallerFrame
  <1>9. FormingOK'
    <2>1. ASSUME NEW u \in Threads, pc'[u] = "forming"
          PROVE  /\ call'[u] \in Forms \ forms'
                 /\ \A w \in Threads : pc'[w] = "forming" /\ call'[w] = call'[u] => w = u
      <3>1. u # t /\ pc[u] = "forming" /\ call'[u] = call[u]
        BY <1>1, <1>3, <2>1
      <3>2. call[u] # call[t]
        BY <1>1, <3>1 DEF IInv, FormingOK
      <3>3. ASSUME NEW w \in Threads, pc'[w] = "forming"
            PROVE  pc[w] = "forming"
        BY <1>1, <1>3, <3>3
      <3>4. QED
        BY <1>1, <3>1, <3>2, <3>3 DEF IInv, FormingOK
    <2>2. QED
      BY <2>1 DEF FormingOK
  <1>10. CallOK(t)' /\ SessionOK(t)' /\ LaidOK(t)'
    <2>1. CallOK(t)'
      BY <1>3 DEF CallOK
    <2>2. SessionOK(t)'
      BY <1>1, <1>5 DEF IInv, SessionOK, Stands, Form, Pattern
    <2>3. LaidOK(t)'
      BY <1>1, LaidFrame DEF Lacks, Form, Pending
    <2>4. QED
      BY <2>1, <2>2, <2>3
  <1>11. ASSUME NEW u \in Threads, u # t
         PROVE  TodoOK(u)' /\ CallOK(u)' /\ SessionOK(u)' /\ LaidOK(u)'
    <2>1. forms \subseteq forms'
      BY <1>1
    <2>2. QED
      BY <1>1, <1>3, <1>8, <1>11, <2>1, ThreadFrame
  <1>12. QED
    BY <1>6, <1>7, <1>8, <1>9, <1>10, <1>11 DEF IInv

\* A form that is made makes code of the bodies there are, within its limit.
LEMMA NewFormOK ==
    ASSUME IInv, NEW t \in Threads, NewForm(t)
    PROVE  IInv'
  <1>1. PICK f \in Forms \ (forms \cup {call[u] : u \in {u \in Threads : pc[u] = "forming"}}) :
          LET n == IF f \notin Compiles THEN 0
                   ELSE IF Len(bodies) < Limit[f] THEN Len(bodies) ELSE Limit[f]
          IN  /\ call' = [call EXCEPT ![t] = f]
              /\ making' = [making EXCEPT ![f] = 0..n - 1]
              /\ condsMaking' = condsMaking \cup (IF found THEN {f} \cap Compiles ELSE {})
              /\ todo' = [todo EXCEPT ![t] = [k \in 1..n |-> MakeJob(f, k - 1)]]
    BY DEF NewForm
  <1> DEFINE n == IF f \notin Compiles THEN 0
                  ELSE IF Len(bodies) < Limit[f] THEN Len(bodies) ELSE Limit[f]
             s == [k \in 1..n |-> MakeJob(f, k - 1)]
  <1>2. /\ pc[t] = "idle" /\ todo[t] = <<>>
        /\ call' = [call EXCEPT ![t] = f] /\ pc' = [pc EXCEPT ![t] = "forming"]
        /\ making' = [making EXCEPT ![f] = 0..n - 1]
        /\ condsMaking' = condsMaking \cup (IF found THEN {f} \cap Compiles ELSE {})
        /\ todo' = [todo EXCEPT ![t] = s]
        /\ UNCHANGED <<forms, found, finding, bodies, index, indexLock, epoch, cached, made,
                       queue, session, calls, out>>
    BY <1>1 DEF NewForm, Idle, shared
  <1>3. /\ TypeOK /\ Len(bodies) \in Nat \ {0} /\ t \in Executors
        /\ pc \in [Threads -> {"idle", "forming", "variant", "index", "choose", "made", "run"}]
        /\ call \in [Threads -> Forms \cup {None}]
        /\ making \in [Forms -> SUBSET Kept]
        /\ todo \in [Executors -> Seq(Jobs)] /\ queue \in Seq(Jobs)
    BY Basics DEF TypeOK
  <1>4. f \in Forms /\ f \notin forms /\ Limit[f] \in Nat
        /\ \A u \in Threads : pc[u] = "forming" => call[u] # f
    BY FormsAssumption
  <1>5. n \in Nat /\ n <= Limit[f] /\ n <= Len(bodies) /\ (f \notin Compiles => n = 0)
    BY <1>3, <1>4
  <1> HIDE DEF n
  <1>6. \A k \in 1..n :
          /\ MakeJob(f, k - 1) \in Jobs /\ MakeJob(f, k - 1).kind = "make"
          /\ MakeJob(f, k - 1).form = f /\ JobOK(MakeJob(f, k - 1), Len(bodies))
    <2>1. ASSUME NEW k \in 1..n
          PROVE  /\ k - 1 \in Nat /\ k - 1 < Limit[f] /\ k - 1 < Len(bodies) /\ f \in Compiles
      BY <1>3, <1>4, <1>5
    <2>2. ASSUME NEW k \in 1..n
          PROVE  /\ MakeJob(f, k - 1) \in Jobs /\ MakeJob(f, k - 1).kind = "make"
                 /\ MakeJob(f, k - 1).form = f /\ MakeOK(MakeJob(f, k - 1), Len(bodies))
      <3>1. /\ MakeJob(f, k - 1).kind = "make" /\ MakeJob(f, k - 1).step = "look"
            /\ MakeJob(f, k - 1).form = f /\ MakeJob(f, k - 1).v = k - 1
        BY DEF MakeJob, Job
      <3>2. MakeJob(f, k - 1) \in Jobs
        BY <1>4, <2>1 DEF MakeJob, Job, Jobs, Kinds
      <3>3. QED
        BY <1>4, <2>1, <3>1, <3>2 DEF MakeOK
    <2>3. QED
      BY <2>2 DEF JobOK
  <1>7. s \in Seq(Jobs) /\ DOMAIN s = 1..n /\ \A k \in 1..n : s[k] = MakeJob(f, k - 1)
    <2>1. s \in [1..n -> Jobs]
      BY <1>6
    <2>2. s \in Seq(Jobs)
      BY <1>5, <2>1, SeqDef
    <2>3. QED
      BY <2>1, <2>2
  <1> HIDE DEF s
  <1>8. /\ todo' \in [Executors -> Seq(Jobs)] /\ todo'[t] = s
        /\ \A d \in Executors : d # t => todo'[d] = todo[d]
    BY <1>2, <1>3, <1>7
  <1>9. /\ pc'[t] = "forming" /\ call'[t] = f
        /\ \A u \in Threads : u # t => pc'[u] = pc[u] /\ call'[u] = call[u]
    BY <1>2, <1>3
  <1>10. TypeOK'
    <2>1. 0..n - 1 \subseteq Kept
      <3>1. 0..n - 1 \subseteq 0..Limit[f] - 1
        BY <1>4, <1>5
      <3>2. QED
        BY <1>4, <3>1 DEF Kept
    <2>2. making' \in [Forms -> SUBSET Kept]
      BY <1>2, <1>3, <1>4, <2>1
    <2>3. Sessions' = Sessions
      BY <1>2 DEF Sessions
    <2>4. /\ call' \in [Threads -> Forms \cup {None}]
          /\ pc' \in [Threads -> {"idle", "forming", "variant", "index", "choose", "made", "run"}]
      BY <1>2, <1>3, <1>4
    <2>5. condsMaking' \subseteq Forms
      BY <1>2, <1>3, <1>4 DEF TypeOK
    <2>6. QED
      BY <1>2, <1>3, <1>8, <2>2, <2>3, <2>4, <2>5 DEF TypeOK
  <1>11. Serves(t)
    BY <1>2, <1>3, <1>8 DEF Serves
  <1>12. ~Builds(t) /\ ~Builds(t)'
    <2>1. s # <<>> => Head(s) = s[1] /\ 1 \in DOMAIN s
      <3>1. s # <<>> => Len(s) \in Nat \ {0} /\ DOMAIN s = 1..Len(s)
        BY <1>7, EmptySeq
      <3>2. s \in Seq(Jobs)
        BY <1>7
      <3>3. s # <<>> => Head(s) = s[1]
        BY <3>2
      <3>4. QED
        BY <3>1, <3>3
    <2>2. Now(t)' = Head(s)
      BY <1>8 DEF Now
    <2>3. s # <<>> => Now(t)'.kind = "make"
      BY <1>6, <1>7, <2>1, <2>2
    <2>4. QED
      BY <1>2, <1>8, <2>3 DEF Builds
  <1>13. /\ QueueOK' /\ WorkerOK' /\ BuildsOK' /\ BodiesOK' /\ SlotsOK' /\ CodeOK'
         /\ FindingOK' /\ (Pending => Pending')
    BY <1>2, <1>11, <1>12, CallerFrame
  <1>14. FormingOK'
    <2>1. ASSUME NEW u \in Threads, pc'[u] = "forming"
          PROVE  /\ call'[u] \in Forms \ forms'
                 /\ \A w \in Threads : pc'[w] = "forming" /\ call'[w] = call'[u] => w = u
      <3>1. CASE u = t
        BY <1>2, <1>4, <1>9, <3>1
      <3>2. CASE u # t
        BY <1>2, <1>4, <1>9, <2>1, <3>2 DEF IInv, FormingOK
      <3>3. QED
        BY <3>1, <3>2
    <2>2. QED
      BY <2>1 DEF FormingOK
  <1>15. TodoOK(t)'
    <2>1. \A i \in DOMAIN todo'[t] :
             /\ JobOK(todo'[t][i], Len(bodies')) /\ todo'[t][i].kind = "make"
             /\ todo'[t][i].form = call'[t]
      BY <1>2, <1>6, <1>7, <1>8, <1>9
    <2>2. QED
      BY <1>9, <2>1 DEF TodoOK
  <1>16. CallOK(t)' /\ SessionOK(t)' /\ LaidOK(t)'
    <2>1. CallOK(t)'
      BY <1>9 DEF CallOK
    <2>2. Sessions' = Sessions
      BY <1>2 DEF Sessions
    <2>3. SessionOK(t)'
      BY <1>2, <2>2 DEF IInv, SessionOK, Stands, Form, Pattern
    <2>4. LaidOK(t)'
      BY <1>2, <1>13, LaidFrame DEF Lacks, Form
    <2>5. QED
      BY <2>1, <2>3, <2>4
  <1>17. ASSUME NEW u \in Threads, u # t
         PROVE  TodoOK(u)' /\ CallOK(u)' /\ SessionOK(u)' /\ LaidOK(u)'
    <2>1. u \in Executors /\ todo'[u] = todo[u]
      BY <1>8, <1>17 DEF Executors
    <2>2. QED
      BY <1>2, <1>9, <1>13, <1>17, <2>1, ThreadFrame
  <1>18. QED
    BY <1>10, <1>13, <1>14, <1>15, <1>16, <1>17 DEF IInv

\* A call that lays its state keeps within its form's limit and its binding's
\* pattern, and runs or rests.
LEMMA LaysOK ==
    ASSUME IInv, NEW t \in Threads, NEW v \in Nat, Lays(t, v),
           pc[t] \in {"variant", "index", "choose", "made"},
           Stands(v, Pattern(t)), v < Limit[Form(t)], todo'[t] = <<>>,
           UNCHANGED <<forms, bodies, epoch, call, out>>
    PROVE  /\ pc' \in [Threads -> {"idle", "forming", "variant", "index", "choose", "made", "run"}]
           /\ session' \in [Threads -> Sessions \cup {None}] /\ session'[t] \in Sessions
           /\ session'[t].form = Form(t) /\ session'[t].binding = session[t].binding
           /\ session'[t].tag = v /\ session'[t].seen = session[t].seen
           /\ \A u \in Threads : u # t => pc'[u] = pc[u] /\ session'[u] = session[u]
           /\ FormingOK' /\ TodoOK(t)' /\ CallOK(t)' /\ SessionOK(t)'
  <1>1. /\ session' = [session EXCEPT ![t].tag = v]
        /\ pc' = [pc EXCEPT ![t] = IF call[t] = None THEN "idle" ELSE "run"]
    BY DEF Lays
  <1>2. /\ pc \in [Threads -> {"idle", "forming", "variant", "index", "choose", "made", "run"}]
        /\ session \in [Threads -> Sessions \cup {None}]
    BY DEF IInv, TypeOK
  <1>3. session[t] \in Sessions /\ call[t] \in {None, Form(t)} /\ CallOK(t) /\ SessionOK(t)
    BY DEF IInv, CallOK
  <1>4. /\ [session[t] EXCEPT !.tag = v] \in Sessions
        /\ [session[t] EXCEPT !.tag = v].form = Form(t)
        /\ [session[t] EXCEPT !.tag = v].binding = session[t].binding
        /\ [session[t] EXCEPT !.tag = v].tag = v
        /\ [session[t] EXCEPT !.tag = v].seen = session[t].seen
    BY <1>3 DEF Sessions, Form
  <1>5. session'[t] = [session[t] EXCEPT !.tag = v]
        /\ \A u \in Threads : u # t => session'[u] = session[u]
    BY <1>1, <1>2
  <1>6. session' \in [Threads -> Sessions \cup {None}]
    BY <1>1, <1>2, <1>4
  <1>7. /\ pc'[t] = IF call[t] = None THEN "idle" ELSE "run"
        /\ pc' \in [Threads -> {"idle", "forming", "variant", "index", "choose", "made", "run"}]
        /\ \A u \in Threads : u # t => pc'[u] = pc[u]
    BY <1>1, <1>2
  <1>8. FormingOK'
    <2>1. ASSUME NEW u \in Threads, pc'[u] = "forming"
          PROVE  u # t /\ pc[u] = "forming"
      BY <1>7, <2>1
    <2>2. QED
      BY <2>1 DEF IInv, FormingOK
  <1>9. TodoOK(t)'
    <2>1. DOMAIN todo'[t] = {}
      OBVIOUS
    <2>2. QED
      BY <2>1 DEF TodoOK
  <1>10. Form(t)' = Form(t) /\ Pattern(t)' = Pattern(t) /\ Sessions' = Sessions
    BY <1>4, <1>5 DEF Form, Pattern, Sessions
  <1>11. Form(t) \in Forms
    BY <1>3 DEF Form, Sessions, IInv, TypeOK
  <1>12. CallOK(t)'
    BY <1>3, <1>4, <1>5, <1>7, <1>10, <1>11 DEF CallOK
  <1>13. SessionOK(t)'
    BY <1>3, <1>4, <1>5, <1>10 DEF SessionOK, Stands
  <1>14. QED
    BY <1>4, <1>5, <1>6, <1>7, <1>8, <1>9, <1>12, <1>13

\* A caller that asks for nothing lays its state: locks, marks and jobs are as
\* they were, and so are the other threads.
LEMMA LaysAlone ==
    ASSUME IInv, NEW t \in Threads, NEW v \in Nat, Lays(t, v),
           pc[t] \in {"variant", "index", "choose", "made"}, todo[t] = <<>>,
           Stands(v, Pattern(t)), v < Limit[Form(t)],
           found' \in BOOLEAN, found => found', LaidOK(t)',
           UNCHANGED <<forms, finding, bodies, index, indexLock, epoch, cached, made, making,
                       condsMaking, queue, todo, call, calls, out>>
    PROVE  IInv'
  <1>1. TypeOK /\ todo'[t] = <<>>
    BY DEF IInv
  <1>2. TodoOK(t)' /\ ~Builds(t) /\ ~Builds(t)'
    BY NoJobs
  <1>3. /\ QueueOK' /\ WorkerOK' /\ BuildsOK' /\ BodiesOK' /\ SlotsOK' /\ CodeOK'
        /\ FindingOK' /\ (Pending => Pending')
    BY <1>1, <1>2, NothingServed, CallerFrame
  <1>4. /\ pc' \in [Threads -> {"idle", "forming", "variant", "index", "choose", "made", "run"}]
        /\ session' \in [Threads -> Sessions \cup {None}]
        /\ \A u \in Threads : u # t => pc'[u] = pc[u] /\ session'[u] = session[u]
        /\ FormingOK' /\ CallOK(t)' /\ SessionOK(t)'
    BY <1>1, LaysOK
  <1>5. TypeOK'
    BY <1>1, <1>4 DEF TypeOK, Sessions
  <1>6. ASSUME NEW u \in Threads, u # t
        PROVE  TodoOK(u)' /\ CallOK(u)' /\ SessionOK(u)' /\ LaidOK(u)'
    BY <1>3, <1>4, <1>6, ThreadFrame
  <1>7. QED
    BY <1>2, <1>3, <1>4, <1>5, <1>6 DEF IInv

\* Having its code or not, the call goes on.
LEMMA MadeStepOK ==
    ASSUME IInv, NEW t \in Threads, Made(t)
    PROVE  IInv'
  <1> DEFINE v == index[Pattern(t)]
             w == IF Lacks(Form(t), v) THEN 0 ELSE v
  <1>1. /\ pc[t] = "made" /\ todo[t] = <<>> /\ Lays(t, w)
        /\ UNCHANGED <<forms, found, finding, bodies, index, indexLock, epoch, cached, made,
                       making, condsMaking, queue, todo, call, calls, out>>
    BY DEF Made, shared
  <1>2. /\ session[t] \in Sessions /\ Form(t) \in Specializing \cap Wants /\ found
        /\ Pattern(t) \in DOMAIN index /\ v # Building /\ v < Limit[Form(t)]
    BY <1>1 DEF IInv, CallOK
  <1>3. /\ bodies \in Seq(Patterns \cup {Full}) /\ Len(bodies) \in Nat \ {0} /\ Form(t) \in Forms
        /\ Limit[Form(t)] \in Nat \ {0} /\ found \in BOOLEAN
    BY <1>2, Basics, FormsAssumption DEF TypeOK, Sessions, Form
  <1>4. v \in 0..Len(bodies) - 1 /\ v \in Nat /\ Stands(v, Pattern(t))
    BY <1>2, <1>3, Basics DEF TypeOK, IInv, SlotsOK
  <1>5. w \in Nat /\ Stands(w, Pattern(t)) /\ w < Limit[Form(t)]
    BY <1>2, <1>3, <1>4 DEF Stands
  <1>6. w = 0 => ~Available(Form(t), Pattern(t))
    BY <1>3, <1>4 DEF Available
  <1> HIDE DEF v, w
  <1>7. /\ session'[t] \in Sessions /\ session'[t].form = Form(t)
        /\ session'[t].binding = session[t].binding /\ session'[t].tag = w
    BY <1>1, <1>5, LaysOK
  <1>8. LaidOK(t)'
    <2>1. Form(t)' = Form(t) /\ Pattern(t)' = Pattern(t)
      BY <1>7 DEF Form, Pattern
    <2>2. \A f, p : Available(f, p)' <=> Available(f, p)
      BY <1>1 DEF Available, Lacks
    <2>3. QED
      BY <1>1, <1>2, <1>6, <1>7, <2>1, <2>2 DEF LaidOK
  <1>9. QED
    BY <1>1, <1>3, <1>5, <1>8, LaysAlone

\* Code is asked for once, of the background or of the caller.
LEMMA MakesServes ==
    ASSUME IInv, NEW t \in Threads, todo[t] = <<>>, NEW f \in Compiles, NEW v \in Nat,
           v < Limit[f], v < Len(bodies), Makes(t, f, v), bodies' = bodies
    PROVE  /\ Serves(t) /\ making' \in [Forms -> SUBSET Kept] /\ ~Builds(t) /\ ~Builds(t)'
           /\ \A i \in DOMAIN queue' : i \in DOMAIN queue \/ queue'[i].kind # "build"
           /\ \A i \in DOMAIN todo'[t] :
                 JobOK(todo'[t][i], Len(bodies')) /\ todo'[t][i].kind # "find"
           /\ todo'[t] # <<>> =>
                 /\ Len(todo'[t]) = 1
                 /\ Now(t)'.kind = "make" /\ Now(t)'.form \notin Submits
  <1> DEFINE j == MakeJob(f, v)
  <1>1. /\ TypeOK /\ f \in Forms /\ Limit[f] \in Nat /\ making \in [Forms -> SUBSET Kept]
    BY FormsAssumption DEF IInv, TypeOK
  <1>2. v \in Kept
    BY <1>1 DEF Kept
  <1>3. making' \in [Forms -> SUBSET Kept]
    BY <1>1, <1>2 DEF Makes
  <1>4. /\ j.kind = "make" /\ j.step = "look" /\ j.form = f /\ j.v = v
    BY DEF MakeJob, Job
  <1>5. j \in Jobs /\ JobOK(j, Len(bodies))
    <2>1. j \in Jobs
      BY <1>1 DEF MakeJob, Job, Jobs, Kinds
    <2>2. QED
      BY <1>4, <2>1 DEF JobOK, MakeOK
  <1> HIDE DEF j
  <1>6. ~Builds(t)
    BY DEF Builds
  <1>7. CASE UNCHANGED <<queue, todo>>
    <2>1. Serves(t)
      BY <1>1, <1>7, NothingServed
    <2>2. todo'[t] = <<>> /\ DOMAIN todo'[t] = {}
      BY <1>7
    <2>3. ~Builds(t)'
      BY <2>2 DEF Builds
    <2>4. QED
      BY <1>3, <1>6, <1>7, <2>1, <2>2, <2>3
  <1>8. CASE Dispatches(t, j)
    <2>1. /\ Serves(t)
          /\ f \in Submits => todo' = todo
          /\ f \notin Submits => todo'[t] = <<j>> /\ Now(t)' = j
          /\ \A i \in DOMAIN queue' : i \in DOMAIN queue \/ queue'[i] = j
      BY <1>4, <1>5, <1>8, DispatchServes
    <2>2. \A i \in DOMAIN queue' : i \in DOMAIN queue \/ queue'[i].kind # "build"
      BY <1>4, <2>1
    <2>3. CASE f \in Submits
      <3>1. todo'[t] = <<>> /\ DOMAIN todo'[t] = {}
        BY <2>1, <2>3
      <3>2. ~Builds(t)'
        BY <3>1 DEF Builds
      <3>3. QED
        BY <1>3, <1>6, <2>1, <2>2, <3>1, <3>2
    <2>4. CASE f \notin Submits
      <3>1. todo'[t] = <<j>> /\ Now(t)' = j
        BY <2>1, <2>4
      <3>2. DOMAIN todo'[t] = {1} /\ todo'[t][1] = j /\ Len(todo'[t]) = 1
        BY <3>1
      <3>3. ~Builds(t)'
        BY <1>4, <3>1 DEF Builds
      <3>4. QED
        BY <1>3, <1>4, <1>5, <1>6, <2>1, <2>2, <2>4, <3>1, <3>2, <3>3
    <2>5. QED
      BY <2>3, <2>4
  <1>9. QED
    BY <1>7, <1>8 DEF Makes, j

\* A caller chooses the variant its pattern's slot has.
LEMMA ChooseOK ==
    ASSUME IInv, NEW t \in Threads, Choose(t)
    PROVE  IInv'
  <1> DEFINE f == Form(t)
             v == index[Pattern(t)]
  <1>1. /\ pc[t] = "choose" /\ todo[t] = <<>>
        /\ UNCHANGED <<forms, found, finding, bodies, index, indexLock, epoch, cached, made,
                       condsMaking, call, calls, out>>
        /\ \/ v >= Limit[f] /\ Lays(t, 0) /\ UNCHANGED <<making, queue, todo>>
           \/ v < Limit[f] /\ ~Lacks(f, v) /\ Lays(t, v) /\ UNCHANGED <<making, queue, todo>>
           \/ /\ v < Limit[f] /\ Lacks(f, v) /\ Makes(t, f, v)
              /\ pc' = [pc EXCEPT ![t] = "made"] /\ session' = session
    BY DEF Choose, shared
  <1>2. /\ session[t] \in Sessions /\ f \in Specializing \cap Wants /\ found
        /\ Pattern(t) \in DOMAIN index /\ v # Building
    BY <1>1 DEF IInv, CallOK
  <1>3. /\ bodies \in Seq(Patterns \cup {Full}) /\ Len(bodies) \in Nat \ {0} /\ f \in Forms
        /\ Limit[f] \in Nat \ {0} /\ found \in BOOLEAN
        /\ pc \in [Threads -> {"idle", "forming", "variant", "index", "choose", "made", "run"}]
    BY <1>2, Basics, FormsAssumption DEF TypeOK, Sessions, Form
  <1>4. v \in 0..Len(bodies) - 1 /\ v \in Nat /\ Stands(v, Pattern(t)) /\ v < Len(bodies)
    BY <1>2, <1>3, Basics DEF TypeOK, IInv, SlotsOK
  <1>5. ASSUME NEW w \in Nat, Lays(t, w), Stands(w, Pattern(t)), w < Limit[f],
               UNCHANGED <<making, queue, todo>>, w = 0 => ~Available(f, Pattern(t))
        PROVE  IInv'
    <2>1. /\ session'[t] \in Sessions /\ session'[t].form = f
          /\ session'[t].binding = session[t].binding /\ session'[t].tag = w
      BY <1>1, <1>5, LaysOK
    <2>2. LaidOK(t)'
      <3>1. Form(t)' = Form(t) /\ Pattern(t)' = Pattern(t)
        BY <2>1 DEF Form, Pattern
      <3>2. \A g, p : Available(g, p)' <=> Available(g, p)
        BY <1>1 DEF Available, Lacks
      <3>3. QED
        BY <1>1, <1>2, <1>5, <2>1, <3>1, <3>2 DEF LaidOK
    <2>3. QED
      BY <1>1, <1>3, <1>5, <2>2, LaysAlone
  <1>6. CASE v >= Limit[f] /\ Lays(t, 0) /\ UNCHANGED <<making, queue, todo>>
    <2>1. Stands(0, Pattern(t)) /\ 0 \in Nat /\ 0 < Limit[f]
      BY <1>3 DEF Stands
    <2>2. ~Available(f, Pattern(t))
      BY <1>3, <1>4, <1>6 DEF Available
    <2>3. QED
      BY <1>5, <1>6, <2>1, <2>2
  <1>7. CASE v < Limit[f] /\ ~Lacks(f, v) /\ Lays(t, v) /\ UNCHANGED <<making, queue, todo>>
    <2>1. v = 0 => ~Available(f, Pattern(t))
      BY <1>3, <1>4 DEF Available
    <2>2. QED
      BY <1>4, <1>5, <1>7, <2>1
  <1>8. CASE /\ v < Limit[f] /\ Lacks(f, v) /\ Makes(t, f, v)
             /\ pc' = [pc EXCEPT ![t] = "made"] /\ session' = session
    <2>1. f \in Compiles
      BY <1>8 DEF Lacks
    <2>2. /\ Serves(t) /\ making' \in [Forms -> SUBSET Kept] /\ ~Builds(t) /\ ~Builds(t)'
          /\ \A i \in DOMAIN queue' : i \in DOMAIN queue \/ queue'[i].kind # "build"
          /\ \A i \in DOMAIN todo'[t] :
                JobOK(todo'[t][i], Len(bodies')) /\ todo'[t][i].kind # "find"
          /\ todo'[t] # <<>> =>
                 /\ Len(todo'[t]) = 1
                 /\ Now(t)'.kind = "make" /\ Now(t)'.form \notin Submits
      BY <1>1, <1>4, <1>8, <2>1, MakesServes
    <2>3. /\ QueueOK' /\ WorkerOK' /\ BuildsOK' /\ BodiesOK' /\ SlotsOK' /\ CodeOK'
          /\ FindingOK' /\ (Pending => Pending')
      BY <1>1, <2>2, CallerFrame
    <2>4. pc'[t] = "made" /\ \A u \in Threads : u # t => pc'[u] = pc[u]
      BY <1>3, <1>8
    <2>5. TypeOK'
      <3>1. todo' \in [Executors -> Seq(Jobs)] /\ queue' \in Seq(Jobs)
        BY <2>2 DEF Serves
      <3>2. pc' \in [Threads -> {"idle", "forming", "variant", "index", "choose", "made", "run"}]
        BY <1>3, <1>8
      <3>3. QED
        BY <1>1, <1>8, <2>2, <3>1, <3>2, Basics DEF TypeOK, Sessions
    <2>6. FormingOK'
      <3>1. ASSUME NEW u \in Threads, pc'[u] = "forming"
            PROVE  u # t /\ pc[u] = "forming"
        BY <2>4, <3>1
      <3>2. QED
        BY <1>1, <3>1 DEF IInv, FormingOK
    <2>7. TodoOK(t)'
      BY <2>2, <2>4 DEF TodoOK
    <2>8. CallOK(t)'
      BY <1>1, <1>2, <1>8, <2>4 DEF IInv, CallOK, Form, Pattern, Sessions
    <2>9. SessionOK(t)'
      BY <1>1, <1>8 DEF IInv, SessionOK, Form, Pattern, Sessions, Stands
    <2>10. LaidOK(t)'
      BY <2>4 DEF LaidOK
    <2>11. ASSUME NEW u \in Threads, u # t
           PROVE  TodoOK(u)' /\ CallOK(u)' /\ SessionOK(u)' /\ LaidOK(u)'
      <3>1. todo'[u] = todo[u]
        BY <2>2, <2>11 DEF Serves, Executors
      <3>2. QED
        BY <1>1, <1>8, <2>3, <2>4, <2>11, <3>1, ThreadFrame
    <2>12. QED
      BY <2>3, <2>5, <2>6, <2>7, <2>8, <2>9, <2>10, <2>11 DEF IInv
  <1>9. QED
    BY <1>1, <1>6, <1>7, <1>8

\* What a main phase runs is right for the binding its state was laid at.
LEMMA RunOK ==
    ASSUME IInv, NEW t \in Threads, Run(t)
    PROVE  IInv'
  <1> DEFINE g == call[t]
             v == session[t].tag
             b == session[t].binding
  <1>1. /\ pc[t] = "run"
        /\ IF Lacks(g, v) THEN Makes(t, g, v) ELSE UNCHANGED <<making, queue, todo>>
        /\ out' = [out EXCEPT ![t] = Value(bodies[v + 1], b)]
        /\ pc' = [pc EXCEPT ![t] = "idle"]
        /\ UNCHANGED <<forms, found, finding, bodies, index, indexLock, epoch, cached, made,
                       condsMaking, call, session, calls>>
    BY DEF Run, shared
  <1>2. /\ session[t] \in Sessions /\ g \in Forms /\ Program[g] = Program[Form(t)]
        /\ todo[t] = <<>>
    BY <1>1 DEF IInv, CallOK
  <1>3. /\ bodies \in Seq(Patterns \cup {Full}) /\ Len(bodies) \in Nat \ {0} /\ bodies[1] = Full
        /\ pc \in [Threads -> {"idle", "forming", "variant", "index", "choose", "made", "run"}]
        /\ out \in [Threads -> Bindings \cup {Garbage, None}]
        /\ TypeOK /\ v \in Nat /\ b \in Bindings /\ Form(t) \in Forms
    BY <1>2, Basics DEF TypeOK, Sessions, Form, IInv, BodiesOK
  <1>4. Limit[g] \in Nat /\ Limit[g] = Limit[Form(t)]
    BY <1>2, <1>3, FormsAssumption
  <1>5. /\ Stands(v, Pattern(t)) /\ v < Limit[g] /\ v < Len(bodies)
    <2>1. session[t] # None
      BY <1>2, <1>3, Basics, MarkersAssumption DEF TypeOK, Sessions
    <2>2. QED
      BY <1>4, <2>1 DEF IInv, SessionOK, Stands
  <1>6. Value(bodies[v + 1], b) = b
    <2>1. CASE v = 0
      BY <1>3, <2>1 DEF Value
    <2>2. CASE v > 0
      BY <1>5, <2>2 DEF Value, Stands, Pattern
    <2>3. QED
      BY <1>3, <2>1, <2>2
  <1>7. /\ out'[t] = b /\ out' \in [Threads -> Bindings \cup {Garbage, None}]
        /\ pc'[t] = "idle"
        /\ pc' \in [Threads -> {"idle", "forming", "variant", "index", "choose", "made", "run"}]
        /\ \A u \in Threads : u # t => pc'[u] = pc[u] /\ out'[u] = out[u]
    BY <1>1, <1>3, <1>6
  <1> HIDE DEF g, v, b
  <1>8. /\ Serves(t) /\ making' \in [Forms -> SUBSET Kept] /\ ~Builds(t) /\ ~Builds(t)'
        /\ \A i \in DOMAIN queue' : i \in DOMAIN queue \/ queue'[i].kind # "build"
        /\ \A i \in DOMAIN todo'[t] : JobOK(todo'[t][i], Len(bodies')) /\ todo'[t][i].kind # "find"
        /\ todo'[t] # <<>> =>
              /\ Len(todo'[t]) = 1
              /\ Now(t)'.kind = "make" /\ Now(t)'.form \notin Submits
    <2>1. CASE Lacks(g, v)
      <3>1. g \in Compiles /\ Makes(t, g, v)
        BY <1>1, <2>1 DEF Lacks
      <3>2. bodies' = bodies
        BY <1>1
      <3>3. QED
        BY <1>2, <1>3, <1>5, <3>1, <3>2, MakesServes
    <2>2. CASE ~Lacks(g, v)
      <3>1. UNCHANGED <<making, queue, todo>>
        BY <1>1, <2>2
      <3>2. Serves(t) /\ ~Builds(t) /\ ~Builds(t)'
        BY <1>2, <1>3, <3>1, NothingServed, NoJobs
      <3>3. todo'[t] = <<>> /\ DOMAIN todo'[t] = {}
        BY <1>2, <3>1
      <3>4. making' \in [Forms -> SUBSET Kept]
        BY <1>3, <3>1 DEF TypeOK
      <3>5. QED
        BY <3>1, <3>2, <3>3, <3>4
    <2>3. QED
      BY <2>1, <2>2
  <1>9. /\ QueueOK' /\ WorkerOK' /\ BuildsOK' /\ BodiesOK' /\ SlotsOK' /\ CodeOK'
        /\ FindingOK' /\ (Pending => Pending')
    BY <1>1, <1>8, CallerFrame
  <1>10. TypeOK'
    <2>1. todo' \in [Executors -> Seq(Jobs)] /\ queue' \in Seq(Jobs)
      BY <1>8 DEF Serves
    <2>2. QED
      BY <1>1, <1>3, <1>7, <1>8, <2>1 DEF TypeOK, Sessions
  <1>11. FormingOK'
    <2>1. ASSUME NEW u \in Threads, pc'[u] = "forming"
          PROVE  u # t /\ pc[u] = "forming"
      BY <1>7, <2>1
    <2>2. QED
      BY <1>1, <2>1 DEF IInv, FormingOK
  <1>12. TodoOK(t)'
    BY <1>7, <1>8 DEF TodoOK
  <1>13. CallOK(t)'
    BY <1>7 DEF CallOK
  <1>14. SessionOK(t)'
    <2>1. Sessions' = Sessions /\ Pattern(t)' = Pattern(t) /\ Form(t)' = Form(t)
      BY <1>1 DEF Sessions, Pattern, Form
    <2>2. SessionOK(t)
      BY DEF IInv
    <2>3. QED
      BY <1>1, <1>2, <1>7, <2>1, <2>2 DEF SessionOK, Stands, b
  <1>15. LaidOK(t)'
    BY <1>1, <1>9, LaidFrame DEF Lacks, Form
  <1>16. ASSUME NEW u \in Threads, u # t
         PROVE  TodoOK(u)' /\ CallOK(u)' /\ SessionOK(u)' /\ LaidOK(u)'
    <2>1. todo'[u] = todo[u]
      BY <1>8, <1>16 DEF Serves, Executors
    <2>2. QED
      BY <1>1, <1>7, <1>9, <1>16, <2>1, ThreadFrame
  <1>17. QED
    BY <1>9, <1>10, <1>11, <1>12, <1>13, <1>14, <1>15, <1>16 DEF IInv

\* A pattern's slot is looked up: ready, building, or this caller's to build.
LEMMA IndexOK ==
    ASSUME IInv, NEW t \in Threads, Index(t)
    PROVE  IInv'
  <1> DEFINE f == Form(t)
             p == Pattern(t)
             job == BuildJob(f, p)
  <1>1. /\ pc[t] = "index" /\ todo[t] = <<>> /\ indexLock = None
        /\ UNCHANGED <<forms, found, finding, bodies, epoch, cached, made, making, condsMaking,
                       call, calls, out>>
        /\ \/ /\ p \in DOMAIN index /\ index[p] = Building
              /\ Lays(t, 0) /\ UNCHANGED <<index, indexLock, queue, todo>>
           \/ /\ p \in DOMAIN index /\ index[p] # Building
              /\ pc' = [pc EXCEPT ![t] = "choose"]
              /\ UNCHANGED <<index, indexLock, queue, todo, session>>
           \/ /\ p \notin DOMAIN index /\ f \in Submits /\ Entered(p, Building)
              /\ Dispatches(t, job) /\ Lays(t, 0) /\ UNCHANGED indexLock
           \/ /\ p \notin DOMAIN index /\ f \notin Submits
              /\ indexLock' = t /\ Dispatches(t, job)
              /\ pc' = [pc EXCEPT ![t] = "choose"] /\ UNCHANGED <<index, session>>
    BY DEF Index
  <1>2. /\ session[t] \in Sessions /\ f \in Specializing \cap Wants /\ found
        /\ call[t] \in {None, f}
    BY <1>1 DEF IInv, CallOK
  <1>3. /\ bodies \in Seq(Patterns \cup {Full}) /\ Len(bodies) \in Nat \ {0} /\ f \in Forms
        /\ Limit[f] \in Nat \ {0} /\ found \in BOOLEAN /\ p \in Patterns
        /\ pc \in [Threads -> {"idle", "forming", "variant", "index", "choose", "made", "run"}]
        /\ TypeOK /\ queue \in Seq(Jobs) /\ Worker \in Executors /\ Worker \notin Threads
        /\ \A u \in Threads : u \in Executors /\ u # Worker
    BY <1>2, Basics, FormsAssumption DEF TypeOK, Sessions, Form, Pattern
  <1>4. Stands(0, p) /\ 0 \in Nat /\ 0 < Limit[f]
    BY <1>3 DEF Stands
  <1>5. /\ job.kind = "build" /\ job.step = "check" /\ job.form = f /\ job.pattern = p /\ job.v = 0
        /\ job \in Jobs
    BY <1>3 DEF BuildJob, Job, Jobs, Kinds
  <1>6. JobOK(job, Len(bodies))
    BY <1>3, <1>5 DEF JobOK, BuildOK
  <1>7. \A u \in Threads : ~Builds(u)
    BY <1>1, MarkersAssumption DEF IInv, BuildsOK
  <1> HIDE DEF job
  <1>8. CASE /\ p \in DOMAIN index /\ index[p] = Building
             /\ Lays(t, 0) /\ UNCHANGED <<index, indexLock, queue, todo>>
    <2>1. Pending
      <3>1. \/ Builds(Worker) \/ \E i \in DOMAIN queue : Asked(i, p)
        BY <1>8 DEF IInv, BuildsOK
      <3>2. (\E i \in DOMAIN queue : Asked(i, p)) => queue # <<>>
        BY <1>3
      <3>3. QED
        BY <3>1, <3>2 DEF Pending, Builds
    <2>2. Pending'
      BY <1>8, <2>1 DEF Pending
    <2>3. LaidOK(t)'
      BY <2>2 DEF LaidOK
    <2>4. QED
      BY <1>1, <1>3, <1>4, <1>8, <2>3, LaysAlone
  <1>9. CASE /\ p \in DOMAIN index /\ index[p] # Building
             /\ pc' = [pc EXCEPT ![t] = "choose"]
             /\ UNCHANGED <<index, indexLock, queue, todo, session>>
    <2>1. TodoOK(t)' /\ ~Builds(t) /\ ~Builds(t)'
      BY <1>1, <1>9, NoJobs
    <2>2. /\ QueueOK' /\ WorkerOK' /\ BuildsOK' /\ BodiesOK' /\ SlotsOK' /\ CodeOK'
          /\ FindingOK' /\ (Pending => Pending')
      BY <1>1, <1>3, <1>9, <2>1, NothingServed, CallerFrame
    <2>3. pc'[t] = "choose" /\ \A u \in Threads : u # t => pc'[u] = pc[u]
      BY <1>3, <1>9
    <2>4. TypeOK'
      <3>1. pc' \in [Threads -> {"idle", "forming", "variant", "index", "choose", "made", "run"}]
        BY <1>3, <1>9
      <3>2. QED
        BY <1>1, <1>3, <1>9, <3>1 DEF TypeOK, Sessions
    <2>5. FormingOK'
      BY <1>1, <2>3 DEF IInv, FormingOK
    <2>6. CallOK(t)'
      BY <1>1, <1>2, <1>9, <2>3 DEF CallOK, Form, Pattern, Sessions
    <2>7. SessionOK(t)'
      BY <1>1, <1>9 DEF IInv, SessionOK, Form, Pattern, Sessions, Stands
    <2>8. LaidOK(t)'
      BY <2>3 DEF LaidOK
    <2>9. ASSUME NEW u \in Threads, u # t
          PROVE  TodoOK(u)' /\ CallOK(u)' /\ SessionOK(u)' /\ LaidOK(u)'
      BY <1>1, <1>9, <2>2, <2>3, <2>9, ThreadFrame
    <2>10. QED
      BY <2>1, <2>2, <2>4, <2>5, <2>6, <2>7, <2>8, <2>9 DEF IInv
  <1>10. CASE /\ p \notin DOMAIN index /\ f \in Submits /\ Entered(p, Building)
              /\ Dispatches(t, job) /\ Lays(t, 0) /\ UNCHANGED indexLock
    <2>1. /\ Serves(t) /\ todo' = todo /\ Pending' /\ queue' = Append(queue, job)
          /\ \A i \in DOMAIN queue' : i \in DOMAIN queue \/ (queue'[i] = job /\ i = Len(queue) + 1)
      BY <1>5, <1>6, <1>10, DispatchServes
    <2>2. /\ \A i \in DOMAIN queue : i \in DOMAIN queue' /\ queue'[i] = queue[i]
          /\ todo' \in [Executors -> Seq(Jobs)] /\ queue' \in Seq(Jobs)
      BY <2>1 DEF Serves
    <2>3. Len(queue) + 1 \in DOMAIN queue' /\ queue'[Len(queue) + 1] = job
      BY <1>3, <1>5, <2>1, AppendProperties
    <2>4. /\ DOMAIN index' = DOMAIN index \cup {p} /\ index'[p] = Building
          /\ \A q \in DOMAIN index : q # p /\ index'[q] = index[q]
      BY <1>10 DEF Entered
    <2>5. \A d \in Executors : Now(d)' = Now(d) /\ (Builds(d)' <=> Builds(d))
      BY <2>1 DEF Now, Builds
    <2>6. QueueOK'
      BY <1>1, <2>1 DEF IInv, QueueOK, Serves
    <2>7. WorkerOK'
      BY <1>1, <1>3, <2>1, BackgroundFrame
    <2>8. BuildsOK'
      <3>1. \A u \in Threads : ~Builds(u)' /\ indexLock' # u
        BY <1>1, <1>3, <1>7, <1>10, <2>5, MarkersAssumption
      <3>2. Builds(Worker)' =>
              /\ Now(Worker)'.pattern \in DOMAIN index
              /\ Now(Worker)'.pattern \in DOMAIN index' /\ index'[Now(Worker)'.pattern] = Building
        BY <1>3, <2>4, <2>5 DEF IInv, BuildsOK
      <3>3. ASSUME NEW i \in DOMAIN queue, queue[i].kind = "build"
            PROVE  /\ queue[i].pattern \in DOMAIN index' /\ index'[queue[i].pattern] = Building
                   /\ queue[i].pattern # p
                   /\ ~(Builds(Worker)' /\ Now(Worker)'.pattern = queue[i].pattern)
                   /\ \A k \in DOMAIN queue :
                         queue[k].kind = "build" /\ queue[k].pattern = queue[i].pattern => k = i
        BY <1>3, <1>10, <2>4, <2>5, <3>3 DEF IInv, BuildsOK, Asked
      <3>4. ASSUME NEW i \in DOMAIN queue', queue'[i].kind = "build"
            PROVE  /\ queue'[i].pattern \in DOMAIN index' /\ index'[queue'[i].pattern] = Building
                   /\ ~(Builds(Worker)' /\ Now(Worker)'.pattern = queue'[i].pattern)
                   /\ \A k \in DOMAIN queue' :
                         queue'[k].kind = "build" /\ queue'[k].pattern = queue'[i].pattern => k = i
        <4>1. CASE i \in DOMAIN queue
          BY <1>5, <2>1, <2>2, <3>3, <3>4, <4>1
        <4>2. CASE queue'[i] = job /\ i = Len(queue) + 1
          BY <1>5, <1>10, <2>1, <2>2, <2>4, <3>2, <3>3, <4>2
        <4>3. QED
          BY <2>1, <4>1, <4>2
      <3>5. ASSUME NEW q \in DOMAIN index', index'[q] = Building
            PROVE  \/ Builds(Worker)' /\ Now(Worker)'.pattern = q
                   \/ \E i \in DOMAIN queue' : queue'[i].kind = "build" /\ queue'[i].pattern = q
        <4>1. CASE q = p
          BY <1>5, <2>3, <4>1
        <4>2. CASE q # p
          <5>1. q \in DOMAIN index /\ index[q] = Building
            BY <2>4, <3>5, <4>2
          <5>2. (Builds(Worker) /\ Now(Worker).pattern = q) \/ \E i \in DOMAIN queue : Asked(i, q)
            BY <5>1 DEF IInv, BuildsOK
          <5>3. QED
            BY <1>3, <2>2, <2>5, <5>2 DEF Asked
        <4>3. QED
          BY <4>1, <4>2
      <3>6. QED
        BY <3>1, <3>2, <3>4, <3>5 DEF BuildsOK, Asked
    <2>9. BodiesOK' /\ SlotsOK'
      <3>1. \A e \in Executors : \A q, w : Files(e, q, w)' <=> Files(e, q, w)
        BY <2>5 DEF Files
      <3>2. \A q, w : Stands(w, q)' <=> Stands(w, q)
        BY <1>1 DEF Stands
      <3>3. BodiesOK'
        BY <1>1, <2>4, <3>1 DEF IInv, BodiesOK
      <3>4. SlotsOK'
        BY <2>4, <2>5, <3>2 DEF IInv, SlotsOK
      <3>5. QED
        BY <3>3, <3>4
    <2>10. FindingOK'
      BY <1>1, <2>1, <2>2, <2>5, <1>3, FindingFrame DEF IInv
    <2>11. CodeOK'
      BY <1>1 DEF IInv, CodeOK
    <2>12. todo'[t] = <<>>
      BY <1>1, <2>1
    <2>13. /\ pc' \in [Threads -> {"idle", "forming", "variant", "index", "choose", "made", "run"}]
           /\ session' \in [Threads -> Sessions \cup {None}]
           /\ \A u \in Threads : u # t => pc'[u] = pc[u] /\ session'[u] = session[u]
           /\ FormingOK' /\ TodoOK(t)' /\ CallOK(t)' /\ SessionOK(t)'
      BY <1>1, <1>4, <1>10, <2>12, LaysOK
    <2>14. TypeOK'
      <3>1. DOMAIN index' \subseteq Patterns
        BY <1>3, <2>4 DEF TypeOK
      <3>2. \A q \in DOMAIN index' : index'[q] \in {Building} \cup 0..Len(bodies') - 1
        BY <1>1, <1>3, <2>4 DEF TypeOK
      <3>3. QED
        BY <1>1, <1>3, <1>10, <2>2, <2>13, <3>1, <3>2 DEF TypeOK, Sessions
    <2>15. LaidOK(t)'
      BY <2>1 DEF LaidOK
    <2>16. ASSUME NEW u \in Threads, u # t
           PROVE  TodoOK(u)' /\ CallOK(u)' /\ SessionOK(u)' /\ LaidOK(u)'
      BY <1>1, <2>1, <2>4, <2>13, <2>16, ThreadFrame
    <2>17. QED
      BY <2>6, <2>7, <2>8, <2>9, <2>10, <2>11, <2>13, <2>14, <2>15, <2>16 DEF IInv
  <1>11. CASE /\ p \notin DOMAIN index /\ f \notin Submits
              /\ indexLock' = t /\ Dispatches(t, job)
              /\ pc' = [pc EXCEPT ![t] = "choose"] /\ UNCHANGED <<index, session>>
    <2>1. /\ Serves(t) /\ queue' = queue /\ todo'[t] = <<job>> /\ Now(t)' = job
      BY <1>5, <1>6, <1>11, DispatchServes
    <2>2. /\ todo' \in [Executors -> Seq(Jobs)]
          /\ \A d \in Executors : d # t => todo'[d] = todo[d]
      BY <2>1 DEF Serves
    <2>3. /\ Builds(t)'
          /\ \A d \in Executors : d # t => Now(d)' = Now(d) /\ (Builds(d)' <=> Builds(d))
      <3>1. todo'[t] # <<>>
        BY <2>1
      <3>2. QED
        BY <1>5, <2>1, <2>2, <3>1 DEF Now, Builds
    <2>4. QueueOK' /\ WorkerOK'
      BY <1>1, <1>3, <2>1, <2>2, BackgroundFrame
    <2>5. BuildsOK'
      <3>1. \A u \in Threads : /\ Builds(u)' <=> indexLock' = u
                               /\ Builds(u)' => Now(u)'.pattern \notin DOMAIN index'
        BY <1>3, <1>5, <1>7, <1>11, <2>1, <2>3
      <3>2. Builds(Worker)' <=> Builds(Worker)
        BY <1>3, <2>3
      <3>3. Now(Worker)' = Now(Worker)
        BY <1>3, <2>3
      <3>4. QED
        BY <1>11, <2>1, <3>1, <3>2, <3>3 DEF IInv, BuildsOK, Asked
    <2>6. BodiesOK' /\ SlotsOK'
      <3>1. \A d \in Executors : \A q, w : Files(d, q, w) => Files(d, q, w)'
        BY <1>7, <2>3 DEF Files
      <3>2. \A q, w : Stands(w, q)' <=> Stands(w, q)
        BY <1>1 DEF Stands
      <3>3. BodiesOK'
        BY <1>1, <1>11, <3>1 DEF IInv, BodiesOK
      <3>4. SlotsOK'
        BY <1>5, <1>11, <2>1, <2>3, <3>2 DEF IInv, SlotsOK
      <3>5. QED
        BY <3>3, <3>4
    <2>7. FindingOK'
      <3>1. todo'[Worker] = todo[Worker] /\ Now(Worker)' = Now(Worker)
        BY <1>3, <2>2, <2>3
      <3>2. QED
        BY <1>1, <2>1, <3>1, FindingFrame DEF IInv
    <2>8. CodeOK'
      BY <1>1 DEF IInv, CodeOK
    <2>9. pc'[t] = "choose" /\ \A u \in Threads : u # t => pc'[u] = pc[u]
      BY <1>3, <1>11
    <2>10. TypeOK'
      <3>1. pc' \in [Threads -> {"idle", "forming", "variant", "index", "choose", "made", "run"}]
        BY <1>3, <1>11
      <3>2. QED
        BY <1>1, <1>3, <1>11, <2>1, <2>2, <3>1 DEF TypeOK, Sessions
    <2>11. FormingOK'
      BY <1>1, <2>9 DEF IInv, FormingOK
    <2>12. TodoOK(t)'
      <3>1. Pattern(t)' = p
        BY <1>11 DEF Pattern
      <3>2. DOMAIN todo'[t] = {1} /\ todo'[t][1] = job /\ Len(todo'[t]) = 1
        BY <2>1
      <3>3. QED
        BY <1>1, <1>5, <1>6, <2>1, <2>9, <3>1, <3>2 DEF TodoOK
    <2>13. CallOK(t)'
      <3>1. todo'[t] # <<>>
        BY <2>1
      <3>2. QED
        BY <1>1, <1>2, <1>11, <2>9, <3>1 DEF CallOK, Form, Sessions
    <2>14. SessionOK(t)'
      BY <1>1, <1>11 DEF IInv, SessionOK, Form, Pattern, Sessions, Stands
    <2>15. LaidOK(t)'
      BY <2>9 DEF LaidOK
    <2>16. Pending => Pending'
      BY <1>3, <2>1, <2>2 DEF Pending
    <2>17. ASSUME NEW u \in Threads, u # t
           PROVE  TodoOK(u)' /\ CallOK(u)' /\ SessionOK(u)' /\ LaidOK(u)'
      BY <1>1, <1>3, <1>11, <2>2, <2>9, <2>16, <2>17, ThreadFrame
    <2>18. QED
      BY <2>4, <2>5, <2>6, <2>7, <2>8, <2>10, <2>11, <2>12, <2>13, <2>14, <2>15, <2>17 DEF IInv
  <1>12. QED
    BY <1>1, <1>8, <1>9, <1>10, <1>11

\* The selects are found, or asked for, before a pattern is looked up.
LEMMA LookUpOK ==
    ASSUME IInv, NEW t \in Threads, LookUp(t)
    PROVE  IInv'
  <1> DEFINE f == Form(t)
             p == Pattern(t)
             find == FindJob(f)
             job == CondsJob(f)
  <1>1. /\ pc[t] = "variant"
        /\ UNCHANGED <<forms, bodies, index, indexLock, epoch, cached, made, making, call,
                       calls, out>>
        /\ \/ /\ f \notin Specializing /\ Lays(t, 0)
              /\ UNCHANGED <<found, finding, condsMaking, queue, todo>>
           \/ /\ f \in Specializing \cap Submits /\ ~found /\ finding' = TRUE
              /\ queue' = IF finding THEN queue ELSE Append(queue, find)
              /\ Lays(t, 0) /\ UNCHANGED <<found, condsMaking, todo>>
           \/ /\ f \in Specializing /\ found' = TRUE /\ finding' = finding
              /\ f \notin Wants /\ Lays(t, 0) /\ UNCHANGED <<condsMaking, queue, todo>>
           \/ /\ f \in Specializing /\ found' = TRUE /\ finding' = finding
              /\ f \in Wants /\ pc' = [pc EXCEPT ![t] = "index"]
              /\ condsMaking' = condsMaking \cup ({f} \cap Compiles)
              /\ IF f \in Compiles \ condsMaking
                 THEN Dispatches(t, job) ELSE UNCHANGED <<queue, todo>>
              /\ session' = session
    BY DEF LookUp
  <1>2. /\ session[t] \in Sessions /\ call[t] \in {None, f} /\ todo[t] = <<>>
    BY <1>1 DEF IInv, CallOK
  <1>3. /\ bodies \in Seq(Patterns \cup {Full}) /\ Len(bodies) \in Nat \ {0} /\ f \in Forms
        /\ Limit[f] \in Nat \ {0} /\ found \in BOOLEAN /\ p \in Patterns
        /\ pc \in [Threads -> {"idle", "forming", "variant", "index", "choose", "made", "run"}]
        /\ TypeOK /\ queue \in Seq(Jobs) /\ Worker \in Executors /\ Worker \notin Threads
        /\ \A u \in Threads : u \in Executors /\ u # Worker
    BY <1>2, Basics, FormsAssumption DEF TypeOK, Sessions, Form, Pattern
  <1>4. Stands(0, p) /\ 0 \in Nat /\ 0 < Limit[f]
    BY <1>3 DEF Stands
  <1>5. /\ find.kind = "find" /\ find.step = "find" /\ find.form = f /\ find \in Jobs
        /\ job.kind = "conds" /\ job.step = "conds" /\ job.form = f /\ job \in Jobs
    BY <1>3 DEF FindJob, CondsJob, Job, Jobs, Kinds
  <1>6. JobOK(find, Len(bodies)) /\ JobOK(job, Len(bodies))
    BY <1>3, <1>5 DEF JobOK
  <1> HIDE DEF job, find
  <1>7. ASSUME Lays(t, 0), UNCHANGED <<finding, condsMaking, queue, todo>>,
               found' \in BOOLEAN, found => found', f \in Specializing => found',
               f \notin Specializing \cap Wants
        PROVE  IInv'
    <2>1. /\ session'[t] \in Sessions /\ session'[t].form = f
          /\ session'[t].binding = session[t].binding
      BY <1>1, <1>2, <1>4, <1>7, LaysOK
    <2>2. LaidOK(t)'
      <3>1. Form(t)' = f
        BY <2>1 DEF Form
      <3>2. ~Available(Form(t), Pattern(t))'
        BY <1>7, <3>1 DEF Available
      <3>3. QED
        BY <1>7, <3>1, <3>2 DEF LaidOK
    <2>3. QED
      BY <1>1, <1>2, <1>4, <1>7, <2>2, LaysAlone
  <1>8. CASE /\ f \notin Specializing /\ Lays(t, 0)
             /\ UNCHANGED <<found, finding, condsMaking, queue, todo>>
    BY <1>3, <1>7, <1>8
  <1>9. CASE /\ f \in Specializing /\ found' = TRUE /\ finding' = finding
             /\ f \notin Wants /\ Lays(t, 0) /\ UNCHANGED <<condsMaking, queue, todo>>
    BY <1>7, <1>9
  <1>10. CASE /\ f \in Specializing \cap Submits /\ ~found /\ finding' = TRUE
              /\ queue' = IF finding THEN queue ELSE Append(queue, find)
              /\ Lays(t, 0) /\ UNCHANGED <<found, condsMaking, todo>>
    <2>1. /\ queue' \in Seq(Jobs)
          /\ \A i \in DOMAIN queue : i \in DOMAIN queue' /\ queue'[i] = queue[i]
          /\ \A i \in DOMAIN queue' : i \in DOMAIN queue \/ queue'[i] = find
          /\ ~finding => Len(queue) + 1 \in DOMAIN queue' /\ queue'[Len(queue) + 1] = find
      <3>1. CASE finding
        BY <1>3, <1>10, <3>1
      <3>2. CASE ~finding
        <4>1. queue' = Append(queue, find)
          BY <1>10, <3>2
        <4>2. /\ queue' \in Seq(Jobs) /\ Len(queue') = Len(queue) + 1
              /\ \A i \in 1..Len(queue) : queue'[i] = queue[i]
              /\ queue'[Len(queue) + 1] = find
          BY <1>3, <1>5, <4>1, AppendProperties
        <4>3. /\ Len(queue) \in Nat /\ DOMAIN queue = 1..Len(queue)
              /\ DOMAIN queue' = 1..Len(queue) + 1
          BY <1>3, <4>2
        <4>4. /\ \A i \in DOMAIN queue : i \in DOMAIN queue' /\ queue'[i] = queue[i]
              /\ \A i \in DOMAIN queue' : i \in DOMAIN queue \/ i = Len(queue) + 1
              /\ Len(queue) + 1 \in DOMAIN queue'
          BY <4>2, <4>3
        <4>5. QED
          BY <4>2, <4>4
      <3>3. QED
        BY <3>1, <3>2
    <2>2. Serves(t)
      BY <1>3, <1>5, <1>6, <1>10, <2>1 DEF Serves, TypeOK
    <2>3. TodoOK(t)' /\ ~Builds(t) /\ ~Builds(t)'
      BY <1>2, <1>10, NoJobs
    <2>4. /\ QueueOK' /\ WorkerOK' /\ BuildsOK' /\ BodiesOK' /\ SlotsOK' /\ CodeOK'
          /\ (Pending => Pending')
      BY <1>1, <1>5, <2>1, <2>2, <2>3, CallerFrame
    <2>5. FindingOK'
      <3>1. CASE finding
        <4>1. todo'[Worker] = todo[Worker] /\ Now(Worker)' = Now(Worker)
          BY <1>10 DEF Now
        <4>2. QED
          BY <1>10, <2>1, <3>1, <4>1, FindingFrame DEF IInv
      <3>2. CASE ~finding
        BY <1>5, <2>1, <3>2 DEF FindingOK
      <3>3. QED
        BY <3>1, <3>2
    <2>6. Pending'
      <3>1. finding => Pending
        <4>1. (\E i \in DOMAIN queue : queue[i].step = "find") => queue # <<>>
          BY <1>3
        <4>2. QED
          BY <1>10, <4>1 DEF IInv, FindingOK, Pending
      <3>2. ~finding => queue' # <<>>
        BY <2>1
      <3>3. QED
        BY <2>4, <3>1, <3>2 DEF Pending
    <2>7. todo'[t] = <<>>
      BY <1>2, <1>10
    <2>8. /\ pc' \in [Threads -> {"idle", "forming", "variant", "index", "choose", "made", "run"}]
          /\ session' \in [Threads -> Sessions \cup {None}]
          /\ \A u \in Threads : u # t => pc'[u] = pc[u] /\ session'[u] = session[u]
          /\ FormingOK' /\ CallOK(t)' /\ SessionOK(t)'
      BY <1>1, <1>4, <1>10, <2>7, LaysOK
    <2>9. TypeOK'
      BY <1>1, <1>3, <1>10, <2>1, <2>8 DEF TypeOK, Sessions
    <2>10. LaidOK(t)'
      BY <2>6 DEF LaidOK
    <2>11. ASSUME NEW u \in Threads, u # t
           PROVE  TodoOK(u)' /\ CallOK(u)' /\ SessionOK(u)' /\ LaidOK(u)'
      BY <1>1, <1>10, <2>4, <2>8, <2>11, ThreadFrame
    <2>12. QED
      BY <2>3, <2>4, <2>5, <2>8, <2>9, <2>10, <2>11 DEF IInv
  <1>11. CASE /\ f \in Specializing /\ found' = TRUE /\ finding' = finding
              /\ f \in Wants /\ pc' = [pc EXCEPT ![t] = "index"]
              /\ condsMaking' = condsMaking \cup ({f} \cap Compiles)
              /\ IF f \in Compiles \ condsMaking
                 THEN Dispatches(t, job) ELSE UNCHANGED <<queue, todo>>
              /\ session' = session
    <2>1. /\ Serves(t)
          /\ \A i \in DOMAIN queue' : i \in DOMAIN queue \/ queue'[i] = job
          /\ todo'[t] = <<>> \/ (todo'[t] = <<job>> /\ Now(t)' = job)
      <3>1. CASE f \in Compiles \ condsMaking
        <4>1. Dispatches(t, job)
          BY <1>11, <3>1
        <4>2. /\ Serves(t) /\ (f \in Submits => todo' = todo)
              /\ f \notin Submits => todo'[t] = <<job>> /\ Now(t)' = job
              /\ \A i \in DOMAIN queue' : i \in DOMAIN queue \/ queue'[i] = job
          BY <1>5, <1>6, <4>1, DispatchServes
        <4>3. QED
          BY <1>2, <4>2
      <3>2. CASE f \notin Compiles \ condsMaking
        <4>1. UNCHANGED <<queue, todo>>
          BY <1>11, <3>2
        <4>2. QED
          BY <1>2, <1>3, <4>1, NothingServed
      <3>3. QED
        BY <3>1, <3>2
    <2>2. ~Builds(t) /\ ~Builds(t)'
      BY <1>2, <1>5, <2>1 DEF Builds
    <2>3. \A i \in DOMAIN queue' : i \in DOMAIN queue \/ queue'[i].kind # "build"
      BY <1>5, <2>1
    <2>4. /\ QueueOK' /\ WorkerOK' /\ BuildsOK' /\ BodiesOK' /\ SlotsOK' /\ CodeOK'
          /\ FindingOK' /\ (Pending => Pending')
      BY <1>1, <1>11, <2>1, <2>2, <2>3, CallerFrame
    <2>5. pc'[t] = "index" /\ \A u \in Threads : u # t => pc'[u] = pc[u]
      BY <1>3, <1>11
    <2>6. TypeOK'
      <3>1. pc' \in [Threads -> {"idle", "forming", "variant", "index", "choose", "made", "run"}]
        BY <1>3, <1>11
      <3>2. todo' \in [Executors -> Seq(Jobs)] /\ queue' \in Seq(Jobs)
        BY <2>1 DEF Serves
      <3>3. condsMaking' \subseteq Forms
        BY <1>3, <1>11 DEF TypeOK
      <3>4. QED
        BY <1>1, <1>3, <1>11, <3>1, <3>2, <3>3 DEF TypeOK, Sessions
    <2>7. FormingOK'
      BY <1>1, <2>5 DEF IInv, FormingOK
    <2>8. TodoOK(t)'
      <3>1. CASE todo'[t] = <<>>
        <4>1. DOMAIN todo'[t] = {}
          BY <3>1
        <4>2. QED
          BY <3>1, <4>1 DEF TodoOK
      <3>2. CASE todo'[t] = <<job>> /\ Now(t)' = job
        <4>1. DOMAIN todo'[t] = {1} /\ todo'[t][1] = job /\ Len(todo'[t]) = 1
          BY <3>2
        <4>2. QED
          BY <1>1, <1>5, <1>6, <2>5, <3>2, <4>1 DEF TodoOK
      <3>3. QED
        BY <2>1, <3>1, <3>2
    <2>9. CallOK(t)'
      BY <1>1, <1>2, <1>11, <2>5 DEF CallOK, Form, Sessions
    <2>10. SessionOK(t)'
      BY <1>1, <1>11 DEF IInv, SessionOK, Form, Pattern, Sessions, Stands
    <2>11. LaidOK(t)'
      BY <2>5 DEF LaidOK
    <2>12. ASSUME NEW u \in Threads, u # t
           PROVE  TodoOK(u)' /\ CallOK(u)' /\ SessionOK(u)' /\ LaidOK(u)'
      <3>1. todo'[u] = todo[u]
        BY <1>3, <2>1, <2>12 DEF Serves
      <3>2. QED
        BY <1>1, <1>11, <2>4, <2>5, <2>12, <3>1, ThreadFrame
    <2>13. QED
      BY <2>4, <2>6, <2>7, <2>8, <2>9, <2>10, <2>11, <2>12 DEF IInv
  <1>12. QED
    BY <1>1, <1>8, <1>9, <1>10, <1>11

\* At first there is the default form, the full body, and nothing to do.
LEMMA InitOK ==
    Init => IInv
  <1> SUFFICES ASSUME Init PROVE IInv
    OBVIOUS
  <1>1. /\ forms = {Default} /\ found = FALSE /\ finding = FALSE /\ bodies = <<Full>>
        /\ index = << >> /\ indexLock = None /\ epoch = 0 /\ queue = <<>>
        /\ cached = [v \in Kept |-> [k \in Keys |-> None]]
        /\ made = [f \in Forms |-> [v \in Kept |-> None]]
        /\ making = [f \in Forms |-> {}] /\ condsMaking = {}
        /\ todo = [e \in Executors |-> << >>] /\ pc = [t \in Threads |-> "idle"]
        /\ call = [t \in Threads |-> None] /\ session = [t \in Threads |-> None]
        /\ calls = 0 /\ out = [t \in Threads |-> None]
    BY DEF Init
  <1>2. /\ DOMAIN index = {} /\ DOMAIN queue = {} /\ Len(bodies) = 1 /\ bodies[1] = Full
        /\ bodies \in Seq(Patterns \cup {Full}) /\ queue \in Seq(Jobs)
    BY <1>1
  <1>3. Worker \in Executors /\ \A t \in Threads : t \in Executors
    BY DEF Executors
  <1>4. /\ \A e \in Executors : todo[e] = <<>> /\ ~Builds(e) /\ DOMAIN todo[e] = {}
    BY <1>1 DEF Builds
  <1>5. todo \in [Executors -> Seq(Jobs)]
    <2>1. << >> \in Seq(Jobs)
      OBVIOUS
    <2>2. QED
      BY <1>1, <2>1
  <1>6. /\ cached \in [Kept -> [Keys -> Compiles \cup {None}]]
        /\ made \in [Forms -> [Kept -> Compiles \cup {None}]]
        /\ making \in [Forms -> SUBSET Kept]
    BY <1>1
  <1>7. /\ pc \in [Threads -> {"idle", "forming", "variant", "index", "choose", "made", "run"}]
        /\ call \in [Threads -> Forms \cup {None}]
        /\ session \in [Threads -> Sessions \cup {None}]
        /\ out \in [Threads -> Bindings \cup {Garbage, None}]
    BY <1>1
  <1>8. forms \subseteq Forms /\ condsMaking \subseteq Forms /\ calls \in 0..MaxCalls
    BY <1>1, FormsAssumption
  <1>9. TypeOK
    BY <1>1, <1>2, <1>5, <1>6, <1>7, <1>8 DEF TypeOK
  <1>10. QueueOK /\ WorkerOK /\ FindingOK
    BY <1>1, <1>2, <1>3, <1>4 DEF QueueOK, WorkerOK, FindingOK
  <1>11. BuildsOK
    BY <1>1, <1>2, <1>3, <1>4, MarkersAssumption DEF BuildsOK
  <1>12. BodiesOK /\ SlotsOK
    BY <1>1, <1>2, <1>4 DEF BodiesOK, SlotsOK
  <1>13. CodeOK
    BY <1>1, FormsAssumption DEF CodeOK
  <1>14. FormingOK
    BY <1>1 DEF FormingOK
  <1>15. ASSUME NEW t \in Threads
         PROVE  TodoOK(t) /\ CallOK(t) /\ SessionOK(t) /\ LaidOK(t)
    <2>1. pc[t] = "idle" /\ session[t] = None /\ out[t] = None /\ todo[t] = <<>>
      BY <1>1, <1>3
    <2>2. TodoOK(t)
      BY <1>3, <1>4, <2>1 DEF TodoOK
    <2>3. CallOK(t)
      BY <2>1 DEF CallOK
    <2>4. QED
      BY <2>1, <2>2, <2>3 DEF SessionOK, LaidOK
  <1>16. QED
    BY <1>9, <1>10, <1>11, <1>12, <1>13, <1>14, <1>15 DEF IInv

------------------------------------------------------------------------------
(* The theorems                                                             *)

\* A step that changes nothing.
LEMMA StutterOK ==
    ASSUME IInv, UNCHANGED vars
    PROVE  IInv'
  <1>1. UNCHANGED <<forms, found, finding, bodies, index, indexLock, epoch, cached, made, making,
                    condsMaking, queue, todo, pc, call, session, calls, out>>
    BY DEF vars, shared
  <1>2. TypeOK'
    BY <1>1 DEF IInv, TypeOK, Sessions
  <1>3. QueueOK' /\ WorkerOK' /\ FindingOK'
    BY <1>1 DEF IInv, QueueOK, WorkerOK, FindingOK, Now
  <1>4. \A e : Now(e)' = Now(e) /\ (Builds(e)' <=> Builds(e))
    BY <1>1 DEF Now, Builds
  <1>5. BuildsOK' /\ BodiesOK' /\ SlotsOK'
    BY <1>1, <1>4, BuildsFrame DEF IInv
  <1>6. CodeOK' /\ FormingOK'
    BY <1>1 DEF IInv, CodeOK, FormingOK
  <1>7. ASSUME NEW t \in Threads
        PROVE  TodoOK(t)' /\ CallOK(t)' /\ SessionOK(t)' /\ LaidOK(t)'
    <2>1. Pending => Pending'
      BY <1>1 DEF Pending
    <2>2. QED
      BY <1>1, <2>1, ThreadFrame
  <1>8. QED
    BY <1>2, <1>3, <1>5, <1>6, <1>7 DEF IInv

\* Every step of a caller, of an executor and of the background keeps it.
LEMMA NextOK ==
    IInv /\ [Next]_vars => IInv'
  <1> SUFFICES ASSUME IInv, [Next]_vars PROVE IInv'
    OBVIOUS
  <1>1. ASSUME NEW t \in Threads, Prolog(t) \/ Main(t) \/ NewForm(t) \/ Step(t)
        PROVE  IInv'
    <2>1. CASE Prolog(t)
      BY <2>1, PrologOK
    <2>2. CASE Main(t)
      BY <2>2, MainOK
    <2>3. CASE NewForm(t)
      BY <2>3, NewFormOK
    <2>4. CASE Step(t)
      BY <2>4, LookUpOK, IndexOK, ChooseOK, MadeStepOK, RunOK, FormedOK DEF Step
    <2>5. QED
      BY <1>1, <2>1, <2>2, <2>3, <2>4
  <1>2. ASSUME NEW e \in Executors, Work(e)
        PROVE  IInv'
    BY <1>2, FindSelectsOK, CheckRoomOK, KeepOK, FileOK, LookOK, CompileOK, CondsOK, AnnounceOK
       DEF Work
  <1>3. CASE Take
    BY <1>3, TakeOK
  <1>4. CASE Rests \/ UNCHANGED vars
    BY <1>4, StutterOK DEF Rests
  <1>5. QED
    BY <1>1, <1>2, <1>3, <1>4 DEF Next

\* The inductive invariant holds of every state there is.
THEOREM Invariance ==
    Spec => []IInv
  <1>1. QED
    BY InitOK, NextOK, PTL DEF Spec

\* Every variable keeps its type: slots number bodies that exist, tags are
\* numbers, code and the forms being made are within what forms may keep.
THEOREM Typed ==
    Spec => []TypeOK
  <1>1. IInv => TypeOK
    BY DEF IInv
  <1>2. QED
    BY <1>1, Invariance, PTL

\* Whatever threads, forms, limits and patterns there are, and however their
\* calls and the background's jobs interleave, a main phase gives the value at
\* the binding its state was laid at, by a variant its form keeps.
THEOREM ResultsAreExact ==
    Spec => []ResultsExact
  <1>1. IInv => ResultsExact
    <2> SUFFICES ASSUME IInv, NEW t \in Threads
                 PROVE  /\ pc[t] = "run" => session[t].tag < Limit[call[t]]
                        /\ out[t] # None => out[t] = session[t].binding
      BY DEF ResultsExact
    <2>1. TypeOK /\ CallOK(t) /\ SessionOK(t)
      BY DEF IInv
    <2>2. ASSUME pc[t] = "run"
          PROVE  session[t].tag < Limit[call[t]]
      <3>1. session[t] \in Sessions /\ call[t] \in Forms /\ Program[call[t]] = Program[Form(t)]
        BY <2>1, <2>2 DEF CallOK
      <3>2. session[t] # None /\ Form(t) \in Forms
        BY <2>1, <3>1, MarkersAssumption DEF TypeOK, Sessions, Form
      <3>3. Limit[call[t]] = Limit[Form(t)]
        BY <3>1, <3>2, FormsAssumption
      <3>4. QED
        BY <2>1, <3>2, <3>3 DEF SessionOK
    <2>3. QED
      BY <2>1, <2>2 DEF SessionOK
  <1>2. QED
    BY <1>1, Invariance, PTL

\* The variant of a pattern is built once, by whichever of the executors its
\* first caller left it to.
THEOREM OneBody ==
    Spec => []OneBodyPerPattern
  <1>1. IInv => OneBodyPerPattern
    <2> SUFFICES ASSUME IInv, NEW m \in DOMAIN bodies, NEW n \in DOMAIN bodies,
                        bodies[m] = bodies[n]
                 PROVE  m = n
      BY DEF OneBodyPerPattern
    <2>1. /\ DOMAIN bodies = 1..Len(bodies) /\ Len(bodies) \in Nat
          /\ bodies[1] = Full /\ BuildsOK
      BY Basics DEF IInv, BodiesOK
    <2>2. ASSUME NEW k \in 2..Len(bodies)
          PROVE  /\ bodies[k] \in Patterns
                 /\ \/ bodies[k] \in DOMAIN index /\ index[bodies[k]] = k - 1
                    \/ \E e \in Executors : Files(e, bodies[k], k - 1)
      BY DEF IInv, BodiesOK
    <2>3. CASE m = 1 \/ n = 1
      <3>1. bodies[m] = Full /\ bodies[n] = Full
        BY <2>1, <2>3
      <3>2. m \notin 2..Len(bodies) /\ n \notin 2..Len(bodies)
        BY <2>2, <3>1, MarkersAssumption
      <3>3. QED
        BY <2>1, <3>2
    <2>4. CASE m # 1 /\ n # 1
      <3>1. m \in 2..Len(bodies) /\ n \in 2..Len(bodies) /\ m \in Nat /\ n \in Nat
        BY <2>1, <2>4
      <3> DEFINE p == bodies[m]
      <3>2. /\ (p \in DOMAIN index /\ index[p] = m - 1) \/ \E e \in Executors : Files(e, p, m - 1)
            /\ (p \in DOMAIN index /\ index[p] = n - 1) \/ \E e \in Executors : Files(e, p, n - 1)
        BY <2>2, <3>1
      <3>3. \A e \in Executors : \A v : Files(e, p, v) /\ e # Worker =>
                indexLock = e /\ p \notin DOMAIN index
        BY <2>1 DEF BuildsOK, Files, Executors
      <3>4. \A v : Files(Worker, p, v) => p \in DOMAIN index /\ index[p] = Building
        BY <2>1 DEF BuildsOK, Files
      <3>5. m - 1 # Building /\ n - 1 # Building
        <4>1. m - 1 \in Nat /\ n - 1 \in Nat
          BY <3>1
        <4>2. QED
          BY <4>1, MarkersAssumption
      <3>6. \A d, e \in Executors : \A v, w : Files(d, p, v) /\ Files(e, p, w) => d = e
        BY <3>3, <3>4
      <3>7. \A e \in Executors : \A v, w : Files(e, p, v) /\ Files(e, p, w) => v = w
        BY DEF Files
      <3>8. m - 1 = n - 1
        BY <3>2, <3>3, <3>4, <3>5, <3>6, <3>7
      <3>9. QED
        BY <3>1, <3>8
    <2>5. QED
      BY <2>3, <2>4
  <1>2. QED
    BY <1>1, Invariance, PTL

\* Forms of one key run the same code of a variant, however many compiled it.
THEOREM FormsShare ==
    Spec => []SharedForms
  <1>1. IInv => SharedForms
    BY DEF IInv, CodeOK, SharedForms
  <1>2. QED
    BY <1>1, Invariance, PTL

\* No call is left on the full body by a form whose work goes to the
\* background while its variant is there, without the epoch telling.
THEOREM LandingsAreTold ==
    Spec => []LandingsTold
  <1>1. IInv => LandingsTold
    BY DEF IInv, LandingsTold, LaidOK, Idle, Pending, Form, Pattern
  <1>2. QED
    BY <1>1, Invariance, PTL

\* Whatever is marked as building is being built by the background, or waits
\* there in the one job that asks for it; and selects being found are found by
\* a job that is there: no mark is left behind (variant.rs:92-100).
MarksAsked ==
    /\ \A p \in DOMAIN index : index[p] = Building =>
         \/ Builds(Worker) /\ Now(Worker).pattern = p
         \/ \E i \in DOMAIN queue :
              Asked(i, p) /\ \A k \in DOMAIN queue : Asked(k, p) => k = i
    /\ finding /\ ~found => Pending

\* What SlotsSettle waits for is always there to be done: a slot marked as
\* building has its one job, whoever else looks the pattern up meanwhile.
THEOREM MarksHaveJobs ==
    Spec => []MarksAsked
  <1>1. IInv => MarksAsked
    <2> SUFFICES ASSUME IInv PROVE MarksAsked
      OBVIOUS
    <2>1. ASSUME NEW p \in DOMAIN index, index[p] = Building
          PROVE  \/ Builds(Worker) /\ Now(Worker).pattern = p
                 \/ \E i \in DOMAIN queue :
                      Asked(i, p) /\ \A k \in DOMAIN queue : Asked(k, p) => k = i
      BY <2>1 DEF IInv, BuildsOK, Asked
    <2>2. ASSUME finding, ~found
          PROVE  Pending
      <3>1. (\E i \in DOMAIN queue : queue[i].step = "find") => queue # <<>>
        BY EmptySeq
      <3>2. QED
        BY <2>2, <3>1 DEF IInv, FindingOK, Pending
    <2>3. QED
      BY <2>1, <2>2 DEF MarksAsked
  <1>2. QED
    BY <1>1, Invariance, PTL

------------------------------------------------------------------------------
(* What a caller sees                                                       *)

\* What a step may be for those who call.
Sees == [Promise!Next]_(Promise!vars)

\* What a call's steps rely on for that: its value comes with its main phase,
\* after which it may still have code to make.
ValueOK(t) ==
    /\ pc[t] \in {"variant", "index", "choose", "made", "run"} => out[t] = None
    /\ pc[t] = "idle" /\ todo[t] # <<>> => call[t] # None /\ out[t] # None

SInv == IInv /\ \A t \in Threads : ValueOK(t)

\* A thread nothing happens to.
Untouched(u) ==
    /\ pc'[u] = pc[u] /\ todo'[u] = todo[u] /\ call'[u] = call[u]
    /\ session'[u] = session[u] /\ out'[u] = out[u]

\* What is seen of a thread stays.
Unmoved(u) ==
    /\ Asks(u)' = Asks(u) /\ Given(u)' = Given(u) /\ Binds(u)' = Binds(u)
    /\ Gives(u)' = Gives(u)

LEMMA UntouchedUnmoved ==
    ASSUME NEW u, Untouched(u)
    PROVE  Unmoved(u) /\ (ValueOK(u) => ValueOK(u)')
  <1>1. Asks(u)' = Asks(u)
    BY DEF Untouched, Asks, Idle
  <1>2. QED
    BY <1>1 DEF Untouched, Unmoved, Given, Binds, Gives, ValueOK

\* What no caller sees.
LEMMA Unseen ==
    ASSUME \A u \in Threads : Unmoved(u)
    PROVE  Sees
  <1>1. [u \in Threads |-> Asks(u)]' = [u \in Threads |-> Asks(u)]
    BY DEF Unmoved
  <1>2. [u \in Threads |-> Given(u)]' = [u \in Threads |-> Given(u)]
    BY DEF Unmoved
  <1>3. [u \in Threads |-> Binds(u)]' = [u \in Threads |-> Binds(u)]
    BY DEF Unmoved
  <1>4. [u \in Threads |-> Gives(u)]' = [u \in Threads |-> Gives(u)]
    BY DEF Unmoved
  <1>5. QED
    BY <1>1, <1>2, <1>3, <1>4 DEF Sees, Promise!vars

\* A step that answers thread t.
LEMMA AnswerSeen ==
    ASSUME NEW t \in Threads, \A u \in Threads \ {t} : Unmoved(u),
           Asks(t) # "nothing", Asks(t)' = "nothing",
           Given(t)' = Given(t), Binds(t)' = Binds(t),
           Gives(t)' = IF Asks(t) = "value" THEN Given(t) ELSE None
    PROVE  Sees
  <1> DEFINE asked == [u \in Threads |-> Asks(u)]
             input == [u \in Threads |-> Given(u)]
             binds == [u \in Threads |-> Binds(u)]
             result == [u \in Threads |-> Gives(u)]
  <1>1. asked[t] # "nothing" /\ asked' = [asked EXCEPT ![t] = "nothing"]
    BY DEF Unmoved
  <1>2. input' = input
    BY DEF Unmoved
  <1>3. binds' = binds
    BY DEF Unmoved
  <1>4. result' = [result EXCEPT ![t] = IF asked[t] = "value" THEN input[t] ELSE None]
    BY DEF Unmoved
  <1>5. Promise!Answer(t)
    BY <1>1, <1>2, <1>3, <1>4 DEF Promise!Answer
  <1>6. QED
    BY <1>5 DEF Sees, Promise!Next

\* A step that asks for thread t, at binding b.
LEMMA AskSeen ==
    ASSUME NEW t \in Threads, \A u \in Threads \ {t} : Unmoved(u),
           Asks(t) = "nothing", NEW b \in Bindings,
           Given(t)' = <<b, "once">>, Binds(t)' = b, Gives(t)' = None,
           \/ Asks(t)' = "binding"
           \/ Asks(t)' = "value" /\ Binds(t) = b
    PROVE  Sees
  <1> DEFINE asked == [u \in Threads |-> Asks(u)]
             input == [u \in Threads |-> Given(u)]
             binds == [u \in Threads |-> Binds(u)]
             result == [u \in Threads |-> Gives(u)]
             i == <<b, "once">>
  <1>1. /\ asked[t] = "nothing" /\ asked' = [asked EXCEPT ![t] = Asks(t)']
        /\ input' = [input EXCEPT ![t] = i]
        /\ binds' = [binds EXCEPT ![t] = b]
        /\ result' = [result EXCEPT ![t] = None]
    BY DEF Unmoved
  <1>2. Promise!Ask(t, Asks(t)', i, b)
    BY <1>1 DEF Promise!Ask
  <1>3. i \in Promise!Inputs /\ i[1] = b
    BY DEF Promise!Inputs
  <1>4. CASE Asks(t)' = "binding"
    <2>1. Promise!Ask(t, "binding", i, i[1])
      BY <1>2, <1>3, <1>4
    <2>2. Promise!Bind(t)
      BY <1>3, <2>1 DEF Promise!Bind
    <2>3. QED
      BY <2>2 DEF Sees, Promise!Next
  <1>5. CASE Asks(t)' = "value" /\ Binds(t) = b
    <2>1. binds[t] = b /\ binds[t] # None
      BY <1>5, MarkersAssumption
    <2>2. Promise!Ask(t, "value", <<binds[t], "once">>, binds[t])
      BY <1>2, <1>5, <2>1
    <2>3. Promise!EvalSession(t)
      BY <2>1, <2>2 DEF Promise!EvalSession
    <2>4. QED
      BY <2>3 DEF Sees, Promise!Next
  <1>6. QED
    BY <1>4, <1>5

\* A caller begins an instance.
LEMMA PrologSees ==
    ASSUME SInv, NEW t \in Threads, Prolog(t)
    PROVE  Sees /\ \A u \in Threads : ValueOK(u)'
  <1>1. PICK f \in forms, b \in Bindings : Opens(t, f, b)
    BY DEF Prolog
  <1>2. /\ Idle(t) /\ call' = [call EXCEPT ![t] = None] /\ out' = [out EXCEPT ![t] = None]
        /\ session' = [session EXCEPT ![t] = [form |-> f, binding |-> b, seen |-> epoch, tag |-> 0]]
        /\ pc' = [pc EXCEPT ![t] = "variant"] /\ todo' = todo
    BY <1>1 DEF Prolog, Opens
  <1>3. /\ TypeOK /\ pc \in [Threads -> {"idle", "forming", "variant", "index", "choose", "made", "run"}]
        /\ call \in [Threads -> Forms \cup {None}]
        /\ session \in [Threads -> Sessions \cup {None}]
        /\ out \in [Threads -> Bindings \cup {Garbage, None}]
    BY DEF SInv, IInv, TypeOK
  <1> DEFINE s == [form |-> f, binding |-> b, seen |-> epoch, tag |-> 0]
  <1>4. pc'[t] = "variant" /\ call'[t] = None /\ out'[t] = None /\ session'[t] = s /\ s.binding = b
    BY <1>2, <1>3
  <1>5. s # None
    <2>1. f \in Forms /\ epoch \in Nat /\ 0 \in Nat
      BY <1>3 DEF TypeOK
    <2>2. s \in [form : Forms, binding : Bindings, seen : Nat, tag : Nat]
      BY <2>1
    <2>3. QED
      BY <2>2, MarkersAssumption
  <1> HIDE DEF s
  <1>6. \A u \in Threads \ {t} : Untouched(u)
    BY <1>2, <1>3 DEF Untouched
  <1>7. Asks(t) = "nothing" /\ Asks(t)' = "binding"
    BY <1>2, <1>4 DEF Asks, Idle
  <1>8. Given(t)' = <<b, "once">> /\ Binds(t)' = b /\ Gives(t)' = None
    BY <1>4, <1>5, <1>7 DEF Given, Binds, Gives
  <1>9. Sees
    BY <1>6, <1>7, <1>8, UntouchedUnmoved, AskSeen
  <1>10. ValueOK(t)'
    BY <1>4 DEF ValueOK
  <1>11. QED
    BY <1>6, <1>9, <1>10, UntouchedUnmoved DEF SInv

\* A caller has a state it laid evaluated.
LEMMA MainSees ==
    ASSUME SInv, NEW t \in Threads, Main(t)
    PROVE  Sees /\ \A u \in Threads : ValueOK(u)'
  <1>1. PICK g \in forms :
          /\ call' = [call EXCEPT ![t] = g]
          /\ IF epoch # session[t].seen
             THEN Opens(t, g, session[t].binding)
             ELSE pc' = [pc EXCEPT ![t] = "run"] /\ UNCHANGED session
    BY DEF Main
  <1>2. Idle(t) /\ session[t] # None /\ out' = [out EXCEPT ![t] = None] /\ todo' = todo
    BY DEF Main
  <1>3. /\ TypeOK /\ pc \in [Threads -> {"idle", "forming", "variant", "index", "choose", "made", "run"}]
        /\ call \in [Threads -> Forms \cup {None}]
        /\ session \in [Threads -> Sessions \cup {None}]
        /\ out \in [Threads -> Bindings \cup {Garbage, None}]
        /\ g \in Forms /\ g # None /\ epoch \in Nat
    BY MarkersAssumption DEF SInv, IInv, TypeOK
  <1> DEFINE b == session[t].binding
             s == [form |-> g, binding |-> b, seen |-> epoch, tag |-> 0]
  <1>4. b \in Bindings
    BY <1>2, <1>3 DEF Sessions
  <1>5. s # None /\ s.binding = b
    <2>1. s \in [form : Forms, binding : Bindings, seen : Nat, tag : Nat]
      BY <1>3, <1>4
    <2>2. QED
      BY <2>1, MarkersAssumption
  <1>6. /\ call'[t] = g /\ out'[t] = None /\ pc'[t] \in {"variant", "run"}
        /\ session'[t] # None /\ session'[t].binding = b
        /\ \A u \in Threads \ {t} : pc'[u] = pc[u] /\ session'[u] = session[u]
    <2>1. CASE epoch # session[t].seen
      <3>1. session' = [session EXCEPT ![t] = s] /\ pc' = [pc EXCEPT ![t] = "variant"]
        BY <1>1, <2>1 DEF Opens
      <3> HIDE DEF s
      <3>2. QED
        BY <1>1, <1>2, <1>3, <1>5, <3>1
    <2>2. CASE epoch = session[t].seen
      BY <1>1, <1>2, <1>3, <2>2
    <2>3. QED
      BY <2>1, <2>2
  <1> HIDE DEF s
  <1>7. \A u \in Threads \ {t} : Untouched(u)
    BY <1>1, <1>2, <1>3, <1>6 DEF Untouched
  <1>8. Asks(t) = "nothing" /\ Asks(t)' = "value"
    BY <1>2, <1>3, <1>6 DEF Asks, Idle
  <1>9. Given(t)' = <<b, "once">> /\ Binds(t)' = b /\ Binds(t) = b /\ Gives(t)' = None
    BY <1>2, <1>6, <1>8 DEF Given, Binds, Gives
  <1> HIDE DEF b
  <1>10. Sees
    BY <1>4, <1>7, <1>8, <1>9, UntouchedUnmoved, AskSeen
  <1>11. ValueOK(t)'
    BY <1>6 DEF ValueOK
  <1>12. QED
    BY <1>7, <1>10, <1>11, UntouchedUnmoved DEF SInv

\* A prolog goes on, or lays the state: that is all a binding asks for.
LEMMA GoesOnSees ==
    ASSUME SInv, NEW t \in Threads, pc[t] \in {"variant", "index", "choose", "made"},
           \A u \in Threads \ {t} : Untouched(u), UNCHANGED <<call, out>>,
           \/ \E v \in Nat : Lays(t, v) /\ todo'[t] = <<>>
           \/ pc'[t] \in {"index", "choose", "made"} /\ session'[t] = session[t]
    PROVE  Sees /\ \A u \in Threads : ValueOK(u)'
  <1>1. /\ TypeOK /\ CallOK(t) /\ ValueOK(t)
        /\ pc \in [Threads -> {"idle", "forming", "variant", "index", "choose", "made", "run"}]
        /\ session \in [Threads -> Sessions \cup {None}]
    BY DEF SInv, IInv, TypeOK
  <1>2. session[t] \in Sessions /\ session[t] # None /\ out[t] = None /\ out'[t] = None
    BY <1>1, MarkersAssumption DEF CallOK, ValueOK, TypeOK, Sessions
  <1>3. Asks(t) = IF call[t] = None THEN "binding" ELSE "value"
    BY DEF Asks, Idle
  <1>4. Gives(t) = None /\ Gives(t)' = None
    BY <1>2 DEF Gives
  <1>5. CASE pc'[t] \in {"index", "choose", "made"} /\ session'[t] = session[t]
    <2>1. Asks(t)' = Asks(t)
      BY <1>3, <1>5 DEF Asks, Idle
    <2>2. Unmoved(t) /\ ValueOK(t)'
      BY <1>2, <1>4, <1>5, <2>1 DEF Unmoved, Given, Binds, ValueOK
    <2>3. QED
      BY <2>2, UntouchedUnmoved, Unseen DEF SInv
  <1>6. ASSUME NEW v \in Nat, Lays(t, v), todo'[t] = <<>>
        PROVE  Sees /\ \A u \in Threads : ValueOK(u)'
    <2>1. /\ session'[t] = [session[t] EXCEPT !.tag = v]
          /\ pc'[t] = IF call[t] = None THEN "idle" ELSE "run"
      BY <1>1, <1>6 DEF Lays
    <2>2. session'[t].binding = session[t].binding /\ session'[t] # None
      <3>1. session'[t].binding = session[t].binding
        BY <1>2, <2>1 DEF Sessions
      <3>2. session[t] \in [form : Forms, binding : Bindings, seen : Nat, tag : Nat]
        <4>1. forms \subseteq Forms /\ 0..epoch \subseteq Nat
          BY <1>1 DEF TypeOK
        <4>2. QED
          BY <1>2, <4>1 DEF Sessions
      <3>3. session'[t] \in [form : Forms, binding : Bindings, seen : Nat, tag : Nat]
        BY <2>1, <3>2
      <3>4. QED
        BY <3>1, <3>3, MarkersAssumption
    <2>3. Given(t)' = Given(t) /\ Binds(t)' = Binds(t)
      BY <1>2, <2>2 DEF Given, Binds
    <2>4. ValueOK(t)'
      BY <1>2, <1>6, <2>1 DEF ValueOK
    <2>5. CASE call[t] = None
      <3>1. Asks(t) = "binding" /\ Asks(t)' = "nothing"
        BY <1>3, <1>6, <2>1, <2>5 DEF Asks, Idle
      <3>2. Sees
        BY <1>4, <2>3, <3>1, UntouchedUnmoved, AnswerSeen
      <3>3. QED
        BY <2>4, <3>2, UntouchedUnmoved DEF SInv
    <2>6. CASE call[t] # None
      <3>1. Asks(t)' = Asks(t)
        BY <1>3, <2>1, <2>6 DEF Asks, Idle
      <3>2. Unmoved(t)
        BY <1>4, <2>3, <3>1 DEF Unmoved
      <3>3. QED
        BY <2>4, <3>2, UntouchedUnmoved, Unseen DEF SInv
    <2>7. QED
      BY <2>5, <2>6
  <1>7. QED
    BY <1>5, <1>6

\* A prolog's steps, to the state laid.
LEMMA ChoosingSees ==
    ASSUME SInv, NEW t \in Threads, LookUp(t) \/ Index(t) \/ Choose(t) \/ Made(t)
    PROVE  Sees /\ \A u \in Threads : ValueOK(u)'
  <1>1. /\ TypeOK /\ CallOK(t) /\ t \in Executors
        /\ pc \in [Threads -> {"idle", "forming", "variant", "index", "choose", "made", "run"}]
        /\ session \in [Threads -> Sessions \cup {None}]
        /\ todo \in [Executors -> Seq(Jobs)]
    BY Basics DEF SInv, IInv, TypeOK
  <1>2. \A u \in Threads : u \in Executors
    BY DEF Executors
  <1>3. UNCHANGED <<call, out>>
    BY DEF LookUp, Index, Choose, Made
  <1>4. pc[t] \in {"variant", "index", "choose", "made"} /\ todo[t] = <<>>
    BY <1>1 DEF LookUp, Index, Choose, Made, CallOK
  <1>5. /\ \/ \E v \in Nat : Lays(t, v) /\ todo' = todo
           \/ \E step \in {"index", "choose", "made"} :
                pc' = [pc EXCEPT ![t] = step] /\ session' = session
        /\ todo' = todo \/ \E job : todo' = [todo EXCEPT ![t] = <<job>>]
    <2>1. CASE LookUp(t)
      BY <2>1 DEF LookUp, Dispatches
    <2>2. CASE Index(t)
      <3>1. BuildJob(Form(t), Pattern(t)).form = Form(t)
        BY DEF BuildJob, Job
      <3>2. QED
        BY <2>2, <3>1 DEF Index, Dispatches
    <2>3. CASE Choose(t)
      <3>1. index[Pattern(t)] \in Nat
        <4>1. Pattern(t) \in DOMAIN index /\ index[Pattern(t)] # Building
          BY <1>1, <1>4, <2>3 DEF CallOK, Choose
        <4>2. QED
          BY <1>1, <4>1 DEF TypeOK
      <3>2. QED
        BY <2>3, <3>1 DEF Choose, Makes, Dispatches
    <2>4. CASE Made(t)
      <3>1. index[Pattern(t)] \in Nat
        <4>1. Pattern(t) \in DOMAIN index /\ index[Pattern(t)] # Building
          BY <1>1, <2>4 DEF CallOK, Made
        <4>2. QED
          BY <1>1, <4>1 DEF TypeOK
      <3>2. QED
        BY <2>4, <3>1 DEF Made
    <2>5. QED
      BY <2>1, <2>2, <2>3, <2>4
  <1>6. \A u \in Threads \ {t} : todo'[u] = todo[u]
    BY <1>1, <1>2, <1>5
  <1>7. CASE \E v \in Nat : Lays(t, v) /\ todo' = todo
    <2>1. \A u \in Threads \ {t} : Untouched(u)
      BY <1>1, <1>3, <1>6, <1>7 DEF Lays, Untouched
    <2>2. \E v \in Nat : Lays(t, v) /\ todo'[t] = <<>>
      BY <1>4, <1>7
    <2>3. QED
      BY <1>3, <1>4, <2>1, <2>2, GoesOnSees
  <1>8. CASE \E step \in {"index", "choose", "made"} :
               pc' = [pc EXCEPT ![t] = step] /\ session' = session
    <2>1. \A u \in Threads \ {t} : Untouched(u)
      BY <1>1, <1>3, <1>6, <1>8 DEF Untouched
    <2>2. pc'[t] \in {"index", "choose", "made"} /\ session'[t] = session[t]
      BY <1>1, <1>8
    <2>3. QED
      BY <1>3, <1>4, <2>1, <2>2, GoesOnSees
  <1>9. QED
    BY <1>5, <1>7, <1>8

\* A call done answers with the value at its state's binding.
LEMMA ValueAnswers ==
    ASSUME IInv, IInv', NEW t \in Threads, \A u \in Threads \ {t} : Unmoved(u),
           Asks(t) = "value", Asks(t)' = "nothing",
           out'[t] # None, session'[t] = session[t]
    PROVE  Sees
  <1>1. out'[t] = session'[t].binding /\ session'[t] # None
    <2>1. SessionOK(t)' /\ epoch' \in Nat /\ forms' \subseteq Forms
      BY DEF IInv, TypeOK
    <2>2. session'[t] \in [form : forms', binding : Bindings, seen : 0..epoch', tag : Nat]
          /\ out'[t] = session'[t].binding
      BY <2>1 DEF SessionOK, Sessions
    <2>3. session'[t] \in [form : Forms, binding : Bindings, seen : Nat, tag : Nat]
      <3>1. 0..epoch' \subseteq Nat
        BY <2>1
      <3>2. QED
        BY <2>1, <2>2, <3>1
    <2>4. QED
      BY <2>2, <2>3, MarkersAssumption
  <1>2. Given(t)' = Given(t) /\ Binds(t)' = Binds(t)
    BY DEF Given, Binds
  <1>3. Gives(t)' = Given(t)
    BY <1>1 DEF Gives, Given
  <1>4. QED
    BY <1>2, <1>3, AnswerSeen

\* A main phase gives its value, and is done where it has no code to make.
LEMMA RunSees ==
    ASSUME SInv, IInv', NEW t \in Threads, Run(t)
    PROVE  Sees /\ \A u \in Threads : ValueOK(u)'
  <1> DEFINE v == session[t].tag
             x == Value(bodies[v + 1], session[t].binding)
  <1>1. /\ TypeOK /\ CallOK(t) /\ ValueOK(t) /\ IInv
        /\ pc \in [Threads -> {"idle", "forming", "variant", "index", "choose", "made", "run"}]
        /\ out \in [Threads -> Bindings \cup {Garbage, None}]
        /\ todo \in [Executors -> Seq(Jobs)] /\ \A u \in Threads : u \in Executors
    BY Basics DEF SInv, IInv, TypeOK
  <1>2. /\ pc[t] = "run" /\ pc' = [pc EXCEPT ![t] = "idle"]
        /\ out' = [out EXCEPT ![t] = x] /\ UNCHANGED <<call, session>>
        /\ todo' = todo \/ \E job : todo' = [todo EXCEPT ![t] = <<job>>]
    BY DEF Run, Makes, Dispatches
  <1>3. /\ session[t] \in Sessions /\ call[t] # None /\ out[t] = None
    BY <1>1, <1>2, MarkersAssumption DEF CallOK, ValueOK
  <1>4. x # None
    BY <1>3, MarkersAssumption DEF Value, Sessions
  <1> HIDE DEF x
  <1>5. pc'[t] = "idle" /\ out'[t] = x
    BY <1>1, <1>2
  <1>6. \A u \in Threads \ {t} : Untouched(u)
    BY <1>1, <1>2 DEF Untouched
  <1>7. Asks(t) = "value" /\ Gives(t) = None
    BY <1>2, <1>3 DEF Asks, Idle, Gives
  <1>8. ValueOK(t)'
    BY <1>2, <1>3, <1>4, <1>5 DEF ValueOK
  <1>9. Sees
    <2>1. CASE todo'[t] = <<>>
      <3>1. Asks(t)' = "nothing"
        BY <1>5, <2>1 DEF Asks, Idle
      <3>2. QED
        BY <1>1, <1>2, <1>4, <1>5, <1>6, <1>7, <3>1, UntouchedUnmoved, ValueAnswers
    <2>2. CASE todo'[t] # <<>>
      <3>1. Asks(t)' = "value"
        BY <1>2, <1>3, <1>5, <2>2 DEF Asks, Idle
      <3>2. Unmoved(t)
        BY <1>2, <1>7, <3>1 DEF Unmoved, Given, Binds, Gives
      <3>3. QED
        BY <1>6, <3>2, UntouchedUnmoved, Unseen
    <2>3. QED
      BY <2>1, <2>2
  <1>10. QED
    BY <1>6, <1>8, <1>9, UntouchedUnmoved DEF SInv

\* A form being made is seen by nobody.
LEMMA FormingSees ==
    ASSUME SInv, NEW t \in Threads, NewForm(t) \/ Formed(t)
    PROVE  Sees /\ \A u \in Threads : ValueOK(u)'
  <1>1. /\ TypeOK /\ t \in Executors
        /\ pc \in [Threads -> {"idle", "forming", "variant", "index", "choose", "made", "run"}]
        /\ call \in [Threads -> Forms \cup {None}]
        /\ todo \in [Executors -> Seq(Jobs)] /\ \A u \in Threads : u \in Executors
    BY Basics DEF SInv, IInv, TypeOK
  <1>2. UNCHANGED <<session, out>>
    BY DEF NewForm, Formed
  <1>3. CASE NewForm(t)
    <2>1. /\ Idle(t) /\ pc' = [pc EXCEPT ![t] = "forming"]
          /\ \E f \in Forms : call' = [call EXCEPT ![t] = f]
          /\ \E jobs : todo' = [todo EXCEPT ![t] = jobs]
      <3>1. PICK f \in Forms \ (forms \cup {call[u] : u \in {u \in Threads : pc[u] = "forming"}}) :
              LET n == IF f \notin Compiles THEN 0
                       ELSE IF Len(bodies) < Limit[f] THEN Len(bodies) ELSE Limit[f]
              IN  /\ call' = [call EXCEPT ![t] = f]
                  /\ todo' = [todo EXCEPT ![t] = [k \in 1..n |-> MakeJob(f, k - 1)]]
        BY <1>3 DEF NewForm
      <3>2. \E jobs : todo' = [todo EXCEPT ![t] = jobs]
        BY <3>1
      <3>3. QED
        BY <1>3, <3>1, <3>2 DEF NewForm
    <2>2. pc'[t] = "forming" /\ pc[t] = "idle" /\ todo[t] = <<>>
      BY <1>1, <2>1 DEF Idle
    <2>3. \A u \in Threads \ {t} : Untouched(u)
      BY <1>1, <1>2, <2>1 DEF Untouched
    <2>4. Unmoved(t) /\ ValueOK(t)'
      BY <1>2, <2>2 DEF Unmoved, Asks, Idle, Given, Binds, Gives, ValueOK
    <2>5. QED
      BY <2>3, <2>4, UntouchedUnmoved, Unseen DEF SInv
  <1>4. CASE Formed(t)
    <2>1. /\ pc[t] = "forming" /\ todo[t] = <<>> /\ pc' = [pc EXCEPT ![t] = "idle"]
          /\ UNCHANGED <<todo, call>>
      BY <1>4 DEF Formed
    <2>2. pc'[t] = "idle" /\ todo'[t] = <<>>
      BY <1>1, <2>1
    <2>3. \A u \in Threads \ {t} : Untouched(u)
      BY <1>1, <1>2, <2>1 DEF Untouched
    <2>4. Unmoved(t) /\ ValueOK(t)'
      BY <1>2, <2>1, <2>2 DEF Unmoved, Asks, Idle, Given, Binds, Gives, ValueOK
    <2>5. QED
      BY <2>3, <2>4, UntouchedUnmoved, Unseen DEF SInv
  <1>5. QED
    BY <1>3, <1>4

\* An executor works on its own jobs.
LEMMA WorkAlone ==
    ASSUME TypeOK, NEW e \in Executors, Work(e)
    PROVE  /\ UNCHANGED <<pc, call, session, out>> /\ todo[e] # <<>>
           /\ \A d \in Executors : d # e => todo'[d] = todo[d]
  <1>1. todo \in [Executors -> Seq(Jobs)]
    BY DEF TypeOK
  <1>2. UNCHANGED <<pc, call, session, out>>
    BY DEF Work, FindSelects, CheckRoom, Keep, File, Look, Compile, Conds, Announce
  <1>3. todo[e] # <<>>
    BY DEF Work, FindSelects, CheckRoom, Keep, File, Look, Compile, Conds, Announce, At
  <1>4. \E jobs : todo' = [todo EXCEPT ![e] = jobs]
    <2>1. \A step : Goes(e, step) => \E jobs : todo' = [todo EXCEPT ![e] = jobs]
      BY DEF Goes
    <2>2. Ends(e) => \E jobs : todo' = [todo EXCEPT ![e] = jobs]
      BY <2>1 DEF Ends
    <2>3. CASE Keep(e)
      BY <2>3 DEF Keep
    <2>4. CASE Announce(e)
      BY <2>4 DEF Announce
    <2>5. CASE Look(e)
      BY <2>1, <2>2, <2>5 DEF Look
    <2>6. CASE CheckRoom(e)
      BY <2>1, <2>6 DEF CheckRoom
    <2>7. CASE FindSelects(e) \/ File(e) \/ Compile(e) \/ Conds(e)
      BY <2>2, <2>7 DEF FindSelects, File, Compile, Conds
    <2>8. QED
      BY <2>3, <2>4, <2>5, <2>6, <2>7 DEF Work
  <1>5. QED
    BY <1>1, <1>2, <1>3, <1>4

\* A caller's call is done when what its main phase asked for is made; what
\* the background does is not seen.
LEMMA WorkSees ==
    ASSUME SInv, IInv', NEW e \in Executors, Work(e)
    PROVE  Sees /\ \A u \in Threads : ValueOK(u)'
  <1>1. /\ TypeOK /\ IInv /\ \A u \in Threads : u \in Executors
    BY Basics DEF SInv, IInv
  <1>2. /\ UNCHANGED <<pc, call, session, out>> /\ todo[e] # <<>>
        /\ \A d \in Executors : d # e => todo'[d] = todo[d]
    BY <1>1, WorkAlone
  <1>3. \A u \in Threads \ {e} : Untouched(u)
    BY <1>1, <1>2 DEF Untouched
  <1>4. CASE e \notin Threads
    BY <1>3, <1>4, UntouchedUnmoved, Unseen DEF SInv
  <1>5. CASE e \in Threads
    <2>1. ValueOK(e) /\ ValueOK(e)'
      BY <1>2, <1>5 DEF SInv, ValueOK
    <2>2. CASE pc[e] = "idle" /\ todo'[e] = <<>>
      <3>1. out[e] # None /\ Asks(e) = "value" /\ Asks(e)' = "nothing"
        BY <1>2, <2>1, <2>2 DEF ValueOK, Asks, Idle
      <3>2. Sees
        BY <1>1, <1>2, <1>3, <1>5, <3>1, UntouchedUnmoved, ValueAnswers
      <3>3. QED
        BY <1>3, <2>1, <3>2, UntouchedUnmoved DEF SInv
    <2>3. CASE ~(pc[e] = "idle" /\ todo'[e] = <<>>)
      <3>1. Asks(e)' = Asks(e)
        BY <1>2, <2>3 DEF Asks, Idle
      <3>2. Unmoved(e)
        BY <1>2, <3>1 DEF Unmoved, Given, Binds, Gives
      <3>3. QED
        BY <1>3, <2>1, <3>2, UntouchedUnmoved, Unseen DEF SInv
    <2>4. QED
      BY <2>2, <2>3
  <1>6. QED
    BY <1>4, <1>5

\* Every step is one its callers may see, and keeps what their steps rely on.
LEMMA StepSees ==
    ASSUME SInv, [Next]_vars
    PROVE  SInv' /\ Sees
  <1>1. IInv'
    BY NextOK DEF SInv
  <1>2. ASSUME NEW t \in Threads, Prolog(t) \/ Main(t) \/ NewForm(t) \/ Step(t)
        PROVE  Sees /\ \A u \in Threads : ValueOK(u)'
    BY <1>1, <1>2, PrologSees, MainSees, FormingSees, ChoosingSees, RunSees DEF Step
  <1>3. ASSUME NEW e \in Executors, Work(e)
        PROVE  Sees /\ \A u \in Threads : ValueOK(u)'
    BY <1>1, <1>3, WorkSees
  <1>4. ASSUME Take \/ Rests \/ UNCHANGED vars
        PROVE  Sees /\ \A u \in Threads : ValueOK(u)'
    <2>1. /\ UNCHANGED <<pc, call, session, out>>
          /\ \A u \in Threads : todo'[u] = todo[u]
      <3>1. CASE Take
        <4>1. /\ todo \in [Executors -> Seq(Jobs)]
              /\ \A u \in Threads : u \in Executors /\ u # Worker
          BY Basics DEF SInv, TypeOK
        <4>2. UNCHANGED <<pc, call, session, out>> /\ \E jobs : todo' = [todo EXCEPT ![Worker] = jobs]
          BY <3>1 DEF Take
        <4>3. QED
          BY <4>1, <4>2
      <3>2. CASE UNCHANGED vars
        BY <3>2 DEF vars
      <3>3. QED
        BY <1>4, <3>1, <3>2 DEF Rests
    <2>2. \A u \in Threads : Untouched(u)
      BY <2>1 DEF Untouched
    <2>3. QED
      BY <2>2, UntouchedUnmoved, Unseen DEF SInv
  <1>5. Sees /\ \A u \in Threads : ValueOK(u)'
    BY <1>2, <1>3, <1>4 DEF Next
  <1>6. QED
    BY <1>1, <1>5 DEF SInv

\* At first nobody has asked for anything.
LEMMA InitSeen ==
    ASSUME Init
    PROVE  SInv /\ Promise!Init
  <1>1. IInv /\ \A t \in Threads : t \in Executors
    BY InitOK DEF Executors
  <1>2. \A t \in Threads : pc[t] = "idle" /\ todo[t] = <<>> /\ session[t] = None /\ out[t] = None
    BY <1>1, Zenon DEF Init
  <1>3. \A t \in Threads : ValueOK(t)
    BY <1>2, Zenon DEF ValueOK
  <1>4. AnyBinding \in Bindings
    BY FormsAssumption DEF AnyBinding
  <1>5. \A t \in Threads : /\ Asks(t) = "nothing" /\ Given(t) = <<AnyBinding, "once">>
                           /\ Binds(t) = None /\ Gives(t) = None
    BY <1>2, Zenon DEF Asks, Idle, Given, Binds, Gives
  <1>6. [t \in Threads |-> Given(t)] \in [Threads -> Promise!Inputs]
    BY <1>4, <1>5 DEF Promise!Inputs
  <1>7. /\ [t \in Threads |-> Asks(t)] = [t \in Threads |-> "nothing"]
        /\ [t \in Threads |-> Binds(t)] = [t \in Threads |-> None]
        /\ [t \in Threads |-> Gives(t)] = [t \in Threads |-> None]
    BY <1>5
  <1>8. Promise!Init
    BY <1>6, <1>7 DEF Promise!Init
  <1>9. QED
    BY <1>1, <1>3, <1>8 DEF SInv

\* A body specialized is Evaluator, the promise an Adaptive keeps: instances
\* are bound and evaluated and given the value at their binding, whichever
\* form ran, whatever was built, compiled, shared or announced meanwhile, and
\* whichever forms were made (variant.rs:1-30, 509-514).
THEOREM InstancesServed ==
    Spec => ServesInstances
  <1>1. Init => SInv /\ Promise!Init
    BY InitSeen
  <1>2. SInv /\ [Next]_vars => SInv' /\ [Promise!Next]_(Promise!vars)
    BY StepSees DEF Sees
  <1>3. QED
    BY <1>1, <1>2, PTL DEF Spec, ServesInstances

===============================================================================
