---------------------------- MODULE PromiseProofs ----------------------------
(***************************************************************************)
(* An Adaptive keeps its promise, for any threads, inputs and policies:    *)
(* what its callers see is a behaviour of Evaluator, each step of a call   *)
(* or of the background one step there or none.  That every call is        *)
(* answered, the promise's fairness, is left to the model checker.  What   *)
(* a call's steps rely on for that also says what its flips teach.         *)
(***************************************************************************)
EXTENDS AdaptiveProofs

\* What a step may be for those who call.
Sees == [Promise!Next]_(Promise!vars)

\* What a call's step relies on beyond the inductive invariant: a session's
\* main pass takes no lock of a prolog, what is noted has its result, and a
\* flip is one of the episode's specialization at the call's inputs.
PassOK(t) ==
    /\ pc[t] \in {"rung", "locked", "full"} => call[t] # "main"
    /\ pc[t] \in {"note", "noted"} => out[t] # None
    /\ pc[t] \in {"flip", "flipped"} => ep[t].kind # "full" /\ ~Holds(ep[t].sp, arg[t])

SInv == IInv /\ \A t \in Threads : PassOK(t)

\* What no caller sees.
LEMMA Unseen ==
    ASSUME UNCHANGED <<arg, bound>>,
           \A u \in Threads : Asked(u)' = Asked(u) /\ (pc'[u] = "idle" <=> pc[u] = "idle")
                              /\ (pc[u] = "idle" => out'[u] = out[u])
    PROVE  Sees
  <1>1. [u \in Threads |-> Asked(u)]' = [u \in Threads |-> Asked(u)]
    OBVIOUS
  <1>2. [u \in Threads |-> IF pc[u] = "idle" THEN out[u] ELSE None]'
        = [u \in Threads |-> IF pc[u] = "idle" THEN out[u] ELSE None]
    OBVIOUS
  <1>3. QED
    BY <1>1, <1>2 DEF Sees, Promise!vars

\* A call that goes on is not seen.
LEMMA GoesOnUnseen ==
    ASSUME TypeOK, NEW t \in Threads, pc[t] # "idle", NEW step \in Steps \ {"idle"},
           pc' = [pc EXCEPT ![t] = step],
           \A u \in Threads \ {t} : call'[u] = call[u] /\ out'[u] = out[u],
           call'[t] = "prolog" <=> call[t] = "prolog",
           UNCHANGED <<arg, bound>>
    PROVE  Sees
  <1>1. /\ pc'[t] # "idle" /\ \A u \in Threads \ {t} : pc'[u] = pc[u]
    BY DEF TypeOK
  <1>2. \A u \in Threads : Asked(u)' = Asked(u)
    BY <1>1 DEF Asked
  <1>3. QED
    BY <1>1, <1>2, Unseen

\* A call that returns answers with its value, or has bound a session.
LEMMA ReturnAnswers ==
    ASSUME IInv, IInv', NEW t \in Threads, pc[t] # "idle", Return(t),
           UNCHANGED <<arg, bound>>,
           \A u \in Threads \ {t} : out'[u] = out[u],
           call[t] # "reprolog" => (out'[t] = None <=> call[t] = "prolog")
    PROVE  Sees
  <1>1. TypeOK /\ CallOK(t)'
    BY DEF IInv
  <1>2. CASE call[t] = "reprolog"
    <2>1. pc' = [pc EXCEPT ![t] = "pass"] /\ call' = [call EXCEPT ![t] = "main"]
      BY <1>1, <1>2, ReturnOK
    <2>2. \A u \in Threads \ {t} : call'[u] = call[u] /\ out'[u] = out[u]
      BY <1>1, <2>1 DEF TypeOK
    <2>3. call'[t] = "main"
      BY <1>1, <2>1 DEF TypeOK
    <2>4. "pass" \in Steps \ {"idle"}
      BY DEF Steps
    <2>5. QED
      BY <1>1, <1>2, <2>1, <2>2, <2>3, <2>4, GoesOnUnseen
  <1>3. CASE call[t] # "reprolog"
    <2>1. pc' = [pc EXCEPT ![t] = "idle"] /\ call' = call
      BY <1>1, <1>3, ReturnOK
    <2>2. pc'[t] = "idle" /\ \A u \in Threads \ {t} : pc'[u] = pc[u]
      BY <1>1, <2>1 DEF TypeOK
    <2>3. out'[t] = IF call[t] = "prolog" THEN None ELSE arg[t]
      BY <1>1, <1>3, <2>2 DEF CallOK
    <2> DEFINE asked == [u \in Threads |-> Asked(u)]
               answer == [u \in Threads |-> IF pc[u] = "idle" THEN out[u] ELSE None]
    <2>4. asked[t] = IF call[t] = "prolog" THEN "binding" ELSE "value"
      BY DEF Asked
    <2>5. asked' = [asked EXCEPT ![t] = "nothing"]
      BY <2>1, <2>2 DEF Asked
    <2>6. answer' = [answer EXCEPT ![t] = IF asked[t] = "value" THEN arg[t] ELSE None]
      BY <2>2, <2>3, <2>4
    <2>7. Promise!Answer(t)
      BY <2>4, <2>5, <2>6 DEF Promise!Answer
    <2>8. QED
      BY <2>7 DEF Sees, Promise!Next
  <1>4. QED
    BY <1>2, <1>3

\* A caller asks.
LEMMA BeginSees ==
    ASSUME IInv, NEW t \in Threads, Begin(t)
    PROVE  Sees /\ PassOK(t)'
  <1>1. PICK c \in CallKinds, i \in Inputs :
          /\ c = "main" => bound[t] = i[1]
          /\ Start(t, c)
          /\ arg' = [arg EXCEPT ![t] = i]
          /\ bound' = [bound EXCEPT ![t] = IF c = "eval" THEN None ELSE i[1]]
    BY DEF Begin
  <1>2. TypeOK /\ pc[t] = "idle" /\ out' = [out EXCEPT ![t] = None]
    BY DEF IInv, Begin, Out
  <1>3. c \in {"eval", "prolog", "main"}
    BY PolicyAssumption
  <1>4. /\ call' = [call EXCEPT ![t] = c]
        /\ \E step \in {"wait", IF c = "main" THEN "main" ELSE "rung"} :
              pc' = [pc EXCEPT ![t] = step]
    BY <1>1, <1>2, <1>3, StartOK DEF Calls
  <1>5. /\ pc'[t] \in {"wait", IF c = "main" THEN "main" ELSE "rung"} /\ call'[t] = c
        /\ \A u \in Threads \ {t} : /\ pc'[u] = pc[u] /\ call'[u] = call[u]
                                    /\ out'[u] = out[u]
    BY <1>2, <1>4 DEF TypeOK
  <1> DEFINE what == IF c = "prolog" THEN "binding" ELSE "value"
             asked == [u \in Threads |-> Asked(u)]
             answer == [u \in Threads |-> IF pc[u] = "idle" THEN out[u] ELSE None]
  <1>6. asked[t] = "nothing"
    BY <1>2 DEF Asked
  <1>7. asked' = [asked EXCEPT ![t] = what]
    BY <1>3, <1>5 DEF Asked
  <1>8. answer' = [answer EXCEPT ![t] = None]
    BY <1>3, <1>5
  <1>9. Promise!Ask(t, what, i, IF c = "eval" THEN None ELSE i[1])
    BY <1>1, <1>6, <1>7, <1>8 DEF Promise!Ask
  <1>10. i \in Promise!Inputs
    BY DEF Promise!Inputs, Inputs
  <1>11. Promise!Eval(t) \/ Promise!Bind(t) \/ Promise!EvalSession(t)
    <2>1. CASE c = "eval"
      BY <1>9, <1>10, <2>1 DEF Promise!Eval
    <2>2. CASE c = "prolog"
      BY <1>9, <1>10, <2>2 DEF Promise!Bind
    <2>3. CASE c = "main"
      <3>1. bound[t] = i[1] /\ i[1] \in Bindings /\ i[2] \in Points /\ i = <<i[1], i[2]>>
        BY <1>1, <2>3 DEF Inputs
      <3>2. bound[t] # None
        BY <3>1, MarkerAssumption
      <3>3. Promise!Ask(t, "value", <<bound[t], i[2]>>, bound[t])
        <4>1. <<bound[t], i[2]>> = i /\ what = "value"
              /\ (IF c = "eval" THEN None ELSE i[1]) = bound[t]
          BY <2>3, <3>1
        <4> HIDE DEF what
        <4>2. Promise!Ask(t, "value", i, bound[t])
          BY <1>9, <4>1 DEF Promise!Ask
        <4>3. QED
          BY <4>1, <4>2
      <3>4. QED
        BY <3>1, <3>2, <3>3 DEF Promise!EvalSession
    <2>4. QED
      BY <1>3, <2>1, <2>2, <2>3
  <1>12. Sees
    BY <1>11 DEF Sees, Promise!Next
  <1>13. PassOK(t)'
    BY <1>3, <1>5 DEF PassOK
  <1>14. QED
    BY <1>12, <1>13

\* A call's steps before its rung.
LEMMA RungSees ==
    ASSUME SInv, NEW t \in Threads, Wake(t) \/ TryLock(t) \/ FlipLock(t)
    PROVE  Sees /\ PassOK(t)'
  <1>1. TypeOK /\ PassOK(t)
    BY DEF SInv, IInv
  <1>2. ASSUME NEW step \in Steps \ {"idle"}, pc' = [pc EXCEPT ![t] = step], pc[t] # "idle",
               UNCHANGED <<call, arg, bound, out>>
        PROVE  Sees
    BY <1>1, <1>2, GoesOnUnseen
  <1>3. CASE Wake(t)
    <2>1. /\ pc[t] = "wait" /\ UNCHANGED <<call, arg, bound, out>>
          /\ pc' = [pc EXCEPT ![t] = IF call[t] = "main" THEN "main" ELSE "rung"]
      BY <1>3 DEF Wake, Enter, Goto
    <2>2. pc'[t] = IF call[t] = "main" THEN "main" ELSE "rung"
      BY <1>1, <2>1 DEF TypeOK
    <2>3. (IF call[t] = "main" THEN "main" ELSE "rung") \in Steps \ {"idle"}
      BY DEF Steps
    <2>4. PassOK(t)'
      BY <2>1, <2>2 DEF PassOK
    <2>5. QED
      BY <1>2, <2>1, <2>3, <2>4
  <1>4. CASE TryLock(t)
    <2>1. /\ pc[t] = "rung" /\ UNCHANGED <<call, arg, bound, out>>
          /\ \E step \in {"locked", "full"} : pc' = [pc EXCEPT ![t] = step]
      BY <1>4 DEF TryLock, Goto
    <2>2. PICK step \in {"locked", "full"} : pc' = [pc EXCEPT ![t] = step]
      BY <2>1
    <2>3. pc'[t] = step /\ step \in Steps \ {"idle"}
      BY <1>1, <2>2 DEF TypeOK, Steps
    <2>4. PassOK(t)'
      BY <1>1, <2>1, <2>3 DEF PassOK
    <2>5. QED
      BY <1>2, <2>1, <2>2, <2>3, <2>4
  <1>5. CASE FlipLock(t)
    <2>1. /\ pc[t] = "flip" /\ UNCHANGED <<call, arg, bound, out, ep>>
          /\ pc' = [pc EXCEPT ![t] = "flipped"]
      BY <1>5 DEF FlipLock, Goto
    <2>2. pc'[t] = "flipped" /\ "flipped" \in Steps \ {"idle"}
      BY <1>1, <2>1 DEF TypeOK, Steps
    <2>3. PassOK(t)'
      BY <1>1, <2>1, <2>2 DEF PassOK, Holds
    <2>4. QED
      BY <1>2, <2>1, <2>2, <2>3
  <1>6. QED
    BY <1>3, <1>4, <1>5

\* The lock given back, the full tape is to serve.
LEMMA ToFullSees ==
    ASSUME SInv, NEW t \in Threads, pc[t] = "locked", NEW st, ToFull(t, st),
           UNCHANGED <<arg, bound>>
    PROVE  Sees /\ PassOK(t)'
  <1>1. /\ TypeOK /\ PassOK(t) /\ UNCHANGED <<call, out>> /\ pc' = [pc EXCEPT ![t] = "full"]
    BY DEF SInv, IInv, ToFull, Goto
  <1>2. pc'[t] = "full" /\ "full" \in Steps \ {"idle"}
    BY <1>1 DEF TypeOK, Steps
  <1>3. Sees
    BY <1>1, <1>2, GoesOnUnseen
  <1>4. PassOK(t)'
    BY <1>1, <1>2 DEF PassOK
  <1>5. QED
    BY <1>3, <1>4

\* A call that returns is at rest, or at its session's pass.
LEMMA ReturnPassOK ==
    ASSUME TypeOK, NEW t \in Threads, Return(t)
    PROVE  PassOK(t)'
  <1>1. pc'[t] \in {"idle", "pass"}
    BY ReturnOK DEF TypeOK
  <1>2. QED
    BY <1>1 DEF PassOK

\* A value is no marker.
LEMMA ValueTold ==
    ASSUME NEW form, NEW i \in Inputs
    PROVE  Value(form, i) # None
  BY MarkerAssumption DEF Value

\* A whole evaluation returns a value, or falls to the full tape.
LEMMA EvalSees ==
    ASSUME SInv, IInv', NEW t \in Threads, EvalSpec(t)
    PROVE  Sees /\ PassOK(t)'
  <1>1. /\ TypeOK /\ IInv /\ pc[t] = "locked" /\ call[t] = "eval" /\ UNCHANGED <<arg, bound>>
        /\ arg[t] \in Inputs
    BY DEF SInv, IInv, TypeOK, EvalSpec
  <1>2. ASSUME NEW v, v # None, Out(t, v), Return(t)
        PROVE  Sees /\ PassOK(t)'
    <2>1. out'[t] = v /\ \A u \in Threads \ {t} : out'[u] = out[u]
      BY <1>1, <1>2 DEF Out, TypeOK
    <2>2. QED
      BY <1>1, <1>2, <2>1, ReturnAnswers, ReturnPassOK
  <1>3. arg[t] # None
    BY <1>1, MarkerAssumption
  <1>4. ASSUME NEW st, EvalInterpreted(t, st, arg[t])
        PROVE  Sees /\ PassOK(t)'
    <2>1. CASE ToFull(t, st)
      BY <1>1, <2>1, ToFullSees
    <2>2. CASE Out(t, Value(st.spec, arg[t])) /\ Return(t)
      BY <1>1, <1>2, <2>2, ValueTold
    <2>3. CASE Out(t, arg[t]) /\ Return(t)
      BY <1>2, <1>3, <2>3
    <2>4. QED
      BY <1>4, <2>1, <2>2, <2>3 DEF EvalInterpreted
  <1> DEFINE st == [cache EXCEPT !.choices = Ran(@, 1)]
  <1>5. \/ ToFull(t, cache)
        \/ Out(t, Value(st.native.form, arg[t])) /\ Return(t)
        \/ EvalInterpreted(t, DropNative(st), arg[t])
    BY DEF EvalSpec
  <1> HIDE DEF st
  <1>6. CASE ToFull(t, cache)
    BY <1>1, <1>6, ToFullSees
  <1>7. CASE Out(t, Value(st.native.form, arg[t])) /\ Return(t)
    BY <1>1, <1>2, <1>7, ValueTold
  <1>8. CASE EvalInterpreted(t, DropNative(st), arg[t])
    BY <1>4, <1>8
  <1>9. QED
    BY <1>5, <1>6, <1>7, <1>8

\* A prolog returns nothing.
LEMMA PrologSees ==
    ASSUME SInv, IInv', NEW t \in Threads, SpecProlog(t)
    PROVE  Sees /\ PassOK(t)'
  <1>1. /\ TypeOK /\ IInv /\ pc[t] = "locked" /\ call[t] # "eval" /\ UNCHANGED <<arg, bound>>
        /\ PassOK(t) /\ CallOK(t) /\ call[t] \in {"prolog", "reprolog"}
    BY DEF SInv, IInv, TypeOK, SpecProlog, PassOK
  <1>2. ASSUME Return(t), out' = out
        PROVE  Sees /\ PassOK(t)'
    <2>1. out'[t] = None
      BY <1>1, <1>2 DEF CallOK
    <2>2. QED
      BY <1>1, <1>2, <2>1, ReturnAnswers, ReturnPassOK
  <1>3. (Return(t) /\ out' = out) \/ \E st : ToFull(t, st)
    BY DEF SpecProlog, Enters
  <1>4. CASE \E st : ToFull(t, st)
    BY <1>1, <1>4, ToFullSees
  <1>5. QED
    BY <1>2, <1>3, <1>4

\* The full tape gives its value, or binds a session.
LEMMA RunFullSees ==
    ASSUME SInv, IInv', NEW t \in Threads, RunFull(t)
    PROVE  Sees /\ PassOK(t)'
  <1>1. /\ TypeOK /\ IInv /\ pc[t] = "full" /\ UNCHANGED <<arg, bound>> /\ Return(t)
        /\ out' = IF call[t] = "eval" THEN [out EXCEPT ![t] = Value(Full, arg[t])] ELSE out
        /\ PassOK(t) /\ CallOK(t) /\ call[t] \in {"eval", "prolog", "reprolog"}
        /\ arg[t] \in Inputs
    BY DEF SInv, IInv, TypeOK, RunFull, PassOK
  <1>2. out[t] = None
    BY <1>1 DEF CallOK
  <1>3. Value(Full, arg[t]) # None
    BY <1>1, ValueTold
  <1>4. /\ \A u \in Threads \ {t} : out'[u] = out[u]
        /\ out'[t] = IF call[t] = "eval" THEN Value(Full, arg[t]) ELSE None
    BY <1>1, <1>2 DEF TypeOK
  <1>5. QED
    BY <1>1, <1>3, <1>4, ReturnAnswers, ReturnPassOK

\* A session's pass begins, or its prolog runs again first.
LEMMA MainSees ==
    ASSUME SInv, NEW t \in Threads, Main(t)
    PROVE  Sees /\ PassOK(t)'
  <1>1. /\ TypeOK /\ pc[t] = "main" /\ call[t] = "main" /\ UNCHANGED <<arg, bound, out>>
    BY DEF SInv, IInv, CallOK, Main
  <1>2. CASE Start(t, "reprolog")
    <2>1. /\ call' = [call EXCEPT ![t] = "reprolog"]
          /\ \E step \in {"wait", "rung"} : pc' = [pc EXCEPT ![t] = step]
      BY <1>1, <1>2, StartOK DEF Calls
    <2>2. PICK step \in {"wait", "rung"} : pc' = [pc EXCEPT ![t] = step]
      BY <2>1
    <2>3. /\ step \in Steps \ {"idle"} /\ pc'[t] = step /\ call'[t] = "reprolog"
          /\ \A u \in Threads \ {t} : call'[u] = call[u] /\ out'[u] = out[u]
      BY <1>1, <2>1, <2>2 DEF TypeOK, Steps
    <2>4. Sees
      BY <1>1, <2>2, <2>3, GoesOnUnseen
    <2>5. PassOK(t)'
      BY <2>3 DEF PassOK
    <2>6. QED
      BY <2>4, <2>5
  <1>3. CASE Goto(t, "pass") /\ UNCHANGED call
    <2>1. /\ pc' = [pc EXCEPT ![t] = "pass"] /\ "pass" \in Steps \ {"idle"} /\ pc'[t] = "pass"
      BY <1>1, <1>3 DEF Goto, TypeOK, Steps
    <2>2. QED
      BY <1>1, <1>3, <2>1, GoesOnUnseen DEF PassOK
  <1>4. QED
    BY <1>2, <1>3 DEF Main

\* The pass gives its value, or fails the guards of the episode's
\* specialization at the inputs of the call: its buffer is that of its form.
LEMMA PassSees ==
    ASSUME SInv, IInv', NEW t \in Threads, Pass(t)
    PROVE  Sees /\ PassOK(t)'
  <1> DEFINE e == ep[t]
             v == <<work[t].bind, arg[t][2]>>
             value == MainValue(e.form, work[t], arg[t][2])
  <1>1. /\ TypeOK /\ IInv /\ pc[t] = "pass" /\ call[t] = "main" /\ UNCHANGED <<arg, bound, ep>>
        /\ EpisodeOK(t) /\ CallOK(t) /\ arg[t] \in Inputs
    BY DEF SInv, IInv, TypeOK, CallOK, Pass
  <1>2. bound[t] = arg[t][1] /\ arg[t][1] \in Bindings /\ arg[t] = <<arg[t][1], arg[t][2]>>
    BY <1>1 DEF CallOK, Inputs
  <1>3. bound[t] # None
    BY <1>2, MarkerAssumption
  <1>4. work[t].layout = e.form /\ v = arg[t]
    BY <1>1, <1>2, <1>3 DEF CallOK, Prepared
  <1>5. value # None
    BY <1>1, <1>4, ValueTold DEF MainValue
  <1>6. \/ Out(t, value) /\ e.kind = "interp" /\ Goto(t, "note") /\ UNCHANGED call
        \/ Out(t, value) /\ e.kind # "interp" /\ Return(t)
        \/ /\ e.kind # "full" /\ FALSE \in Check(e.sp, work[t].layout, Holds(e.sp, v))
           /\ Goto(t, "flip") /\ UNCHANGED <<call, out>>
    BY DEF Pass
  <1> HIDE DEF value
  <1>7. CASE Out(t, value) /\ e.kind = "interp" /\ Goto(t, "note") /\ UNCHANGED call
    <2>1. /\ pc' = [pc EXCEPT ![t] = "note"] /\ "note" \in Steps \ {"idle"} /\ pc'[t] = "note"
          /\ out'[t] = value /\ \A u \in Threads \ {t} : out'[u] = out[u]
      BY <1>1, <1>7 DEF Goto, Out, TypeOK, Steps
    <2>2. Sees
      BY <1>1, <1>7, <2>1, GoesOnUnseen
    <2>3. PassOK(t)'
      BY <1>5, <2>1 DEF PassOK
    <2>4. QED
      BY <2>2, <2>3
  <1>8. CASE Out(t, value) /\ e.kind # "interp" /\ Return(t)
    <2>1. out'[t] = value /\ \A u \in Threads \ {t} : out'[u] = out[u]
      BY <1>1, <1>8 DEF Out, TypeOK
    <2>2. QED
      BY <1>1, <1>5, <1>8, <2>1, ReturnAnswers, ReturnPassOK
  <1>9. CASE /\ e.kind # "full" /\ FALSE \in Check(e.sp, work[t].layout, Holds(e.sp, v))
             /\ Goto(t, "flip") /\ UNCHANGED <<call, out>>
    <2>1. /\ pc' = [pc EXCEPT ![t] = "flip"] /\ "flip" \in Steps \ {"idle"} /\ pc'[t] = "flip"
      BY <1>1, <1>9 DEF Goto, TypeOK, Steps
    <2>2. Sees
      BY <1>1, <1>9, <2>1, GoesOnUnseen
    <2>3. ~Holds(e.sp, arg[t])
      <3>1. work[t].layout = e.sp
        BY <1>1, <1>4, <1>9 DEF EpisodeOK
      <3>2. FALSE \in {Holds(e.sp, v)}
        BY <1>9, <3>1 DEF Check
      <3>3. QED
        BY <1>4, <3>2
    <2>4. PassOK(t)'
      BY <1>1, <1>9, <2>1, <2>3 DEF PassOK, Holds
    <2>5. QED
      BY <2>2, <2>4
  <1>10. QED
    BY <1>6, <1>7, <1>8, <1>9

\* What was noted is returned; a flip returns the full tape's value.
LEMMA NotesSee ==
    ASSUME SInv, IInv', NEW t \in Threads, TryNote(t) \/ Note(t) \/ FlipRetrace(t)
    PROVE  Sees /\ PassOK(t)'
  <1>1. /\ TypeOK /\ IInv /\ PassOK(t) /\ UNCHANGED <<arg, bound>> /\ arg[t] \in Inputs
        /\ pc[t] \in {"note", "noted", "flipped"} /\ call[t] = "main"
    BY DEF SInv, IInv, TypeOK, CallOK, TryNote, Note, FlipRetrace
  <1>2. arg[t] # None
    BY <1>1, MarkerAssumption
  <1>3. CASE pc[t] = "note" /\ Goto(t, "noted") /\ UNCHANGED <<call, out>>
    <2>1. /\ pc' = [pc EXCEPT ![t] = "noted"] /\ "noted" \in Steps \ {"idle"} /\ pc'[t] = "noted"
      BY <1>1, <1>3 DEF Goto, TypeOK, Steps
    <2>2. QED
      BY <1>1, <1>3, <2>1, GoesOnUnseen DEF PassOK
  <1>4. CASE pc[t] \in {"note", "noted"} /\ Return(t) /\ UNCHANGED out
    BY <1>1, <1>4, ReturnAnswers, ReturnPassOK DEF PassOK
  <1>5. CASE Return(t) /\ Out(t, arg[t])
    <2>1. out'[t] = arg[t] /\ \A u \in Threads \ {t} : out'[u] = out[u]
      BY <1>1, <1>5 DEF Out, TypeOK
    <2>2. QED
      BY <1>1, <1>2, <1>5, <2>1, ReturnAnswers, ReturnPassOK
  <1>6. QED
    BY <1>3, <1>4, <1>5 DEF TryNote, Note, FlipRetrace

\* A call's step leaves the other callers' calls, sessions and buffers.
LEMMA OthersStay ==
    ASSUME TypeOK, NEW t \in Threads, Begin(t) \/ Step(t), NEW u \in Threads \ {t}
    PROVE  Untouched(u)
  <1>1. ASSUME NEW c \in Calls, Start(t, c)
        PROVE  pc'[u] = pc[u] /\ call'[u] = call[u]
    BY <1>1, StartOK DEF TypeOK
  <1>2. ASSUME Return(t)
        PROVE  pc'[u] = pc[u] /\ call'[u] = call[u]
    BY <1>2, ReturnOK DEF TypeOK
  <1>3. ASSUME NEW step, Goto(t, step)
        PROVE  pc'[u] = pc[u]
    BY <1>3 DEF Goto, TypeOK
  <1>4. ASSUME NEW form, Laid(t, form)
        PROVE  work'[u] = work[u]
    BY <1>4 DEF Laid, TypeOK
  <1>5. ASSUME NEW v, Out(t, v)
        PROVE  out'[u] = out[u]
    BY <1>5 DEF Out, TypeOK
  <1>6. CASE Begin(t)
    <2>1. PICK c \in CallKinds, i \in Inputs :
            /\ Start(t, c)
            /\ arg' = [arg EXCEPT ![t] = i]
            /\ bound' = [bound EXCEPT ![t] = IF c = "eval" THEN None ELSE i[1]]
      BY <1>6 DEF Begin
    <2>2. c \in Calls
      BY PolicyAssumption DEF Calls
    <2>3. /\ Out(t, None) /\ UNCHANGED <<ep, work>>
      BY <1>6 DEF Begin
    <2>4. arg'[u] = arg[u] /\ bound'[u] = bound[u]
      BY <2>1 DEF TypeOK
    <2>5. QED
      BY <1>1, <1>5, <2>1, <2>2, <2>3, <2>4 DEF Untouched
  <1>7. CASE Wake(t)
    BY <1>3, <1>7 DEF Wake, Enter, Untouched
  <1>8. CASE TryLock(t)
    <2>1. ep'[u] = ep[u]
      BY <1>8 DEF TryLock, Opens, TypeOK
    <2>2. QED
      BY <1>3, <1>8, <2>1 DEF TryLock, Untouched
  <1>9. ASSUME NEW st, ToFull(t, st), UNCHANGED <<arg, bound>>
        PROVE  Untouched(u)
    BY <1>3, <1>9 DEF ToFull, Untouched
  <1>10. CASE EvalSpec(t)
    <2>1. UNCHANGED <<arg, bound>>
      BY <1>10 DEF EvalSpec
    <2>2. ASSUME NEW form, NEW v, Laid(t, form), Out(t, v), Return(t), ep' = ep
          PROVE  Untouched(u)
      BY <1>2, <1>4, <1>5, <2>1, <2>2 DEF Untouched
    <2>3. ASSUME NEW st, EvalInterpreted(t, st, arg[t])
          PROVE  Untouched(u)
      BY <1>9, <2>1, <2>2, <2>3 DEF EvalInterpreted
    <2> DEFINE st == [cache EXCEPT !.choices = Ran(@, 1)]
    <2>4. \/ ToFull(t, cache)
          \/ /\ Laid(t, st.native.form) /\ Out(t, Value(st.native.form, arg[t]))
             /\ Return(t) /\ UNCHANGED ep
          \/ EvalInterpreted(t, DropNative(st), arg[t])
      BY <1>10 DEF EvalSpec
    <2> HIDE DEF st
    <2>5. QED
      BY <1>9, <2>1, <2>2, <2>3, <2>4
  <1>11. CASE SpecProlog(t)
    <2>1. UNCHANGED <<arg, bound>>
      BY <1>11 DEF SpecProlog
    <2>2. ASSUME NEW st, NEW kind, NEW form, NEW passed, Enters(t, st, kind, form, passed)
          PROVE  Untouched(u)
      <3>1. ep'[u] = ep[u]
        BY <2>2 DEF Enters, TypeOK
      <3>2. work'[u] = work[u]
        BY <1>4, <2>2 DEF Enters
      <3>3. Return(t) /\ out' = out
        BY <2>2 DEF Enters
      <3>4. QED
        BY <1>2, <2>1, <3>1, <3>2, <3>3 DEF Untouched
    <2>3. \/ \E st : ToFull(t, st)
          \/ \E st, kind, form, passed : Enters(t, st, kind, form, passed)
      BY <1>11 DEF SpecProlog
    <2>4. QED
      BY <1>9, <2>1, <2>2, <2>3
  <1>12. CASE RunFull(t)
    <2>1. out'[u] = out[u]
      BY <1>12 DEF RunFull, TypeOK
    <2>2. Laid(t, Full) /\ Return(t) /\ UNCHANGED <<arg, bound, ep>>
      BY <1>12 DEF RunFull
    <2>3. QED
      BY <1>2, <1>4, <2>1, <2>2 DEF Untouched
  <1>13. CASE Main(t)
    <2>1. "reprolog" \in Calls
      BY DEF Calls
    <2>2. /\ UNCHANGED <<arg, bound, ep, work, out>>
          /\ Start(t, "reprolog") \/ (Goto(t, "pass") /\ UNCHANGED call)
      BY <1>13 DEF Main
    <2>3. QED
      BY <1>1, <1>3, <2>1, <2>2 DEF Untouched
  <1>14. CASE Pass(t)
    <2>1. UNCHANGED <<arg, bound, ep, work>>
      BY <1>14 DEF Pass
    <2>2. /\ out' = out \/ \E v : Out(t, v)
          /\ Return(t) \/ (UNCHANGED call /\ \E step : Goto(t, step))
      BY <1>14 DEF Pass
    <2>3. QED
      BY <1>2, <1>3, <1>5, <2>1, <2>2 DEF Untouched
  <1>15. CASE TryNote(t)
    <2>1. /\ UNCHANGED <<arg, bound, ep, work, out>>
          /\ Return(t) \/ (UNCHANGED call /\ Goto(t, "noted"))
      BY <1>15 DEF TryNote
    <2>2. QED
      BY <1>2, <1>3, <2>1 DEF Untouched
  <1>16. CASE Note(t)
    <2>1. UNCHANGED <<arg, bound, ep, work, out>> /\ Return(t)
      BY <1>16 DEF Note
    <2>2. QED
      BY <1>2, <2>1 DEF Untouched
  <1>17. CASE FlipLock(t)
    BY <1>3, <1>17 DEF FlipLock, Untouched
  <1>18. CASE FlipRetrace(t)
    <2>1. ep'[u] = ep[u]
      BY <1>18 DEF FlipRetrace, FallsFull, TypeOK
    <2>2. Laid(t, Full) /\ Out(t, arg[t]) /\ Return(t) /\ UNCHANGED <<arg, bound>>
      BY <1>18 DEF FlipRetrace
    <2>3. QED
      BY <1>2, <1>4, <1>5, <2>1, <2>2 DEF Untouched
  <1>19. QED
    BY <1>6, <1>7, <1>8, <1>10, <1>11, <1>12, <1>13, <1>14, <1>15, <1>16, <1>17, <1>18 DEF Step

\* A thread left alone relies on what it did.
LEMMA PassStays ==
    ASSUME NEW u \in Threads, PassOK(u), Untouched(u)
    PROVE  PassOK(u)'
  BY DEF PassOK, Untouched, Holds

\* The background and the bodies' forms are no caller's.
LEMMA BackgroundUnseen ==
    ASSUME UNCHANGED threadVars
    PROVE  Sees /\ \A u \in Threads : Untouched(u)
  <1>1. UNCHANGED <<pc, call, arg, bound, ep, work, out>>
    BY DEF threadVars
  <1>2. Sees
    BY <1>1, Unseen DEF Asked
  <1>3. QED
    BY <1>1, <1>2 DEF Untouched

\* Every step is one its callers may see, and keeps what their steps rely on.
LEMMA StepSees ==
    ASSUME SInv, [Next]_vars
    PROVE  SInv' /\ Sees
  <1>1. IInv /\ IInv' /\ TypeOK
    BY StepKeeps DEF SInv, Keeps, IInv
  <1>2. ASSUME NEW t \in Threads, Begin(t) \/ Step(t)
        PROVE  SInv' /\ Sees
    <2>1. Sees /\ PassOK(t)'
      BY <1>1, <1>2, BeginSees, RungSees, EvalSees, PrologSees, RunFullSees, MainSees, PassSees,
         NotesSee DEF Step
    <2>2. \A u \in Threads \ {t} : Untouched(u)
      BY <1>1, <1>2, OthersStay
    <2>3. \A u \in Threads : PassOK(u)'
      BY <2>1, <2>2, PassStays DEF SInv
    <2>4. QED
      BY <1>1, <2>1, <2>3 DEF SInv
  <1>3. CASE UNCHANGED threadVars
    <2>1. Sees /\ \A u \in Threads : PassOK(u)'
      BY <1>3, BackgroundUnseen, PassStays DEF SInv
    <2>2. QED
      BY <1>1, <2>1 DEF SInv
  <1>4. Background \/ BodyFormLands \/ UNCHANGED vars => UNCHANGED threadVars
    BY DEF Background, Take, LandFull, Notify, LockSpec, LandSpec, PanicJob, BodyFormLands, vars
  <1>5. QED
    BY <1>2, <1>3, <1>4 DEF Next

\* At first nobody has asked for anything.
LEMMA InitSeen ==
    ASSUME Init
    PROVE  SInv /\ Promise!Init
  <1>1. IInv
    BY InitOK
  <1>2. /\ pc = [t \in Threads |-> "idle"] /\ out = [t \in Threads |-> None]
        /\ bound = [t \in Threads |-> None]
    BY DEF Init
  <1>3. \A t \in Threads : PassOK(t)
    BY <1>2 DEF PassOK
  <1>4. arg \in [Threads -> Promise!Inputs]
    BY <1>1 DEF IInv, TypeOK, Promise!Inputs, Inputs
  <1>5. /\ [t \in Threads |-> Asked(t)] = [t \in Threads |-> "nothing"]
        /\ [t \in Threads |-> IF pc[t] = "idle" THEN out[t] ELSE None] = [t \in Threads |-> None]
    BY <1>2 DEF Asked
  <1>6. Promise!Init
    BY <1>2, <1>4, <1>5 DEF Promise!Init
  <1>7. QED
    BY <1>1, <1>3, <1>6 DEF SInv

\* What callers see is a behaviour of Evaluator: they ask, and are given the
\* program's value at their inputs, or have bound a session, whatever form
\* served them and whatever the others and the background did meanwhile
\* (adaptive.rs:3-4, 128-131).
THEOREM PromiseKept ==
    Spec => Promise!Init /\ [][Promise!Next]_(Promise!vars)
  <1>1. Init => SInv /\ Promise!Init
    BY InitSeen
  <1>2. SInv /\ [Next]_vars => SInv' /\ [Promise!Next]_(Promise!vars)
    BY StepSees DEF Sees
  <1>3. QED
    BY <1>1, <1>2, PTL DEF Spec

------------------------------------------------------------------------------
(* Flips                                                                    *)

\* What a step of a flip's count must have done.
Teaches ==
    cache'.choices.flips > cache.choices.flips =>
        \/ cache'.choices.off
        \/ cache'.choices.unpinned # cache.choices.unpinned
        \/ \E t \in Threads :
             pc[t] = "flipped" /\ pc'[t] = "idle" /\ ep[t].ver # cache.choices.version

\* A step that counts no flip.
LEMMA NoFlip ==
    ASSUME TypeOK, cache'.choices.flips = cache.choices.flips
    PROVE  Teaches
  <1>1. cache.choices.flips \in Nat
    BY DEF TypeOK, Caches, ChoicesSet
  <1>2. QED
    BY <1>1 DEF Teaches

\* A traced evaluation counts no flip, and unpins what it took otherwise than
\* the trace before, unless specialization goes off.
LEMMA RetraceLearns ==
    ASSUME NEW st \in Caches, NEW i \in Inputs
    PROVE  /\ Retrace(st, i).choices.flips = st.choices.flips
           /\ \/ Retrace(st, i).choices.off
              \/ Retrace(st, i).choices.unpinned
                   = st.choices.unpinned \cup Differing(st.choices, Takes[i])
  <1> DEFINE c == Observe(st.choices, Takes[i])
             b == Built(c, SpecOps(Selects \ c.unpinned), FullOps)
  <1>1. st.choices \in ChoicesSet
    BY DEF Caches
  <1>2. /\ c \in ChoicesSet /\ c.flips = st.choices.flips
        /\ c.unpinned = st.choices.unpinned \cup Differing(st.choices, Takes[i])
    <2>1. c \in ChoicesSet
      BY <1>1, TakesType, ObserveType
    <2>2. QED
      BY <1>1, <2>1 DEF Observe, ChoicesSet
  <1> HIDE DEF c
  <1>3. b.flips = c.flips /\ b.unpinned = c.unpinned
    BY <1>2 DEF Built, ChoicesSet
  <1> HIDE DEF b
  <1>4. Retrace(st, i) = IF ~Ready(c) THEN [st EXCEPT !.choices = c, !.spec = None]
                         ELSE IF b.off THEN Disable([st EXCEPT !.choices = b])
                         ELSE [st EXCEPT !.choices = b, !.spec = Pinned(c)]
    BY DEF Retrace, c, b
  <1>5. CASE ~Ready(c)
    BY <1>2, <1>4, <1>5 DEF Caches
  <1>6. CASE Ready(c) /\ b.off
    <2>1. Built(c, SpecOps(Selects \ c.unpinned), FullOps) \in ChoicesSet
      BY <1>2, PolicyAssumption, PolicyTypes
    <2>2. b \in ChoicesSet
      BY <2>1 DEF b
    <2>3. Retrace(st, i).choices = [b EXCEPT !.off = TRUE]
      BY <1>4, <1>6 DEF Disable, Caches
    <2>4. QED
      BY <1>2, <1>3, <2>2, <2>3 DEF ChoicesSet
  <1>7. CASE Ready(c) /\ ~b.off
    BY <1>2, <1>3, <1>4, <1>7 DEF Caches
  <1>8. QED
    BY <1>5, <1>6, <1>7

\* A flip of the specialization held unpins a select, or turns it all off.
LEMMA OnFlipLearns ==
    ASSUME NEW st, CacheOK(st), st.spec # None, NEW i \in Inputs, ~Holds(st.spec, i)
    PROVE  \/ OnFlip(st, i).choices.off
           \/ \E s : s \in OnFlip(st, i).choices.unpinned /\ s \notin st.choices.unpinned
  <1> DEFINE c == Flipped(Cool(NewVersion(st.choices)), 1)
             n == [st EXCEPT !.native = None, !.stable = 0, !.choices = c]
  <1>1. /\ st \in Caches /\ st.choices \in ChoicesSet /\ st.spec = Pinned(st.choices)
        /\ st.choices.trace \in Traces
    BY DEF CacheOK, Caches
  <1>2. PICK s \in DOMAIN st.spec : st.spec[s] # Takes[i][s]
    BY DEF Holds
  <1>3. s \in Selects \ st.choices.unpinned /\ st.choices.trace[s] # Takes[i][s]
    BY <1>1, <1>2 DEF Pinned
  <1>4. s \in Differing(st.choices, Takes[i])
    BY <1>1, <1>3 DEF Differing, Traces
  <1>5. c \in ChoicesSet /\ c.trace = st.choices.trace /\ c.unpinned = st.choices.unpinned
    <2>1. NewVersion(st.choices) \in ChoicesSet
          /\ NewVersion(st.choices).trace = st.choices.trace
          /\ NewVersion(st.choices).unpinned = st.choices.unpinned
      BY <1>1, NewVersionMoves
    <2>2. Cool(NewVersion(st.choices)) \in ChoicesSet
          /\ Cool(NewVersion(st.choices)).trace = st.choices.trace
          /\ Cool(NewVersion(st.choices)).unpinned = st.choices.unpinned
      <3>1. Cool(NewVersion(st.choices)) \in ChoicesSet
        BY <2>1, PolicyTypes
      <3>2. QED
        BY <2>1, <3>1 DEF Cool, ChoicesSet
    <2>3. QED
      BY <2>2, FlippedMoves
  <1> HIDE DEF c
  <1>6. n \in Caches /\ n.choices = c
    BY <1>1, <1>5 DEF Caches
  <1> HIDE DEF n
  <1>7. OnFlip(st, i) = IF c.off THEN Disable(n) ELSE Retrace(n, i)
    BY DEF OnFlip, c, n
  <1>8. CASE c.off
    <2>1. Disable(n).choices.off
      BY <1>5, <1>6 DEF Disable, Caches, ChoicesSet
    <2>2. QED
      BY <1>7, <1>8, <2>1
  <1>9. CASE ~c.off
    <2>1. \/ Retrace(n, i).choices.off
          \/ Retrace(n, i).choices.unpinned = n.choices.unpinned \cup Differing(n.choices, Takes[i])
      BY <1>6, RetraceLearns
    <2>2. s \in Differing(n.choices, Takes[i])
      BY <1>4, <1>5, <1>6 DEF Differing
    <2>3. QED
      BY <1>3, <1>7, <1>9, <2>1, <2>2
  <1>10. QED
    BY <1>8, <1>9

\* An evaluation counted, and code given up, count no flip.
LEMMA RanCounts ==
    ASSUME NEW st \in Caches
    PROVE  LET r == [st EXCEPT !.choices = Ran(@, 1)] IN
           /\ r \in Caches /\ r.choices.flips = st.choices.flips
           /\ r.choices.unpinned = st.choices.unpinned
           /\ DropNative(r).choices = r.choices
  <1> DEFINE c == Ran(st.choices, 1)
             r == [st EXCEPT !.choices = c]
  <1>1. c \in ChoicesSet /\ c.flips = st.choices.flips /\ c.unpinned = st.choices.unpinned
    BY RanMoves DEF Caches
  <1> HIDE DEF c
  <1>2. r \in Caches /\ r.choices = c
    BY <1>1 DEF Caches
  <1>3. DropNative(r).choices = r.choices
    BY <1>2 DEF DropNative, Caches
  <1>4. QED
    BY <1>1, <1>2, <1>3 DEF c

\* An evaluation whose guards held counts no flip.
LEMMA HeldCounts ==
    ASSUME NEW st \in Caches, NEW sp, NEW ver, Held(st, sp, ver)
    PROVE  cache'.choices = st.choices
  BY DEF Held, Caches

\* A whole evaluation flips at the specialization held.
LEMMA EvalTeaches ==
    ASSUME IInv, NEW t \in Threads, EvalSpec(t)
    PROVE  Teaches
  <1> DEFINE st == [cache EXCEPT !.choices = Ran(@, 1)]
             d == DropNative(st)
  <1>1. TypeOK /\ CacheOK(cache) /\ cache \in Caches /\ arg[t] \in Inputs
    BY DEF IInv, TypeOK
  <1>2. /\ st \in Caches /\ st.choices.flips = cache.choices.flips
        /\ st.choices.unpinned = cache.choices.unpinned
        /\ d.choices = st.choices /\ CacheOK(st)
    BY <1>1, RanCounts, RanOK
  <1>3. CacheOK(d) /\ d \in Caches
    BY <1>2, DropNativeOK DEF CacheOK
  <1>4. \/ cache' = cache
        \/ cache' = [st EXCEPT !.stable = @ + 1]
        \/ EvalInterpreted(t, d, arg[t])
    BY DEF EvalSpec, ToFull
  <1> HIDE DEF st, d
  <1>5. CASE cache' = cache \/ cache' = [st EXCEPT !.stable = @ + 1]
    <2>1. cache'.choices.flips = cache.choices.flips
      BY <1>2, <1>5 DEF Caches
    <2>2. QED
      BY <1>1, <2>1, NoFlip
  <1>6. CASE EvalInterpreted(t, d, arg[t])
    <2>1. \/ cache' = d
          \/ Held(d, d.spec, d.choices.version)
          \/ d.spec # None /\ ~Holds(d.spec, arg[t]) /\ cache' = OnFlip(d, arg[t])
          \/ cache' = Retrace(d, arg[t])
      BY <1>6 DEF EvalInterpreted, ToFull
    <2>2. CASE cache' = d \/ Held(d, d.spec, d.choices.version)
      BY <1>1, <1>2, <1>3, <2>2, HeldCounts, NoFlip
    <2>3. CASE cache' = Retrace(d, arg[t])
      BY <1>1, <1>2, <1>3, <2>3, RetraceLearns, NoFlip
    <2>4. CASE d.spec # None /\ ~Holds(d.spec, arg[t]) /\ cache' = OnFlip(d, arg[t])
      BY <1>1, <1>2, <1>3, <2>4, OnFlipLearns DEF Teaches
    <2>5. QED
      BY <2>1, <2>2, <2>3, <2>4
  <1>7. QED
    BY <1>4, <1>5, <1>6

\* A prolog that finds the specialization failing at its binding flips it.
LEMMA EntersTeaches ==
    ASSUME TypeOK, NEW t \in Threads, NEW st, CacheOK(st), st.spec # None,
           st.choices.flips = cache.choices.flips,
           cache.choices.unpinned \subseteq st.choices.unpinned,
           NEW kind, NEW passed, passed = {EntryHolds(st.spec, arg[t])},
           Enters(t, st, kind, st.spec, passed)
    PROVE  Teaches
  <1>1. arg[t] \in Inputs
    BY DEF TypeOK
  <1>2. CASE cache' = st
    BY <1>2, NoFlip
  <1>3. CASE FALSE \in passed /\ cache' = OnFlip(st, arg[t])
    <2>1. ~EntryHolds(st.spec, arg[t])
      BY <1>3
    <2>2. ~Holds(st.spec, arg[t])
      BY <2>1 DEF EntryHolds, Holds
    <2>3. \/ cache'.choices.off
          \/ \E s : s \in cache'.choices.unpinned /\ s \notin st.choices.unpinned
      BY <1>1, <1>3, <2>2, OnFlipLearns
    <2>4. QED
      BY <2>3 DEF Teaches
  <1>4. QED
    BY <1>2, <1>3 DEF Enters

\* The first specialization of a program counts no flip; where it comes into
\* being, what was unpinned stays so.
LEMMA FirstCounts ==
    ASSUME NEW st, CacheOK(st), st.spec = None, NEW i \in Inputs
    PROVE  LET first == [Retrace(st, i) EXCEPT !.choices = NewVersion(@), !.stable = 0]
           IN  /\ CacheOK(first) /\ first.choices.flips = st.choices.flips
               /\ first.spec # None => st.choices.unpinned \subseteq first.choices.unpinned
  <1> DEFINE r == Retrace(st, i)
             n == NewVersion(r.choices)
             first == [r EXCEPT !.choices = NewVersion(@), !.stable = 0]
  <1>1. CacheOK(first)
    BY FirstOK
  <1>2. st \in Caches
    BY DEF CacheOK
  <1>3. /\ r.choices.flips = st.choices.flips
        /\ r.choices.off \/ st.choices.unpinned \subseteq r.choices.unpinned
    BY <1>2, RetraceLearns
  <1>4. r \in Caches
    <2>1. st.native = DropNative(st).native /\ DropNative(st).native = None
      BY DropNativeOK DEF DropNative
    <2>2. CacheOK(r)
      BY <1>2, <2>1, RetraceOK
    <2>3. QED
      BY <2>2 DEF CacheOK
  <1> HIDE DEF r
  <1>5. n.flips = r.choices.flips /\ n.unpinned = r.choices.unpinned /\ n.off = r.choices.off
    BY <1>4, NewVersionMoves DEF Caches, NewVersion, ChoicesSet
  <1>6. first.choices = n
    BY <1>4 DEF Caches
  <1>7. QED
    BY <1>1, <1>3, <1>5, <1>6 DEF CacheOK, r

\* A prolog counts a flip only of the specialization that fails at its binding.
LEMMA PrologTeaches ==
    ASSUME IInv, NEW t \in Threads, SpecProlog(t)
    PROVE  Teaches
  <1> DEFINE ran == [cache EXCEPT !.choices = Ran(@, 1)]
             first == [Retrace(ran, arg[t]) EXCEPT !.choices = NewVersion(@), !.stable = 0]
             st == IF ran.spec = None THEN first ELSE ran
             entry == Check(st.spec, st.native.form, EntryHolds(st.native.form, arg[t]))
             holds == {EntryHolds(st.spec, arg[t])}
  <1>1. /\ TypeOK /\ CacheOK(cache) /\ cache \in Caches /\ arg[t] \in Inputs
    BY DEF IInv, CacheOK, TypeOK
  <1>2. CacheOK(ran) /\ ran.choices.flips = cache.choices.flips
        /\ ran.choices.unpinned = cache.choices.unpinned
    BY <1>1, RanOK, RanCounts
  <1>3. \/ cache' = cache
        \/ cache' = ran
        \/ NativeCurrent(st) /\ Enters(t, st, "native", st.native.form, entry)
        \/ cache' = DropNative(st)
        \/ st.spec # None /\ Enters(t, DropNative(st), "interp", st.spec, holds)
    BY DEF SpecProlog, ToFull
  <1> HIDE DEF ran
  <1>4. /\ CacheOK(st) /\ st.choices.flips = cache.choices.flips
        /\ st.spec # None => cache.choices.unpinned \subseteq st.choices.unpinned
    <2>1. CASE ran.spec = None
      BY <1>1, <1>2, <2>1, FirstCounts
    <2>2. CASE ran.spec # None
      BY <1>2, <2>2
    <2>3. QED
      BY <2>1, <2>2
  <1> HIDE DEF st
  <1>5. /\ CacheOK(DropNative(st)) /\ DropNative(st).spec = st.spec
        /\ DropNative(st).choices = st.choices
    BY <1>4, DropNativeOK
  <1>6. CASE cache' = cache \/ cache' = ran \/ cache' = DropNative(st)
    BY <1>1, <1>2, <1>4, <1>5, <1>6, NoFlip
  <1>7. CASE NativeCurrent(st) /\ Enters(t, st, "native", st.native.form, entry)
    <2>1. st.spec # None /\ st.native.form = st.spec
      BY <1>4, <1>7 DEF NativeCurrent, CacheOK
    <2>2. entry = {EntryHolds(st.spec, arg[t])}
      BY <2>1 DEF Check
    <2> HIDE DEF entry
    <2>3. QED
      BY <1>1, <1>4, <1>7, <2>1, <2>2, EntersTeaches
  <1>8. CASE st.spec # None /\ Enters(t, DropNative(st), "interp", st.spec, holds)
    BY <1>1, <1>4, <1>5, <1>8, EntersTeaches
  <1>9. QED
    BY <1>3, <1>6, <1>7, <1>8

\* A flip of a main pass is one of its episode's specialization.
LEMMA FlipRetraceTeaches ==
    ASSUME SInv, NEW t \in Threads, FlipRetrace(t)
    PROVE  Teaches
  <1>1. /\ TypeOK /\ CacheOK(cache) /\ CallOK(t) /\ EpisodeOK(t) /\ PassOK(t)
        /\ arg[t] \in Inputs
    BY DEF SInv, IInv, TypeOK
  <1>2. pc[t] = "flipped" /\ cache' = OnFlip(cache, arg[t]) /\ Return(t)
    BY DEF FlipRetrace
  <1>3. CASE ep[t].ver # cache.choices.version
    <2>1. call[t] # "reprolog"
      BY <1>1, <1>2 DEF CallOK
    <2>2. pc'[t] = "idle"
      BY <1>1, <1>2, <2>1, ReturnOK DEF TypeOK
    <2>3. QED
      BY <1>2, <1>3, <2>2 DEF Teaches
  <1>4. CASE ep[t].ver = cache.choices.version
    <2>1. ep[t].sp \in Specs /\ ep[t].sp = cache.spec /\ ~Holds(cache.spec, arg[t])
      BY <1>1, <1>2, <1>4 DEF PassOK, EpisodeOK, Current
    <2>2. cache.spec # None
      BY <2>1, MarkerAssumption
    <2>3. \/ cache'.choices.off
          \/ \E s : s \in cache'.choices.unpinned /\ s \notin cache.choices.unpinned
      BY <1>1, <1>2, <2>1, <2>2, OnFlipLearns
    <2>4. QED
      BY <2>3 DEF Teaches
  <1>5. QED
    BY <1>3, <1>4

\* Every step that counts a flip teaches.
LEMMA StepTeaches ==
    ASSUME SInv, [Next]_vars
    PROVE  Teaches
  <1>1. IInv /\ TypeOK /\ cache \in Caches
    BY DEF SInv, IInv, TypeOK
  <1>2. CASE \E t \in Threads : EvalSpec(t) \/ SpecProlog(t) \/ FlipRetrace(t)
    BY <1>1, <1>2, EvalTeaches, PrologTeaches, FlipRetraceTeaches
  <1>3. ASSUME NEW t \in Threads, Note(t)
        PROVE  Teaches
    <2> DEFINE r == [cache EXCEPT !.choices = Ran(@, 1)]
    <2>1. r \in Caches /\ r.choices.flips = cache.choices.flips
      BY <1>1, RanCounts
    <2>2. Held(r, ep[t].sp, ep[t].ver)
      BY <1>3 DEF Note
    <2> HIDE DEF r
    <2>3. cache'.choices = r.choices
      BY <2>1, <2>2, HeldCounts
    <2>4. QED
      BY <1>1, <2>1, <2>3, NoFlip
  <1>4. CASE LandSpec
    <2>1. cache'.choices = cache.choices
      BY <1>1, <1>4 DEF LandSpec, Landed, Caches
    <2>2. QED
      BY <1>1, <2>1, NoFlip
  <1>5. CASE UNCHANGED cache
    BY <1>1, <1>5, NoFlip
  <1>6. QED
    <2>1. \A t \in Threads :
            Begin(t) \/ Wake(t) \/ TryLock(t) \/ RunFull(t) \/ Main(t) \/ Pass(t) \/ TryNote(t)
              \/ FlipLock(t) => UNCHANGED cache
      BY DEF Begin, Wake, TryLock, RunFull, Main, Pass, TryNote, FlipLock
    <2>2. Take \/ LandFull \/ Notify \/ LockSpec \/ PanicJob \/ BodyFormLands
            \/ UNCHANGED vars => UNCHANGED cache
      BY DEF Take, LandFull, Notify, LockSpec, PanicJob, BodyFormLands, vars
    <2>3. QED
      BY <1>2, <1>3, <1>4, <1>5, <2>1, <2>2 DEF Next, Step, Background

\* Every flip of the specialization held teaches: it unpins a select for good
\* or turns specialization off, so that a program is traced again at most once
\* per select (adaptive.rs:474-477).  A session's flip of an outdated
\* specialization alone may find what the current one knows already.
THEOREM FlipsAlwaysTeach == Spec => FlipsTeach
  <1>1. Init => SInv
    BY InitSeen
  <1>2. SInv /\ [Next]_vars => SInv'
    BY StepSees
  <1>3. SInv /\ [Next]_vars =>
          [cache'.choices.flips > cache.choices.flips
             => \/ cache'.choices.off
                \/ cache'.choices.unpinned # cache.choices.unpinned
                \/ \E t \in Threads :
                     pc[t] = "flipped" /\ pc'[t] = "idle"
                       /\ ep[t].ver # cache.choices.version]_vars
    BY StepTeaches DEF Teaches
  <1>4. QED
    BY <1>1, <1>2, <1>3, PTL DEF Spec, FlipsTeach

==============================================================================
