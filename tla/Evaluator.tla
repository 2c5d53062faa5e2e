------------------------------ MODULE Evaluator ------------------------------
(***************************************************************************)
(* What an Adaptive promises its callers (adaptive.rs:1-26), and a body    *)
(* specialized its own, with none of their forms: a caller evaluates the   *)
(* program at an input and is given the program's value there, or binds a  *)
(* session and evaluates it at points of that binding.  The value at an    *)
(* input is the input itself.  Callers do not see one another, and every   *)
(* call returns.                                                           *)
(***************************************************************************)
CONSTANTS Callers, Bindings, Points, None

Inputs == Bindings \X Points

VARIABLES
    asked,      \* what each caller asked for: a value, a binding or nothing
    input,      \* the inputs of its last call
    session,    \* the binding of its open session
    result      \* the value its last call returned

vars == <<asked, input, session, result>>

Init ==
    /\ asked = [c \in Callers |-> "nothing"]
    /\ input \in [Callers -> Inputs]
    /\ session = [c \in Callers |-> None]
    /\ result = [c \in Callers |-> None]

Ask(c, what, i, binding) ==
    /\ asked[c] = "nothing"
    /\ asked' = [asked EXCEPT ![c] = what]
    /\ input' = [input EXCEPT ![c] = i]
    /\ session' = [session EXCEPT ![c] = binding]
    /\ result' = [result EXCEPT ![c] = None]

Eval(c) == \E i \in Inputs : Ask(c, "value", i, None)

Bind(c) == \E i \in Inputs : Ask(c, "binding", i, i[1])

EvalSession(c) ==
    /\ session[c] # None
    /\ \E x \in Points : Ask(c, "value", <<session[c], x>>, session[c])

Answer(c) ==
    /\ asked[c] # "nothing"
    /\ asked' = [asked EXCEPT ![c] = "nothing"]
    /\ result' = [result EXCEPT ![c] = IF asked[c] = "value" THEN input[c] ELSE None]
    /\ UNCHANGED <<input, session>>

Next == \E c \in Callers : Eval(c) \/ Bind(c) \/ EvalSession(c) \/ Answer(c)

Spec == Init /\ [][Next]_vars /\ \A c \in Callers : WF_vars(Answer(c))
==============================================================================
