-------------------------- MODULE PipelineContract --------------------------
(***************************************************************************)
(* What the pipeline promises about a GameContext, without stages and      *)
(* threads: its input does not change once the first engine may run; every *)
(* engine leaves a value, once, and not before the engines it may rely on; *)
(* the pipeline returns when all have, whoever raised.                     *)
(***************************************************************************)
CONSTANTS
    Engines,
    Needs     \* the engines whose values an engine finds in the context

VARIABLES
    moment,   \* waiting for its input, running, or complete
    input,    \* what the engines are given
    value     \* what each engine has left: nothing, a default or a result

contextVars == <<moment, input, value>>

Left(e) == value[e] # "none"

\* A context that waits, one that the caller has filled in, or one of a
\* pipeline that is over.
Init ==
    \/ moment \in {"waiting", "running"} /\ value = [e \in Engines |-> "none"]
    \/ moment = "complete" /\ value = [e \in Engines |-> "result"]

\* The input comes from the parser, whatever it has found.
Provide ==
    /\ moment = "waiting" /\ moment' = "running"
    /\ UNCHANGED value

Leave(e) ==
    /\ moment = "running"
    /\ ~Left(e)
    /\ \E v \in {"default", "result"} : value' = [value EXCEPT ![e] = v]
    /\ \A d \in Needs[e] : Left(d)
    /\ UNCHANGED <<moment, input>>

Return ==
    /\ moment = "running" /\ moment' = "complete"
    /\ \A e \in Engines : Left(e)
    /\ UNCHANGED <<input, value>>

Next == Provide \/ Return \/ \E e \in Engines : Leave(e)

Spec == Init /\ [][Next]_contextVars
=============================================================================
