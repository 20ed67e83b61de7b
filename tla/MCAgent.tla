------------------------------ MODULE MCAgent ------------------------------
(* What keeps the agent good and answering, for TLC: its evaluations, the   *)
(* corrections of its prompt, the cascade of models.  The components share  *)
(* no variable, so a behaviour of all is, for each of them, a behaviour of  *)
(* its own with stuttering: a run that works on one at a time, with the     *)
(* others at their start, loses nothing a property of one can see.          *)
EXTENDS EvalQueue, PromptVersions, LLMRouter, TLC

CONSTANTS
    x1, x2, y1, y2, z1, z2,   \* interchangeable requests, machines, runs
    p1,                       \* a provider
    f1, f2, f3, c1, c2,       \* corrections and their scenarios
    Vera, Iza                 \* names

VARIABLE part   \* the component this behaviour works on

MCChains == {<<p1>>}
MCScenarioOf == [f \in {f1, f2, f3} |-> IF f = f3 THEN c2 ELSE c1]

AgentInit ==
    /\ part \in {"evaluation", "prompt", "models"}
    /\ EvalInit /\ PromptInit /\ LLMInit
    /\ part # "prompt" => ~asRules /\ agentName = Vera

AgentNext ==
    /\ UNCHANGED part
    /\ \/ part = "evaluation" /\ EvalNext /\ UNCHANGED <<promptVars, llmVars>>
       \/ part = "prompt" /\ PromptNext /\ UNCHANGED <<evalVars, llmVars>>
       \/ part = "models" /\ LLMNext /\ UNCHANGED <<evalVars, promptVars>>

AgentSpec == AgentInit /\ [][AgentNext]_<<part, evalVars, promptVars, llmVars>>

MCAgentSymmetry == Permutations({x1, x2}) \cup Permutations({y1, y2}) \cup Permutations({z1, z2})
=============================================================================
