------------------------------ MODULE MCGuards ------------------------------
\* The circuit breaker and the parts of MCModels, for TLC.  Here, too, a behaviour is one
\* of what is in focus: of the breaker while guarding, of a part of MCModels otherwise.
EXTENDS CircuitBreaker, MCModels

VARIABLE guarding \* the breaker is in focus

GuardsInit ==
  /\ guarding \in BOOLEAN
  /\ Init
  /\ ModelsInit /\ (guarding => part = "limiter")

InBreaker == guarding /\ UNCHANGED <<guarding, parts>>
InModels == ~guarding /\ UNCHANGED <<guarding, vars>>

GuardsNext == (InBreaker /\ Next) \/ (InModels /\ ModelsNext)

guardsVars == <<guarding, vars, parts>>

\* The fairness of the two.
GuardsSpec ==
  /\ GuardsInit /\ [][GuardsNext]_guardsVars
  /\ WF_guardsVars(InBreaker /\ Tick) /\ WF_guardsVars(InBreaker /\ CanExecute)
  /\ WF_guardsVars(InModels /\ InLearning /\ Learn!Step)
=============================================================================
