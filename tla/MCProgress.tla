----------------------------- MODULE MCProgress -----------------------------
(***************************************************************************)
(* What must come to an end: the owner's executions, the outage of a       *)
(* service, the wait of a company for its next stage.  These parts share   *)
(* no rows in the models, so the initial state picks the one that is at    *)
(* work, and the others rest.  Every fairness condition is that of the     *)
(* part's own module, while the part is at work.                           *)
(***************************************************************************)
EXTENDS OwnerExecutions, ProviderCalls, Pipeline

CONSTANTS s1, s2, manager1, c1, c2

VARIABLE subject \* the part at work

TwoSessions  == {s1, s2}
OneManager   == {manager1}
TwoCompanies == {c1, c2}
OneContact   == {c1}

----------------------------------------------------------------------------
ProgressInit ==
    /\ subject \in {"execution", "service", "pipeline"}
    /\ ExecInit /\ CallInit /\ PipelineInit
    /\ subject # "execution" => command = "find_opportunities" /\ aiAllowed
    /\ subject # "service" => healthy

ProgressVars == <<subject, execVars, callVars, pipelineVars>>

Executes(step) ==
    subject = "execution" /\ step /\ UNCHANGED <<subject, callVars, pipelineVars>>

Calls(step) ==
    subject = "service" /\ step /\ UNCHANGED <<subject, execVars, pipelineVars>>

Manages(step) ==
    subject = "pipeline" /\ step /\ UNCHANGED <<subject, execVars, callVars>>

ProgressNext ==
    Executes(ExecNext) \/ Calls(CallNext) \/ Manages(PipelineNext)

ProgressFairness ==
    \* ExecFairness
    /\ WF_ProgressVars(Executes(RunnerSteps))
    \* CallFairness
    /\ WF_ProgressVars(Calls(WaitTick))
    /\ \A c \in Callers :
          WF_ProgressVars(Calls(Ask(c))) /\ WF_ProgressVars(Calls(Try(c) \/ Records(c)))
    \* PipelineFairness
    /\ \A m \in Managers :
          /\ SF_ProgressVars(Manages(Plan(m, FullCycle)))
          /\ WF_ProgressVars(Manages(Succeeds(m) \/ \E t \in manager[m] : TaskFails(m, t)))
          /\ SF_ProgressVars(Manages(\E t \in manager[m] : ScoreStart(m, t)))
          /\ SF_ProgressVars(Manages(\E t \in manager[m] : ScoreOne(m, t)))
          /\ SF_ProgressVars(Manages(\E t \in manager[m] : Audit(m, t)))
          /\ SF_ProgressVars(Manages(\E t \in manager[m] : Draft(m, t)))

ProgressSpec == ProgressInit /\ [][ProgressNext]_ProgressVars /\ ProgressFairness
=============================================================================
