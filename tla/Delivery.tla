------------------------------- MODULE Delivery -------------------------------
(***************************************************************************)
(* The delivery agent (agents/delivery/agent.py): a lead becomes a         *)
(* customer with a project, whose tasks are executed in the order of their *)
(* dependencies, verified one by one, and only then the project itself.    *)
(*                                                                         *)
(* Every method runs in a session of its own: it decides on the rows as it *)
(* read them and commits the columns it changed.  A status is written only *)
(* if it differs from the one that was read; the flags "verified" are only *)
(* ever set.  Activities, notes and the displayed percentage are left out. *)
(***************************************************************************)
CONSTANTS
    Tasks,      \* task keys of the project
    DependsOn,  \* the task keys a task's spec depends on
    Sensitive,  \* tasks whose execution the owner must approve
    Agents      \* database sessions that work on the project

ASSUME DeliveryAssumption ==
    /\ DependsOn \in [Tasks -> SUBSET Tasks]
    /\ Sensitive \subseteq Tasks

VARIABLES
    customer,     \* the lead's customer row exists, and the lead is converted
    agentRun,     \* status of the run under this idempotency key
    project,      \* its status and whether it was verified
    task,         \* of each task: its status, and whether it was verified
    taskApproval, \* of each task: the approval its approval_id names
    deliverable,  \* a deliverable of the project
    agent,        \* what each session is doing, with what it read
    \* history, read by no action of the system
    granted,      \* tasks whose execution the owner once approved
    unchecked     \* tasks created after the read of the commit that last completed

deliveryRows    == <<customer, agentRun, project, task, taskApproval, deliverable>>
deliveryHistory == <<granted, unchecked>>
deliveryVars    == <<deliveryRows, agent, deliveryHistory>>

NoWork == [pc |-> "idle"]

Created == {t \in Tasks : task[t].status # "absent"}

Verified == {t \in Tasks : task[t].verified}

DependenciesExecuted(t) ==
    \A d \in DependsOn[t] : task[d].status \in {"review", "completed"}

\* _dependencies_satisfied.
DependenciesSatisfied(t) ==
    \A d \in DependsOn[t] : task[d].status = "completed" /\ task[d].verified

\* _compute_progress finds every task completed and verified.
AllDone(ts) ==
    /\ \E t \in Tasks : ts[t].status # "absent"
    /\ \A t \in Tasks : ts[t].status = "absent" \/ (ts[t].status = "completed" /\ ts[t].verified)

\* What a commit makes of a status that was read as "seen" and set to "status".
Written(stored, seen, status) == IF status = seen THEN stored ELSE status

\* The row of a task whose change is flushed and not committed.
Flushed(s, t) == \E r \in Agents \ {s} : agent[r].pc = "flushed" /\ agent[r].task = t

----------------------------------------------------------------------------
DeliveryInit ==
    /\ customer = FALSE
    /\ agentRun = "absent"
    /\ project = [status |-> "absent", verified |-> FALSE]
    /\ task = [t \in Tasks |-> [status |-> "absent", verified |-> FALSE]]
    /\ taskApproval = [t \in Tasks |-> "none"]
    /\ deliverable = "absent"
    /\ agent = [s \in Agents |-> NoWork]
    /\ granted = {}
    /\ unchecked = {}

Turn(s, work) == agent' = [agent EXCEPT ![s] = work]

\* Tasks that are committed while a session is about to complete the project.
Unseen(new) ==
    unchecked' = IF \E s \in Agents : agent[s].pc = "complete"
                 THEN unchecked \cup new ELSE unchecked

----------------------------------------------------------------------------
(* run: customer, project and tasks in one transaction.                    *)

\* No run is found under the idempotency key.
KeyIsFree == agentRun = "absent"

RunRead(s) ==
    /\ agent[s] = NoWork
    /\ KeyIsFree
    /\ Turn(s, [pc |-> "run"])
    /\ UNCHANGED <<deliveryRows, deliveryHistory>>

\* The specs of the tasks: every dependency is one of them.
Closed(specs) == specs # {} /\ \A t \in specs : DependsOn[t] \subseteq specs

\* The key of the run is free still.  The lead's customer is found or created, its
\* follow-up sequence stopped.
RunCommit(s, specs) ==
    /\ agent[s].pc = "run"
    /\ KeyIsFree
    /\ Closed(specs)
    /\ customer' = TRUE
    /\ agentRun' = "succeeded"
    /\ project' = [project EXCEPT !.status = "active"]
    /\ task' = [t \in Tasks |-> IF t \in specs THEN [task[t] EXCEPT !.status = "pending"]
                                               ELSE task[t]]
    /\ Turn(s, NoWork)
    /\ UNCHANGED <<taskApproval, deliverable, deliveryHistory>>

\* The specs are refused after customer and project were flushed: they are committed
\* with the failed run, and the key is spent.
RunCommitsFailure(s) ==
    /\ agent[s].pc = "run"
    /\ KeyIsFree
    /\ customer' = TRUE
    /\ agentRun' = "failed"
    /\ project' = [project EXCEPT !.status = "planning"]
    /\ Turn(s, NoWork)
    /\ UNCHANGED <<task, taskApproval, deliverable, deliveryHistory>>

\* convert_lead_to_customer on its own: the key is per lead.
ConvertLead ==
    /\ ~customer
    /\ customer' = TRUE
    /\ UNCHANGED <<agentRun, project, task, taskApproval, deliverable, agent, deliveryHistory>>

\* create_tasks, in any status of the project.
CreateTasksRead(s, specs) ==
    /\ agent[s] = NoWork
    /\ project.status # "absent"
    /\ Closed(specs)
    /\ ~(specs \subseteq Created)
    /\ Turn(s, [pc |-> "create", new |-> specs \ Created, project |-> project.status])
    /\ UNCHANGED <<deliveryRows, deliveryHistory>>

\* A task key is unique in its project.
CreateTasksCommit(s) ==
    /\ agent[s].pc = "create"
    /\ agent[s].new \cap Created = {}
    /\ task' = [t \in Tasks |-> IF t \in agent[s].new THEN [task[t] EXCEPT !.status = "pending"]
                                                      ELSE task[t]]
    /\ project' = [project EXCEPT !.status = IF agent[s].project = "planning" THEN "active"
                                                                              ELSE @]
    /\ Unseen(agent[s].new)
    /\ Turn(s, NoWork)
    /\ UNCHANGED <<customer, agentRun, taskApproval, deliverable, granted>>

----------------------------------------------------------------------------
(* execute_task, request_sensitive_approval, verify_task.                  *)

Executable(t) == task[t].status \in {"pending", "blocked", "review"}

ExecuteBlocked(s, t) ==
    /\ agent[s] = NoWork
    /\ Executable(t)
    /\ ~DependenciesSatisfied(t)
    /\ Turn(s, [pc |-> "execute", task |-> t, as |-> "blocked", seen |-> task[t].status,
                project |-> project.status])
    /\ UNCHANGED <<deliveryRows, deliveryHistory>>

\* The gate lets a sensitive task pass on its own approved approval only.
ExecuteRead(s, t) ==
    /\ agent[s] = NoWork
    /\ Executable(t)
    /\ DependenciesSatisfied(t)
    /\ t \in Sensitive => taskApproval[t] = "approved"
    /\ Turn(s, [pc |-> "execute", task |-> t, as |-> "review", seen |-> task[t].status,
                project |-> project.status])
    /\ UNCHANGED <<deliveryRows, deliveryHistory>>

\* A task in review that is executed again passes through "in progress" back to review,
\* which writes no status.
ExecuteCommit(s) ==
    /\ agent[s].pc = "execute"
    /\ LET w == agent[s]
       IN  /\ ~Flushed(s, w.task)
           /\ task' = [task EXCEPT ![w.task].status = Written(@, w.seen, w.as)]
           /\ project' = [project EXCEPT !.status =
                            IF w.as = "review" /\ w.project \in {"planning", "active"}
                            THEN "delivery" ELSE @]
    /\ Turn(s, NoWork)
    /\ UNCHANGED <<customer, agentRun, taskApproval, deliverable, deliveryHistory>>

\* A new approval takes the place of the task's earlier one; a pending one of the same
\* content is a conflict.
RequestSensitiveApproval(t) ==
    /\ t \in Sensitive \cap Created
    /\ taskApproval[t] # "pending"
    /\ taskApproval' = [taskApproval EXCEPT ![t] = "pending"]
    /\ UNCHANGED <<customer, agentRun, project, task, deliverable, agent, deliveryHistory>>

OwnerDecides(t) ==
    /\ taskApproval[t] = "pending"
    /\ \/ taskApproval' = [taskApproval EXCEPT ![t] = "approved"] /\ granted' = granted \cup {t}
       \/ taskApproval' = [taskApproval EXCEPT ![t] = "refused"] /\ UNCHANGED granted
    /\ UNCHANGED <<customer, agentRun, project, task, deliverable, agent, unchecked>>

VerifyRead(s, t) ==
    /\ agent[s] = NoWork
    /\ task[t].status = "review"
    /\ Turn(s, [pc |-> "verify", task |-> t, project |-> project.status])
    /\ UNCHANGED <<deliveryRows, deliveryHistory>>

\* It flushes the task, and computes the progress from the other tasks' committed rows.
VerifyFlush(s) ==
    /\ agent[s].pc = "verify"
    /\ ~Flushed(s, agent[s].task)
    /\ Turn(s, [pc |-> "flushed", task |-> agent[s].task, project |-> agent[s].project,
                all |-> AllDone([task EXCEPT ![agent[s].task] =
                                    [status |-> "completed", verified |-> TRUE]])])
    /\ UNCHANGED <<deliveryRows, deliveryHistory>>

VerifyCommit(s) ==
    /\ agent[s].pc = "flushed"
    /\ LET w == agent[s]
       IN  /\ task' = [task EXCEPT ![w.task] = [status |-> "completed", verified |-> TRUE]]
           /\ project' = [project EXCEPT !.status =
                            IF w.all THEN Written(@, w.project, "verification") ELSE @]
    /\ Turn(s, NoWork)
    /\ UNCHANGED <<customer, agentRun, taskApproval, deliverable, deliveryHistory>>

----------------------------------------------------------------------------
(* produce_deliverable and verify_deliverable; verify_project and          *)
(* complete_project.                                                       *)

ProduceDeliverable ==
    /\ project.status # "absent"
    /\ deliverable = "absent"
    /\ deliverable' = "draft"
    /\ UNCHANGED <<customer, agentRun, project, task, taskApproval, agent, deliveryHistory>>

VerifyDeliverable ==
    /\ deliverable # "absent"
    /\ deliverable' = "ready"
    /\ UNCHANGED <<customer, agentRun, project, task, taskApproval, agent, deliveryHistory>>

VerifyProjectRead(s) ==
    /\ agent[s] = NoWork
    /\ AllDone(task)
    /\ Turn(s, [pc |-> "verify_project", project |-> project.status])
    /\ UNCHANGED <<deliveryRows, deliveryHistory>>

VerifyProjectCommit(s) ==
    /\ agent[s].pc = "verify_project"
    /\ project' = [status |-> Written(project.status, agent[s].project, "verification"),
                   verified |-> TRUE]
    /\ Turn(s, NoWork)
    /\ UNCHANGED <<customer, agentRun, task, taskApproval, deliverable, deliveryHistory>>

CompleteReadFlag(s) ==
    /\ agent[s] = NoWork
    /\ project.verified
    /\ Created # {}
    /\ Turn(s, [pc |-> "complete", project |-> project.status])
    /\ unchecked' = IF \E r \in Agents : agent[r].pc = "complete" THEN unchecked ELSE {}
    /\ UNCHANGED <<deliveryRows, granted>>

\* It asks for the tasks' flags only: one that was put back to review counts.
CompleteRead(s) ==
    /\ agent[s] = NoWork
    /\ project.verified
    /\ Created # {}
    /\ Created \subseteq Verified
    /\ Turn(s, [pc |-> "complete", project |-> project.status])
    /\ unchecked' = IF \E r \in Agents : agent[r].pc = "complete" THEN unchecked ELSE {}
    /\ UNCHANGED <<deliveryRows, granted>>

CompleteCommit(s) ==
    /\ agent[s].pc = "complete"
    /\ project' = [project EXCEPT !.status = Written(@, agent[s].project, "completed")]
    /\ Turn(s, NoWork)
    /\ UNCHANGED <<customer, agentRun, task, taskApproval, deliverable, deliveryHistory>>

\* The session is rolled back (a refusal, an unique key, a failure), or its process dies.
GiveUp(s) ==
    /\ agent[s] # NoWork
    /\ Turn(s, NoWork)
    /\ UNCHANGED <<deliveryRows, deliveryHistory>>

DeliveryNext ==
    \/ ConvertLead
    \/ ProduceDeliverable
    \/ VerifyDeliverable
    \/ \E t \in Tasks : RequestSensitiveApproval(t) \/ OwnerDecides(t)
    \/ \E s \in Agents :
        \/ RunRead(s)
        \/ \E specs \in SUBSET Tasks : RunCommit(s, specs) \/ CreateTasksRead(s, specs)
        \/ RunCommitsFailure(s)
        \/ CreateTasksCommit(s)
        \/ \E t \in Tasks : ExecuteBlocked(s, t) \/ ExecuteRead(s, t) \/ VerifyRead(s, t)
        \/ ExecuteCommit(s)
        \/ VerifyFlush(s)
        \/ VerifyCommit(s)
        \/ VerifyProjectRead(s)
        \/ VerifyProjectCommit(s)
        \/ CompleteRead(s)
        \/ CompleteCommit(s)
        \/ GiveUp(s)

DeliverySpec == DeliveryInit /\ [][DeliveryNext]_deliveryVars

----------------------------------------------------------------------------
(* Properties.                                                             *)

ProjectStatuses == {"absent", "planning", "active", "delivery", "verification", "completed"}

DeliverableStatuses == {"absent", "draft", "ready"}

TaskStatuses == {"absent", "pending", "blocked", "review", "completed"}

DeliveryWork ==
    [pc : {"idle", "run"}]
    \cup [pc : {"create"}, new : SUBSET Tasks, project : ProjectStatuses]
    \cup [pc : {"execute"}, task : Tasks, as : {"blocked", "review"}, seen : TaskStatuses,
          project : ProjectStatuses]
    \cup [pc : {"verify"}, task : Tasks, project : ProjectStatuses]
    \cup [pc : {"flushed"}, task : Tasks, project : ProjectStatuses, all : BOOLEAN]
    \cup [pc : {"verify_project", "complete"}, project : ProjectStatuses]

\* Every variable of the delivery holds a value of its type.
DeliveryTypeOK ==
    /\ customer \in BOOLEAN
    /\ agentRun \in {"absent", "succeeded", "failed"}
    /\ project \in [status : ProjectStatuses, verified : BOOLEAN]
    /\ task \in [Tasks -> [status : TaskStatuses, verified : BOOLEAN]]
    /\ taskApproval \in [Tasks -> {"none", "pending", "approved", "refused"}]
    /\ deliverable \in DeliverableStatuses
    /\ agent \in [Agents -> DeliveryWork]
    /\ granted \subseteq Tasks
    /\ unchecked \subseteq Tasks

\* A task is verified only after everything it depends on, and a sensitive one only on
\* an approval of the owner, although sessions that read a task before it was completed
\* put its status back.
VerifiedInOrder ==
    \A t \in Verified :
        /\ DependsOn[t] \subseteq Verified
        /\ t \in Sensitive => t \in granted

\* The step that completes the project finds it verified, and every task of it that was
\* there when it decided: the exceptions are tasks added in between.
CompletedWasVerified ==
    [][project'.status = "completed" /\ project.status # "completed"
       => project.verified /\ Created \subseteq Verified \cup unchecked]_deliveryVars
=============================================================================
