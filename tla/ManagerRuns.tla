---------------------------- MODULE ManagerRuns ----------------------------
(***************************************************************************)
(* One run of the manager agent (agents/manager/agent.py): it plans tasks, *)
(* delegates them one after the other to the agents of the executor        *)
(* registry, retries what fails, and waits for the owner where the policy  *)
(* says so.  A run lives in one database session: the manager only flushes *)
(* until the run ends, but most agents commit that same session, and with  *)
(* it whatever the manager has flushed, and roll it back when the database *)
(* fails.  So the run exists twice, as the session sees it and as the      *)
(* database will still have it after a crash or a rollback.                *)
(*                                                                         *)
(* A run's tasks are the places of its plan; a place holds no task when    *)
(* its spec is a duplicate, when the plan is shorter, or past the cap.     *)
(***************************************************************************)
EXTENDS Naturals, FiniteSets

CONSTANTS
    Places,      \* length of the longest plan
    MaxTasks,    \* max_tasks_per_run
    MaxRetries,  \* max_retries, of a task; the run has as many for each task
    MaxRuntime   \* ticks in max_agent_runtime_seconds

ASSUME ManagerAssumption ==
    /\ Places \in Nat
    /\ MaxTasks \in Nat
    /\ MaxRetries \in Nat
    /\ MaxRuntime \in Nat

VARIABLES
    plan,     \* what each place of the plan asks for
    answer,   \* the owner's answer to the approval each task asked for
    db,       \* the run as committed
    mem,      \* the run as the manager's session sees it
    pc,       \* idle, in the loop, or waiting for an agent
    current,  \* the task that agent executes
    age,      \* ticks since run() or resume() was called
    \* history, read by no action of the system
    acted     \* executions of each task that the agent committed

vars == <<plan, answer, db, mem, pc, current, age, acted>>

Tasks == 1..Places

Delegable == {"green", "yellow", "red"}
Kinds     == Delegable \cup {"unknown", "nothing"}

Task(status) == [status |-> status, attempts |-> 0, asked |-> FALSE]
NoRun  == [status |-> "absent", created |-> 0, succeeded |-> 0, failed |-> 0,
           retries |-> 0, task |-> [i \in Tasks |-> Task("none")]]

Of(run, status) == {i \in Tasks : run.task[i].status = status}

----------------------------------------------------------------------------
\* _create_tasks stops looking at the plan once it has created MaxTasks.
Reached(i) ==
    Cardinality({j \in Tasks : j < i /\ plan[j] \in Delegable}) < MaxTasks

Created == {i \in Tasks : Reached(i) /\ plan[i] \in Delegable}
Invalid == {i \in Tasks : Reached(i) /\ plan[i] = "unknown"}

FirstStatus(i) ==
    IF i \in Created THEN "ready" ELSE IF i \in Invalid THEN "invalid" ELSE "none"

NewRun(status) ==
    [status |-> status, created |-> Cardinality(Created), succeeded |-> 0,
     failed |-> Cardinality(Invalid), retries |-> 0,
     task |-> [i \in Tasks |-> Task(FirstStatus(i))]]

\* evaluate_stop; the cost, the daily budget and the pilot's caps may stop a
\* run at any time and are left open in the action Stop.
RetriesSpent(run) ==
    /\ run.retries > 0
    /\ run.retries >= MaxRetries * (IF run.created > 1 THEN run.created ELSE 1)

RuntimeSpent == age >= MaxRuntime

MustStopByRetries == RetriesSpent(mem)

MustStop == RuntimeSpent \/ RetriesSpent(mem)

CanRetry(attempts) == attempts <= MaxRetries

GateUnlessAsked(i) ==
    CASE plan[i] = "red" -> "human_only"
      [] plan[i] \in {"green", "yellow"} /\ ~mem.task[i].asked -> "allow_auto"
      [] OTHER -> "deny"

\* evaluate_gate for the task's action, with the approval it asked for.
Gate(i) ==
    CASE plan[i] = "green" -> "allow_auto"
      [] plan[i] = "red"   -> "human_only"
      [] plan[i] = "yellow" /\ (~mem.task[i].asked \/ answer[i] = "pending")
                           -> "require_approval"
      [] plan[i] = "yellow" /\ mem.task[i].asked /\ answer[i] = "approved"
                           -> "allow_auto"
      [] OTHER             -> "deny"

\* What _sync_approval_tasks does to an awaiting task once the owner answered.
AfterAnswer(i) ==
    IF answer[i] = "approved" /\ plan[i] = "yellow" THEN "ready" ELSE "cancelled"

Answered(run) == {i \in Of(run, "awaiting") : run.task[i].asked /\ answer[i] # "pending"}

SyncedTask(run, i) ==
    IF i \in Answered(run) THEN [run.task[i] EXCEPT !.status = AfterAnswer(i)]
                           ELSE run.task[i]

SyncedUncounted(run) ==
    [run EXCEPT !.status = "running", !.task = [i \in Tasks |-> SyncedTask(run, i)]]

Synced(run) ==
    [run EXCEPT !.status = "running",
                !.failed = @ + Cardinality({i \in Answered(run) : AfterAnswer(i) = "cancelled"}),
                !.task = [i \in Tasks |-> SyncedTask(run, i)]]

FailedAfresh(run, i, status, retryable) ==
    IF retryable /\ CanRetry(run.task[i].attempts)
    THEN [run EXCEPT !.task[i].status = "ready", !.task[i].attempts = 0, !.retries = @ + 1]
    ELSE [run EXCEPT !.task[i].status = status, !.failed = @ + 1]

\* _handle_failure of a running task.
Failed(run, i, status, retryable) ==
    IF retryable /\ CanRetry(run.task[i].attempts)
    THEN [run EXCEPT !.task[i].status = "ready", !.retries = @ + 1]
    ELSE [run EXCEPT !.task[i].status = status, !.failed = @ + 1]

----------------------------------------------------------------------------
Init ==
    /\ plan \in [Tasks -> Kinds]
    /\ answer = [i \in Tasks |-> "pending"]
    /\ db = NoRun
    /\ mem = NoRun
    /\ pc = "idle"
    /\ current = 0
    /\ age = 0
    /\ acted = [i \in Tasks |-> 0]

Tick ==
    /\ pc # "idle"
    /\ ~RuntimeSpent
    /\ age' = age + 1
    /\ UNCHANGED <<plan, answer, db, mem, pc, current, acted>>

\* The owner answers an approval that is committed.  An answer of the owner's
\* may still be withdrawn: an expiry overwrites it (see Approvals).
OwnerAnswers(i) ==
    /\ db.task[i].asked
    /\ \/ answer[i] = "pending"  /\ answer' \in {[answer EXCEPT ![i] = a] : a \in {"approved", "refused"}}
       \/ answer[i] = "approved" /\ answer' = [answer EXCEPT ![i] = "withdrawn"]
    /\ UNCHANGED <<plan, db, mem, pc, current, age, acted>>

Enter(run) ==
    /\ pc' = "loop"
    /\ mem' = run
    /\ age' = 0
    /\ UNCHANGED <<plan, answer, db, current, acted>>

End(status) ==
    /\ pc' = "idle"
    /\ db' = [mem EXCEPT !.status = status]
    /\ mem' = NoRun
    /\ age' = 0
    /\ UNCHANGED <<plan, answer, current, acted>>

\* run(): a second call with the same idempotency key only answers.
Start ==
    /\ pc = "idle"
    /\ db = NoRun
    /\ Created # {}
    /\ Enter(NewRun("running"))

StartNothing ==
    /\ pc = "idle"
    /\ db = NoRun
    /\ Created = {}
    /\ db' = NewRun(IF Invalid # {} THEN "failed" ELSE "succeeded")
    /\ UNCHANGED <<plan, answer, mem, pc, current, age, acted>>

\* resume() looks at no status: any committed run may be taken up again.
Resume ==
    /\ pc = "idle"
    /\ db # NoRun
    /\ Enter(Synced(db))

Stop ==
    /\ pc = "loop"
    /\ End("stopped")

\* The loop takes the first ready task of the plan.
NextReady(i) ==
    /\ pc = "loop"
    /\ ~MustStop
    /\ mem.task[i].status = "ready"
    /\ \A j \in Tasks : j < i => mem.task[j].status # "ready"

RequestApproval(i) ==
    /\ NextReady(i)
    /\ \/ Gate(i) = "require_approval"
       \/ Gate(i) = "human_only" /\ ~mem.task[i].asked
    /\ mem' = [mem EXCEPT !.task[i].status = "awaiting", !.task[i].asked = TRUE]
    /\ UNCHANGED <<plan, answer, db, pc, current, age, acted>>

Cancel(i) ==
    /\ NextReady(i)
    /\ \/ Gate(i) = "deny"
       \/ Gate(i) = "human_only" /\ mem.task[i].asked
    /\ mem' = [mem EXCEPT !.task[i].status = "cancelled", !.failed = @ + 1]
    /\ UNCHANGED <<plan, answer, db, pc, current, age, acted>>

Delegate(i) ==
    /\ NextReady(i)
    /\ Gate(i) = "allow_auto"
    /\ mem' = [mem EXCEPT !.task[i].status = "running", !.task[i].attempts = @ + 1]
    /\ pc' = "execute"
    /\ current' = i
    /\ UNCHANGED <<plan, answer, db, age, acted>>

\* The agent answers.  Before it did, it committed the session or did not.
Persist ==
    \/ db' = mem /\ acted' = [acted EXCEPT ![current] = @ + 1]
    \/ UNCHANGED <<db, acted>>

BackToLoop ==
    /\ pc' = "loop"
    /\ current' = 0
    /\ UNCHANGED <<plan, answer, age>>

AgentSucceeds ==
    /\ pc = "execute"
    /\ Persist
    /\ mem' = [mem EXCEPT !.task[current].status = "succeeded", !.succeeded = @ + 1]
    /\ BackToLoop

AgentFails ==
    /\ pc = "execute"
    /\ Persist
    /\ \/ \E retryable \in BOOLEAN : mem' = Failed(mem, current, "failed", retryable)
       \/ mem' = Failed(mem, current, "timed_out", TRUE)
    /\ BackToLoop

\* The database failed under the agent, which rolled the session back: the
\* manager goes on with the run as committed.
AgentRollsBack ==
    /\ pc = "execute"
    /\ db.task[current].status = "running"
    /\ mem' = Failed(db, current, "failed", TRUE)
    /\ BackToLoop
    /\ UNCHANGED <<db, acted>>

\* The committed task was not running, so failing it is an invalid transition,
\* which ends the run.
AgentUndoesDelegation ==
    /\ pc = "execute"
    /\ db # NoRun
    /\ db.task[current].status # "running"
    /\ pc' = "idle"
    /\ db' = [db EXCEPT !.status = "failed"]
    /\ mem' = NoRun
    /\ current' = 0
    /\ age' = 0
    /\ UNCHANGED <<plan, answer, acted>>

AwaitOwner ==
    /\ pc = "loop"
    /\ ~MustStop
    /\ Of(mem, "ready") = {}
    /\ Of(mem, "awaiting") # {}
    /\ End("awaiting_approval")

CompleteRegardless ==
    /\ pc = "loop"
    /\ ~MustStop
    /\ Of(mem, "ready") = {}
    /\ \/ End("succeeded")
       \/ mem.succeeded = 0 /\ End("failed")

\* _complete_or_fail: the goal is measured in the business state.
Complete ==
    /\ pc = "loop"
    /\ ~MustStop
    /\ Of(mem, "ready") = {}
    /\ Of(mem, "awaiting") = {}
    /\ \/ End("succeeded")
       \/ mem.succeeded = 0 /\ End("failed")

\* The process dies, or the agent rolled back a run that was never committed
\* and the request fails with it.
Abandon ==
    /\ pc # "idle"
    /\ pc' = "idle"
    /\ mem' = NoRun
    /\ current' = 0
    /\ age' = 0
    /\ UNCHANGED <<plan, answer, db, acted>>

Process(i) == RequestApproval(i) \/ Cancel(i) \/ Delegate(i)

AgentAnswers == AgentSucceeds \/ AgentFails \/ AgentRollsBack \/ AgentUndoesDelegation

Session ==
    \/ Stop \/ AwaitOwner \/ Complete
    \/ \E i \in Tasks : Process(i)
    \/ AgentAnswers

Next ==
    \/ Start \/ StartNothing \/ Resume
    \/ Session
    \/ Abandon
    \/ Tick
    \/ \E i \in Tasks : OwnerAnswers(i)

\* The clock runs, and a session takes its next step: the loop never waits,
\* and every agent's call returns, its providers' calls being timed out.
Fairness == WF_vars(Tick) /\ WF_vars(Session)

Spec == Init /\ [][Next]_vars /\ Fairness
----------------------------------------------------------------------------
RunStatuses  == {"absent", "running", "succeeded", "failed", "stopped",
                 "awaiting_approval"}
TaskStatuses == {"none", "ready", "awaiting", "running", "succeeded",
                 "failed", "timed_out", "cancelled", "invalid"}

TaskRows == [status : TaskStatuses, attempts : 0..(MaxRetries + 1), asked : BOOLEAN]
Runs     == [status : RunStatuses, created : Nat, succeeded : Nat, failed : Nat,
             retries : Nat, task : [Tasks -> TaskRows]]

(* The variables keep their types: no task is attempted more than once and   *)
(* max_retries times again, in the session or in the database (can_retry).   *)
TypeOK ==
    /\ plan \in [Tasks -> Kinds]
    /\ answer \in [Tasks -> {"pending", "approved", "refused", "withdrawn"}]
    /\ db \in Runs
    /\ mem \in Runs
    /\ pc \in {"idle", "loop", "execute"}
    /\ current \in 0..Places
    /\ (pc = "execute") = (current # 0)
    /\ age \in 0..MaxRuntime
    /\ acted \in [Tasks -> Nat]

(* What an agent committed is never forgotten: however often the session is  *)
(* rolled back, abandoned or taken up again, the run's row counts every      *)
(* committed execution of a task as an attempt, so that no task has effects  *)
(* more than max_retries + 1 times (_process_task counts the attempt before  *)
(* it calls the agent, whose commit carries the count).                      *)
EffectsAreCounted ==
    \A i \in Tasks :
        /\ acted[i] <= db.task[i].attempts
        /\ acted[i] <= MaxRetries + 1

(* Work that needs the owner waits for the owner: a task that was ever       *)
(* attempted is GREEN, or YELLOW and the owner approved it, whatever         *)
(* happened to the approval since; RED and unknown tasks are never attempted *)
(* (_process_task, _sync_approval_tasks).                                    *)
WorkNeedsAnswer ==
    \A run \in {db, mem} : \A i \in Tasks :
        run.task[i].attempts > 0 =>
            \/ plan[i] = "green"
            \/ plan[i] = "yellow" /\ answer[i] \in {"approved", "withdrawn"}

(* The run's counters, which decide how it ends and what the owner is told,  *)
(* agree with its tasks, in the session and in the database, across retries, *)
(* rollbacks and resumes (tasks_succeeded, tasks_failed, retry_count).  A    *)
(* retry was counted for each attempt but the one whose result stands, or is *)
(* awaited.                                                                  *)
RetriesOf(task) ==
    IF task.attempts > 0 /\ task.status \notin {"ready", "cancelled"}
    THEN task.attempts - 1 ELSE task.attempts

Retried(run) ==
    {retry \in Tasks \X (1..(MaxRetries + 1)) : retry[2] <= RetriesOf(run.task[retry[1]])}

CountersAgree ==
    \A run \in {db, mem} :
        /\ run.succeeded = Cardinality(Of(run, "succeeded"))
        /\ run.failed = Cardinality({i \in Tasks : run.task[i].status \in
                            {"failed", "timed_out", "cancelled", "invalid"}})
        /\ run.retries = Cardinality(Retried(run))

(* A run reported SUCCEEDED has nothing left to do: no task of it is ready   *)
(* or waits for the owner, and one left RUNNING by a crash is one whose      *)
(* agent had committed its work (_complete_or_fail, resume).                 *)
SucceededIsSettled ==
    db.status = "succeeded" =>
        /\ Of(db, "ready") \cup Of(db, "awaiting") = {}
        /\ \A i \in Of(db, "running") : acted[i] > 0

(* Every session of a run ends, although a rollback also undoes the count of *)
(* attempts and retries: the runtime limit always stops the loop             *)
(* (evaluate_stop).                                                          *)
SessionEnds == pc # "idle" ~> pc = "idle"
=============================================================================
