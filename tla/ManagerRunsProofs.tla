------------------------- MODULE ManagerRunsProofs -------------------------
(***************************************************************************)
(* Proofs about manager runs, for any plan, caps and limits.  A rollback   *)
(* takes the session back to the committed run, so each part of the        *)
(* invariant is kept of both copies, and related to what was committed.    *)
(***************************************************************************)
EXTENDS ManagerRuns, FiniteSetTheorems, TLAPS

Waiting == {"ready", "awaiting"}

\* What may still be attempted has an attempt left.
AttemptsLeft(run) ==
    \A i \in Tasks : run.task[i].status \in Waiting => run.task[i].attempts <= MaxRetries

\* Only work that the owner need not, or did, approve has been attempted.
Allowed(i) ==
    \/ plan[i] = "green"
    \/ plan[i] = "yellow" /\ answer[i] \in {"approved", "withdrawn"}

Granted(run) == \A i \in Tasks : run.task[i].attempts > 0 => Allowed(i)

\* The session has counted what was committed, and the attempt under way.
SessionCounts ==
    \A i \in Tasks :
        /\ pc # "idle" => acted[i] <= mem.task[i].attempts
        /\ i = current => acted[i] < mem.task[i].attempts

\* A task is running because its agent runs, or because the agent committed it.
RunningIsCommitted ==
    \A i \in Tasks :
        /\ db.task[i].status = "running" => acted[i] > 0
        /\ mem.task[i].status = "running" /\ i # current => acted[i] > 0

CurrentRuns == pc = "execute" => mem.task[current].status = "running"

\* A session on a run that had succeeded finds nothing to do.
NothingLeft(run) == \A i \in Tasks : run.task[i].status \notin Waiting

NothingAfterSuccess ==
    pc # "idle" =>
        /\ mem.status # "succeeded"
        /\ db.status = "succeeded" => pc = "loop" /\ NothingLeft(mem)

IInv ==
    /\ TypeOK
    /\ AttemptsLeft(db) /\ AttemptsLeft(mem)
    /\ Granted(db) /\ Granted(mem)
    /\ \A i \in Tasks : acted[i] <= db.task[i].attempts
    /\ SessionCounts
    /\ RunningIsCommitted
    /\ CurrentRuns
    /\ db.status = "succeeded" => NothingLeft(db)
    /\ NothingAfterSuccess

----------------------------------------------------------------------------
LEMMA NoRunType ==
    /\ NoRun \in Runs
    /\ \A i \in Tasks : NoRun.task[i] = Task("none")
    /\ NoRun.status = "absent"
BY ManagerAssumption DEF NoRun, Task, Runs, TaskRows, RunStatuses, TaskStatuses

\* The tasks are finitely many, so that any of them can be counted.
LEMMA CountType ==
    ASSUME NEW S \in SUBSET Tasks
    PROVE  Cardinality(S) \in Nat
<1>1. IsFiniteSet(Tasks)
  BY ManagerAssumption, FS_Interval DEF Tasks
<1>2. IsFiniteSet(S)
  BY <1>1, FS_Subset
<1>. QED
  BY <1>2, FS_CardinalityType

\* The row of a task that is set on its way: what a copy of the run has
\* become after one of its tasks was changed.
Changes(run, new, i) ==
    /\ new \in Runs
    /\ new.status = run.status
    /\ \A j \in Tasks \ {i} : new.task[j] = run.task[j]

With(run, i, row, a, b, c) ==
    [status |-> run.status, created |-> run.created, succeeded |-> a,
     failed |-> b, retries |-> c, task |-> [run.task EXCEPT ![i] = row]]

LEMMA WithType ==
    ASSUME NEW run \in Runs, NEW i \in Tasks, NEW row \in TaskRows,
           NEW a \in Nat, NEW b \in Nat, NEW c \in Nat
    PROVE  /\ Changes(run, With(run, i, row, a, b, c), i)
           /\ With(run, i, row, a, b, c).task[i] = row
BY DEF With, Changes, Runs

LEMMA NewRunType ==
    ASSUME NEW s \in RunStatuses
    PROVE  /\ NewRun(s) \in Runs
           /\ NewRun(s).status = s
           /\ Created = {} => NothingLeft(NewRun(s))
           /\ \A i \in Tasks : /\ NewRun(s).task[i].attempts = 0
                               /\ NewRun(s).task[i].status # "running"
<1>. DEFINE tasks == [i \in Tasks |-> Task(FirstStatus(i))]
<1>1. \A i \in Tasks : FirstStatus(i) \in {"none", "invalid", "ready"}
  BY DEF FirstStatus
<1>2. ASSUME NEW x \in {"none", "invalid", "ready"}
      PROVE  Task(x) \in TaskRows /\ Task(x).status = x /\ Task(x).attempts = 0
  BY ManagerAssumption DEF Task, TaskRows, TaskStatuses
<1>3. \A i \in Tasks : tasks[i] = Task(FirstStatus(i))
  OBVIOUS
<1>4. tasks \in [Tasks -> TaskRows]
  BY <1>1, <1>2
<1>5. Cardinality(Created) \in Nat /\ Cardinality(Invalid) \in Nat
  BY CountType DEF Created, Invalid
<1>6. NewRun(s) = [status |-> s, created |-> Cardinality(Created), succeeded |-> 0,
                   failed |-> Cardinality(Invalid), retries |-> 0, task |-> tasks]
  BY DEF NewRun
<1>7. /\ NewRun(s) \in Runs
      /\ NewRun(s).task = tasks
      /\ NewRun(s).status = s
  <2>. HIDE DEF tasks
  <2>. QED
    BY <1>4, <1>5, <1>6 DEF Runs
<1>8. Created = {} => \A i \in Tasks : FirstStatus(i) \in {"none", "invalid"}
  BY DEF FirstStatus
<1>. QED
  BY <1>1, <1>2, <1>3, <1>7, <1>8 DEF NothingLeft, Waiting

LEMMA SyncedType ==
    ASSUME NEW run \in Runs
    PROVE  /\ Synced(run) \in Runs
           /\ Synced(run).status = "running"
           /\ \A i \in Tasks :
                /\ Synced(run).task[i].attempts = run.task[i].attempts
                /\ \/ Synced(run).task[i].status = run.task[i].status
                   \/ /\ run.task[i].status = "awaiting"
                      /\ Synced(run).task[i].status \in {"ready", "cancelled"}
<1>. DEFINE cancelled == Cardinality({i \in Answered(run) : AfterAnswer(i) = "cancelled"})
            tasks == [i \in Tasks |-> SyncedTask(run, i)]
<1>1. cancelled \in Nat
  <2>1. {i \in Answered(run) : AfterAnswer(i) = "cancelled"} \subseteq Tasks
    BY DEF Answered, Of
  <2>. QED
    BY <2>1, CountType
<1>2. ASSUME NEW i \in Tasks
      PROVE  /\ SyncedTask(run, i) \in TaskRows
             /\ SyncedTask(run, i).attempts = run.task[i].attempts
             /\ \/ SyncedTask(run, i).status = run.task[i].status
                \/ /\ run.task[i].status = "awaiting"
                   /\ SyncedTask(run, i).status \in {"ready", "cancelled"}
  <2>1. run.task[i] \in TaskRows
    BY DEF Runs
  <2>2. AfterAnswer(i) \in {"ready", "cancelled"}
    BY DEF AfterAnswer
  <2>3. i \in Answered(run) => run.task[i].status = "awaiting"
    BY DEF Answered, Of
  <2>. QED
    BY <2>1, <2>2, <2>3 DEF SyncedTask, TaskRows, TaskStatuses
<1>3. tasks \in [Tasks -> TaskRows] /\ \A i \in Tasks : tasks[i] = SyncedTask(run, i)
  BY <1>2
<1>4. Synced(run) = [status |-> "running", created |-> run.created,
                     succeeded |-> run.succeeded, failed |-> run.failed + cancelled,
                     retries |-> run.retries, task |-> tasks]
  <2>. HIDE DEF cancelled, tasks
  <2>1. Synced(run) = [run EXCEPT !.status = "running", !.failed = run.failed + cancelled,
                                  !.task = tasks]
    BY DEF Synced, cancelled, tasks
  <2>. QED
    BY <2>1 DEF Runs
<1>5. /\ run.created \in Nat /\ run.succeeded \in Nat
      /\ run.failed \in Nat /\ run.retries \in Nat
  BY DEF Runs
<1>6. Synced(run) \in Runs /\ Synced(run).task = tasks /\ Synced(run).status = "running"
  <2>. HIDE DEF cancelled, tasks
  <2>. QED
    BY <1>1, <1>3, <1>4, <1>5 DEF Runs, RunStatuses
<1>. QED
  BY <1>2, <1>3, <1>6

\* A failed task waits for its retry, while it has one, or stays failed.
LEMMA FailedType ==
    ASSUME NEW run \in Runs, NEW i \in Tasks, NEW retryable \in BOOLEAN,
           NEW s \in {"failed", "timed_out"},
           NEW new, new = Failed(run, i, s, retryable)
    PROVE  /\ Changes(run, new, i)
           /\ new.task[i].attempts = run.task[i].attempts
           /\ new.task[i].status \in {"failed", "timed_out", "ready"}
           /\ new.task[i].status = "ready" => run.task[i].attempts <= MaxRetries
<1>1. run.task[i] \in TaskRows /\ run.task \in [Tasks -> TaskRows]
  BY DEF Runs
<1>2. run.succeeded \in Nat /\ run.failed \in Nat /\ run.retries \in Nat
  BY DEF Runs
<1>3. CASE retryable /\ CanRetry(run.task[i].attempts)
  <2>. DEFINE row == [run.task[i] EXCEPT !.status = "ready"]
  <2>1. row \in TaskRows /\ row.attempts = run.task[i].attempts /\ row.status = "ready"
    BY <1>1 DEF TaskRows, TaskStatuses
  <2>2. new = With(run, i, row, run.succeeded, run.failed, run.retries + 1)
    BY <1>3, <1>1 DEF Failed, With, Runs
  <2>. HIDE DEF row
  <2>3. run.retries + 1 \in Nat
    BY <1>2
  <2>4. Changes(run, new, i) /\ new.task[i] = row
    BY <1>2, <2>1, <2>2, <2>3, WithType
  <2>. QED
    BY <1>3, <2>1, <2>4 DEF CanRetry
<1>4. CASE ~(retryable /\ CanRetry(run.task[i].attempts))
  <2>. DEFINE row == [run.task[i] EXCEPT !.status = s]
  <2>1. row \in TaskRows /\ row.attempts = run.task[i].attempts /\ row.status = s
    BY <1>1 DEF TaskRows, TaskStatuses
  <2>2. new = With(run, i, row, run.succeeded, run.failed + 1, run.retries)
    BY <1>4, <1>1 DEF Failed, With, Runs
  <2>. HIDE DEF row
  <2>3. run.failed + 1 \in Nat
    BY <1>2
  <2>4. Changes(run, new, i) /\ new.task[i] = row
    BY <1>2, <2>1, <2>2, <2>3, WithType
  <2>. QED
    BY <2>1, <2>4
<1>. QED
  BY <1>3, <1>4
----------------------------------------------------------------------------
\* What a session leaves when it is over, however it is.
LEMMA NoSession ==
    ASSUME IInv, pc' = "idle", current' = 0, age' = 0, mem' = NoRun,
           UNCHANGED <<plan, answer, acted>>, db' \in Runs,
           AttemptsLeft(db'), Granted(db'),
           \A i \in Tasks : acted[i] <= db'.task[i].attempts,
           \A i \in Tasks : db'.task[i].status = "running" => acted[i] > 0,
           db'.status = "succeeded" => NothingLeft(db')
    PROVE  IInv'
<1>1. /\ mem' \in Runs
      /\ \A i \in Tasks : mem'.task[i].status = "none" /\ mem'.task[i].attempts = 0
  BY NoRunType DEF Task
<1>2. TypeOK'
  BY <1>1, ManagerAssumption DEF IInv, TypeOK
<1>3. AttemptsLeft(mem)' /\ AttemptsLeft(db)'
  BY <1>1 DEF AttemptsLeft, Waiting
<1>4. Granted(mem)' /\ Granted(db)'
  BY <1>1 DEF Granted, Allowed
<1>5. 0 \notin Tasks
  BY DEF Tasks
<1>6. SessionCounts' /\ RunningIsCommitted' /\ CurrentRuns' /\ NothingAfterSuccess'
  BY <1>1, <1>5 DEF SessionCounts, RunningIsCommitted, CurrentRuns, NothingAfterSuccess
<1>. QED
  BY <1>2, <1>3, <1>4, <1>6 DEF IInv, NothingLeft

\* A session's commit at its end.
LEMMA EndInv ==
    ASSUME IInv, pc = "loop", NEW s \in RunStatuses, End(s),
           s = "succeeded" => NothingLeft(mem)
    PROVE  IInv'
<1>1. mem \in Runs /\ current = 0
  BY DEF IInv, TypeOK
<1>2. db' \in Runs /\ db'.task = mem.task /\ db'.status = s
  BY <1>1 DEF End, Runs
<1>3. 0 \notin Tasks
  BY DEF Tasks
<1>4. AttemptsLeft(db') /\ Granted(db')
  BY <1>2 DEF IInv, AttemptsLeft, Granted
<1>5. \A i \in Tasks : /\ acted[i] <= db'.task[i].attempts
                       /\ db'.task[i].status = "running" => acted[i] > 0
  BY <1>1, <1>2, <1>3 DEF IInv, SessionCounts, RunningIsCommitted
<1>6. db'.status = "succeeded" => NothingLeft(db')
  BY <1>2 DEF NothingLeft
<1>. QED
  BY <1>1, <1>2, <1>4, <1>5, <1>6, NoSession DEF End

\* A session's beginning.
LEMMA EnterInv ==
    ASSUME IInv, pc = "idle", NEW run \in Runs, Enter(run),
           run.status = "running",
           AttemptsLeft(run),
           \A i \in Tasks : run.task[i].attempts = db.task[i].attempts,
           \A i \in Tasks : run.task[i].status = "running" => db.task[i].status = "running",
           db.status = "succeeded" => NothingLeft(run)
    PROVE  IInv'
<1>1. /\ pc' = "loop" /\ mem' = run /\ age' = 0 /\ current = 0
      /\ UNCHANGED <<plan, answer, db, current, acted>>
  BY DEF Enter, IInv, TypeOK
<1>2. 0 \notin Tasks
  BY DEF Tasks
<1>3. TypeOK'
  BY <1>1, ManagerAssumption DEF IInv, TypeOK
<1>4. AttemptsLeft(db)' /\ AttemptsLeft(mem)'
  BY <1>1 DEF IInv, AttemptsLeft
<1>5. Granted(db)' /\ Granted(mem)'
  BY <1>1 DEF IInv, Granted, Allowed
<1>6. SessionCounts' /\ RunningIsCommitted' /\ CurrentRuns'
  BY <1>1, <1>2 DEF IInv, SessionCounts, RunningIsCommitted, CurrentRuns
<1>7. NothingAfterSuccess'
  BY <1>1 DEF NothingAfterSuccess, NothingLeft
<1>. QED
  BY <1>1, <1>3, <1>4, <1>5, <1>6, <1>7 DEF IInv, NothingLeft

LEMMA StartInv ==
    ASSUME IInv, Start
    PROVE  IInv'
<1>. DEFINE new == NewRun("running")
<1>1. /\ new \in Runs
      /\ new.status = "running"
      /\ \A i \in Tasks : new.task[i].attempts = 0 /\ new.task[i].status # "running"
  BY NewRunType DEF RunStatuses
<1>2. \A i \in Tasks : db.task[i].attempts = 0
  BY NoRunType DEF Start, Task
<1>3. db.status # "succeeded"
  BY NoRunType DEF Start
<1>4. AttemptsLeft(new)
  BY <1>1, ManagerAssumption DEF AttemptsLeft
<1>. HIDE DEF new
<1>5. pc = "idle" /\ Enter(new)
  BY DEF Start, new
<1>. QED
  BY <1>1, <1>2, <1>3, <1>4, <1>5, EnterInv

LEMMA ResumeInv ==
    ASSUME IInv, Resume
    PROVE  IInv'
<1>. DEFINE new == Synced(db)
<1>1. db \in Runs
  BY DEF IInv, TypeOK
<1>2. /\ new \in Runs
      /\ new.status = "running"
      /\ \A i \in Tasks :
           /\ new.task[i].attempts = db.task[i].attempts
           /\ \/ new.task[i].status = db.task[i].status
              \/ /\ db.task[i].status = "awaiting"
                 /\ new.task[i].status \in {"ready", "cancelled"}
  BY <1>1, SyncedType
<1>3. AttemptsLeft(new)
  BY <1>2 DEF IInv, AttemptsLeft, Waiting
<1>4. db.status = "succeeded" => NothingLeft(new)
  BY <1>2 DEF IInv, NothingLeft, Waiting
<1>. HIDE DEF new
<1>5. pc = "idle" /\ Enter(new)
  BY DEF Resume, new
<1>. QED
  BY <1>2, <1>3, <1>4, <1>5, EnterInv

\* A plan with nothing to delegate is committed at once.
LEMMA StartNothingInv ==
    ASSUME IInv, StartNothing
    PROVE  IInv'
<1>. DEFINE s == IF Invalid # {} THEN "failed" ELSE "succeeded"
<1>1. s \in RunStatuses
  BY DEF RunStatuses
<1>2. db' = NewRun(s) /\ Created = {} /\ db = NoRun /\ pc = "idle"
      /\ UNCHANGED <<plan, answer, mem, pc, current, age, acted>>
  BY DEF StartNothing
<1>. HIDE DEF s
<1>3. /\ db' \in Runs
      /\ NothingLeft(db')
      /\ \A i \in Tasks : db'.task[i].attempts = 0 /\ db'.task[i].status # "running"
  BY <1>1, <1>2, NewRunType
<1>4. \A i \in Tasks : acted[i] <= 0
  BY <1>2, NoRunType DEF IInv, Task
<1>5. TypeOK'
  BY <1>2, <1>3 DEF IInv, TypeOK
<1>6. AttemptsLeft(db)' /\ AttemptsLeft(mem)'
  BY <1>2, <1>3 DEF IInv, AttemptsLeft, NothingLeft
<1>7. Granted(db)' /\ Granted(mem)'
  BY <1>2, <1>3 DEF IInv, Granted, Allowed
<1>8. SessionCounts' /\ RunningIsCommitted' /\ CurrentRuns' /\ NothingAfterSuccess'
  BY <1>2, <1>3 DEF IInv, SessionCounts, RunningIsCommitted, CurrentRuns, NothingAfterSuccess
<1>9. \A i \in Tasks : acted'[i] <= db'.task[i].attempts
  BY <1>2, <1>3, <1>4
<1>. QED
  BY <1>3, <1>5, <1>6, <1>7, <1>8, <1>9 DEF IInv, NothingLeft
----------------------------------------------------------------------------
\* The loop sets a ready task aside.
LEMMA SetAsideInv ==
    ASSUME IInv, pc = "loop", NEW i \in Tasks, mem.task[i].status = "ready",
           Changes(mem, mem', i),
           mem'.task[i].attempts = mem.task[i].attempts,
           mem'.task[i].status \in {"awaiting", "cancelled"},
           UNCHANGED <<plan, answer, db, pc, current, age, acted>>
    PROVE  IInv'
<1>1. mem' \in Runs /\ mem'.status = mem.status
      /\ \A j \in Tasks : j # i => mem'.task[j] = mem.task[j]
  BY DEF Changes
<1>2. TypeOK'
  BY <1>1 DEF IInv, TypeOK
<1>3. AttemptsLeft(db)' /\ AttemptsLeft(mem)'
  BY <1>1 DEF IInv, AttemptsLeft, Waiting
<1>4. Granted(db)' /\ Granted(mem)'
  BY <1>1 DEF IInv, Granted, Allowed
<1>5. SessionCounts' /\ RunningIsCommitted'
  BY <1>1 DEF IInv, SessionCounts, RunningIsCommitted
<1>6. db.status # "succeeded"
  BY DEF IInv, NothingAfterSuccess, NothingLeft, Waiting
<1>7. CurrentRuns' /\ NothingAfterSuccess'
  BY <1>1, <1>6 DEF IInv, CurrentRuns, NothingAfterSuccess
<1>. QED
  BY <1>2, <1>3, <1>4, <1>5, <1>7 DEF IInv, NothingLeft

LEMMA TaskType ==
    ASSUME IInv, NEW i \in Tasks
    PROVE  /\ mem \in Runs
           /\ mem.task \in [Tasks -> TaskRows]
           /\ mem.task[i] \in TaskRows
           /\ mem.succeeded \in Nat /\ mem.failed \in Nat /\ mem.retries \in Nat
BY DEF IInv, TypeOK, Runs

LEMMA RequestApprovalInv ==
    ASSUME IInv, NEW i \in Tasks, RequestApproval(i)
    PROVE  IInv'
<1>. DEFINE row == [mem.task[i] EXCEPT !.status = "awaiting", !.asked = TRUE]
<1>1. row \in TaskRows /\ row.attempts = mem.task[i].attempts /\ row.status = "awaiting"
  BY TaskType DEF TaskRows, TaskStatuses
<1>2. mem' = With(mem, i, row, mem.succeeded, mem.failed, mem.retries)
  BY TaskType DEF RequestApproval, With, Runs
<1>. HIDE DEF row
<1>3. Changes(mem, mem', i) /\ mem'.task[i] = row
  BY <1>1, <1>2, TaskType, WithType
<1>4. /\ pc = "loop" /\ mem.task[i].status = "ready"
      /\ UNCHANGED <<plan, answer, db, pc, current, age, acted>>
  BY DEF RequestApproval, NextReady
<1>. QED
  BY <1>1, <1>3, <1>4, SetAsideInv

LEMMA CancelInv ==
    ASSUME IInv, NEW i \in Tasks, Cancel(i)
    PROVE  IInv'
<1>. DEFINE row == [mem.task[i] EXCEPT !.status = "cancelled"]
<1>1. row \in TaskRows /\ row.attempts = mem.task[i].attempts /\ row.status = "cancelled"
  BY TaskType DEF TaskRows, TaskStatuses
<1>2. mem' = With(mem, i, row, mem.succeeded, mem.failed + 1, mem.retries)
  BY TaskType DEF Cancel, With, Runs
<1>3. mem.failed + 1 \in Nat
  BY TaskType
<1>. HIDE DEF row
<1>4. mem \in Runs /\ mem.succeeded \in Nat /\ mem.retries \in Nat
  BY TaskType
<1>5. Changes(mem, mem', i) /\ mem'.task[i] = row
  BY <1>1, <1>2, <1>3, <1>4, WithType
<1>6. /\ pc = "loop" /\ mem.task[i].status = "ready"
      /\ UNCHANGED <<plan, answer, db, pc, current, age, acted>>
  BY DEF Cancel, NextReady
<1>. QED
  BY <1>1, <1>5, <1>6, SetAsideInv

\* A delegated task had an attempt left, and needed no answer or has it.
LEMMA DelegateInv ==
    ASSUME IInv, NEW i \in Tasks, Delegate(i)
    PROVE  IInv'
<1>. DEFINE row == [mem.task[i] EXCEPT !.status = "running",
                                       !.attempts = mem.task[i].attempts + 1]
<1>1. /\ pc = "loop" /\ mem.task[i].status = "ready"
      /\ pc' = "execute" /\ current' = i
      /\ UNCHANGED <<plan, answer, db, age, acted>>
  BY DEF Delegate, NextReady
<1>2. mem.task[i].attempts \in 0..MaxRetries
  BY <1>1, TaskType, ManagerAssumption DEF IInv, AttemptsLeft, Waiting, TaskRows
<1>3. /\ row \in TaskRows
      /\ row.attempts = mem.task[i].attempts + 1
      /\ row.status = "running"
  <2>1. mem.task[i].attempts + 1 \in 0..(MaxRetries + 1)
    BY <1>2, ManagerAssumption
  <2>2. mem.task[i] \in TaskRows
    BY TaskType
  <2>. QED
    BY <2>1, <2>2 DEF TaskRows, TaskStatuses
<1>4. mem' = With(mem, i, row, mem.succeeded, mem.failed, mem.retries)
  BY TaskType DEF Delegate, With, Runs
<1>. HIDE DEF row
<1>5. /\ mem' \in Runs /\ mem'.status = mem.status /\ mem'.task[i] = row
      /\ \A j \in Tasks : j # i => mem'.task[j] = mem.task[j]
  <2>1. /\ mem \in Runs
        /\ mem.succeeded \in Nat /\ mem.failed \in Nat /\ mem.retries \in Nat
    BY TaskType
  <2>2. Changes(mem, mem', i) /\ mem'.task[i] = row
    BY <1>3, <1>4, <2>1, WithType
  <2>. QED
    BY <2>2 DEF Changes
<1>6. i \in 1..Places /\ i # 0 /\ current = 0
  BY <1>1 DEF Tasks, IInv, TypeOK
<1>7. TypeOK'
  BY <1>1, <1>5, <1>6, ManagerAssumption DEF IInv, TypeOK
<1>8. AttemptsLeft(db)' /\ AttemptsLeft(mem)'
  BY <1>1, <1>3, <1>5 DEF IInv, AttemptsLeft, Waiting
<1>9. Allowed(i)
  BY DEF Delegate, Gate, Allowed
<1>10. Granted(db)' /\ Granted(mem)'
  BY <1>1, <1>5, <1>9 DEF IInv, Granted, Allowed
<1>11. \A j \in Tasks : acted[j] \in Nat
  BY DEF IInv, TypeOK
<1>12. SessionCounts'
  BY <1>1, <1>2, <1>3, <1>5, <1>11 DEF IInv, SessionCounts
<1>13. 0 \notin Tasks
  BY DEF Tasks
<1>14. RunningIsCommitted' /\ CurrentRuns'
  BY <1>1, <1>3, <1>5, <1>6, <1>13 DEF IInv, RunningIsCommitted, CurrentRuns
<1>15. db.status # "succeeded"
  BY <1>1 DEF IInv, NothingAfterSuccess, NothingLeft, Waiting
<1>16. NothingAfterSuccess'
  BY <1>1, <1>5, <1>15 DEF IInv, NothingAfterSuccess
<1>. QED
  BY <1>1, <1>7, <1>8, <1>10, <1>12, <1>14, <1>16 DEF IInv, NothingLeft

\* What the database and the history are after an agent committed or did not.
LEMMA PersistFacts ==
    ASSUME IInv, pc = "execute", Persist
    PROVE  /\ current \in Tasks
           /\ db' \in Runs /\ acted' \in [Tasks -> Nat]
           /\ db'.status # "succeeded"
           /\ \A i \in Tasks :
                /\ acted[i] <= acted'[i]
                /\ acted'[i] <= db'.task[i].attempts
                /\ acted'[i] <= mem.task[i].attempts
                /\ db'.task[i].status = "running" => acted'[i] > 0
                /\ db'.task[i] \in {db.task[i], mem.task[i]}
<1>1. current \in Tasks
  BY DEF IInv, TypeOK, Tasks
<1>2. /\ db \in Runs /\ mem \in Runs /\ acted \in [Tasks -> Nat]
      /\ \A i \in Tasks : acted[i] \in Nat
      /\ \A i \in Tasks : mem.task[i].attempts \in Nat
  BY ManagerAssumption DEF IInv, TypeOK, Runs, TaskRows
<1>3. db.status # "succeeded" /\ mem.status # "succeeded"
  BY DEF IInv, NothingAfterSuccess
<1>4. \A i \in Tasks : /\ acted[i] <= mem.task[i].attempts
                       /\ acted[i] <= db.task[i].attempts
                       /\ i = current => acted[i] < mem.task[i].attempts
  BY DEF IInv, SessionCounts
<1>5. CASE db' = mem /\ acted' = [acted EXCEPT ![current] = @ + 1]
  <2>1. /\ acted' \in [Tasks -> Nat]
        /\ \A i \in Tasks : acted'[i] = IF i = current THEN acted[i] + 1 ELSE acted[i]
    BY <1>1, <1>2, <1>5
  <2>2. \A i \in Tasks : mem.task[i].status = "running" => acted'[i] > 0
    BY <1>2, <2>1 DEF IInv, RunningIsCommitted
  <2>3. \A i \in Tasks : acted[i] <= acted'[i] /\ acted'[i] <= mem.task[i].attempts
    BY <1>2, <1>4, <2>1
  <2>. QED
    BY <1>1, <1>2, <1>3, <1>5, <2>1, <2>2, <2>3
<1>6. CASE UNCHANGED <<db, acted>>
  BY <1>1, <1>2, <1>3, <1>4, <1>6 DEF IInv, RunningIsCommitted
<1>. QED
  BY <1>5, <1>6 DEF Persist

\* The manager is back in its loop with the delegated task settled in a copy
\* of the run that counts every committed execution.
LEMMA BackInv ==
    ASSUME IInv, pc = "execute", BackToLoop, current \in Tasks,
           db' \in Runs, acted' \in [Tasks -> Nat], db'.status # "succeeded",
           NEW run \in Runs, run.status # "succeeded",
           AttemptsLeft(run), Granted(run), AttemptsLeft(db'), Granted(db'),
           Changes(run, mem', current),
           mem'.task[current].attempts = run.task[current].attempts,
           mem'.task[current].status # "running",
           mem'.task[current].status \in Waiting =>
                run.task[current].attempts <= MaxRetries,
           \A i \in Tasks :
                /\ acted'[i] <= db'.task[i].attempts
                /\ acted'[i] <= run.task[i].attempts
                /\ db'.task[i].status = "running" => acted'[i] > 0
                /\ run.task[i].status = "running" /\ i # current => acted'[i] > 0
    PROVE  IInv'
<1>1. /\ pc' = "loop" /\ current' = 0 /\ UNCHANGED <<plan, answer, age>>
  BY DEF BackToLoop
<1>2. /\ mem' \in Runs /\ mem'.status = run.status
      /\ \A j \in Tasks : j # current => mem'.task[j] = run.task[j]
  BY DEF Changes
<1>3. 0 \notin Tasks
  BY DEF Tasks
<1>4. TypeOK'
  BY <1>1, <1>2, ManagerAssumption DEF IInv, TypeOK
<1>5. AttemptsLeft(db)' /\ AttemptsLeft(mem)'
  BY <1>2 DEF AttemptsLeft
<1>6. Granted(db)' /\ Granted(mem)'
  BY <1>1, <1>2 DEF Granted, Allowed
<1>7. SessionCounts' /\ RunningIsCommitted'
  BY <1>1, <1>2, <1>3 DEF SessionCounts, RunningIsCommitted
<1>8. CurrentRuns' /\ NothingAfterSuccess'
  BY <1>1, <1>2 DEF CurrentRuns, NothingAfterSuccess
<1>. QED
  BY <1>4, <1>5, <1>6, <1>7, <1>8 DEF IInv, NothingLeft
LEMMA ExecuteFacts ==
    ASSUME IInv, pc = "execute", Persist
    PROVE  /\ mem \in Runs /\ mem.status # "succeeded"
           /\ AttemptsLeft(mem) /\ Granted(mem)
           /\ AttemptsLeft(db') /\ Granted(db')
           /\ \A i \in Tasks : mem.task[i].status = "running" /\ i # current => acted'[i] > 0
<1>1. db' = mem \/ db' = db
  BY DEF Persist
<1>2. AttemptsLeft(db') /\ Granted(db')
  BY <1>1 DEF IInv
<1>3. \A i \in Tasks : acted[i] \in Nat /\ acted'[i] \in Nat /\ acted[i] <= acted'[i]
  BY PersistFacts DEF IInv, TypeOK
<1>4. \A i \in Tasks : mem.task[i].status = "running" /\ i # current => acted'[i] > 0
  BY <1>3 DEF IInv, RunningIsCommitted
<1>. QED
  BY <1>2, <1>4 DEF IInv, TypeOK, NothingAfterSuccess

LEMMA AgentSucceedsInv ==
    ASSUME IInv, AgentSucceeds
    PROVE  IInv'
<1>. DEFINE row == [mem.task[current] EXCEPT !.status = "succeeded"]
<1>1. pc = "execute" /\ Persist /\ BackToLoop
  BY DEF AgentSucceeds
<1>2. current \in Tasks
  BY <1>1, PersistFacts
<1>3. /\ mem \in Runs /\ mem.task[current] \in TaskRows
      /\ mem.succeeded + 1 \in Nat /\ mem.failed \in Nat /\ mem.retries \in Nat
  <2>1. mem.succeeded \in Nat
    BY <1>2, TaskType
  <2>. QED
    BY <1>2, <2>1, TaskType
<1>4. row \in TaskRows /\ row.attempts = mem.task[current].attempts /\ row.status = "succeeded"
  BY <1>3 DEF TaskRows, TaskStatuses
<1>5. mem' = With(mem, current, row, mem.succeeded + 1, mem.failed, mem.retries)
  BY <1>2, TaskType DEF AgentSucceeds, With, Runs
<1>. HIDE DEF row
<1>6. Changes(mem, mem', current) /\ mem'.task[current] = row
  BY <1>2, <1>3, <1>4, <1>5, WithType
<1>7. row.status \notin Waiting /\ row.status # "running"
  BY <1>4 DEF Waiting
<1>. QED
  BY <1>1, <1>4, <1>6, <1>7, PersistFacts, ExecuteFacts, BackInv

LEMMA AgentFailsInv ==
    ASSUME IInv, AgentFails
    PROVE  IInv'
<1>1. pc = "execute" /\ Persist /\ BackToLoop
  BY DEF AgentFails
<1>2. current \in Tasks /\ mem \in Runs
  BY <1>1, PersistFacts, ExecuteFacts
<1>3. PICK s \in {"failed", "timed_out"}, retryable \in BOOLEAN :
        mem' = Failed(mem, current, s, retryable)
  BY DEF AgentFails
<1>4. /\ Changes(mem, mem', current)
      /\ mem'.task[current].attempts = mem.task[current].attempts
      /\ mem'.task[current].status \in {"failed", "timed_out", "ready"}
      /\ mem'.task[current].status = "ready" => mem.task[current].attempts <= MaxRetries
  BY <1>2, <1>3, FailedType
<1>5. /\ mem'.task[current].status # "running"
      /\ mem'.task[current].status \in Waiting => mem'.task[current].status = "ready"
  BY <1>4 DEF Waiting
<1>. QED
  BY <1>1, <1>4, <1>5, PersistFacts, ExecuteFacts, BackInv

\* The session goes on with the committed run, which counts what was committed.
LEMMA AgentRollsBackInv ==
    ASSUME IInv, AgentRollsBack
    PROVE  IInv'
<1>1. /\ pc = "execute" /\ BackToLoop
      /\ mem' = Failed(db, current, "failed", TRUE)
      /\ UNCHANGED <<db, acted>>
  BY DEF AgentRollsBack
<1>2. /\ current \in Tasks /\ db \in Runs /\ acted \in [Tasks -> Nat]
      /\ db.status # "succeeded"
  BY <1>1 DEF IInv, TypeOK, Tasks, NothingAfterSuccess
<1>3. /\ Changes(db, mem', current)
      /\ mem'.task[current].attempts = db.task[current].attempts
      /\ mem'.task[current].status \in {"failed", "timed_out", "ready"}
      /\ mem'.task[current].status = "ready" => db.task[current].attempts <= MaxRetries
  BY <1>1, <1>2, FailedType
<1>4. /\ mem'.task[current].status # "running"
      /\ mem'.task[current].status \in Waiting => mem'.task[current].status = "ready"
  BY <1>3 DEF Waiting
<1>5. /\ AttemptsLeft(db) /\ Granted(db)
      /\ \A i \in Tasks : /\ acted[i] <= db.task[i].attempts
                          /\ db.task[i].status = "running" => acted[i] > 0
  BY DEF IInv, RunningIsCommitted
<1>. QED
  BY <1>1, <1>2, <1>3, <1>4, <1>5, BackInv

LEMMA AgentUndoesDelegationInv ==
    ASSUME IInv, AgentUndoesDelegation
    PROVE  IInv'
<1>1. /\ pc' = "idle" /\ current' = 0 /\ age' = 0 /\ mem' = NoRun
      /\ db' = [db EXCEPT !.status = "failed"]
      /\ UNCHANGED <<plan, answer, acted>>
  BY DEF AgentUndoesDelegation
<1>2. db' \in Runs /\ db'.task = db.task /\ db'.status = "failed"
  BY <1>1 DEF IInv, TypeOK, Runs, RunStatuses
<1>3. /\ AttemptsLeft(db') /\ Granted(db')
      /\ \A i \in Tasks : /\ acted[i] <= db'.task[i].attempts
                          /\ db'.task[i].status = "running" => acted[i] > 0
  BY <1>2 DEF IInv, AttemptsLeft, Granted, RunningIsCommitted
<1>. QED
  BY <1>1, <1>2, <1>3, NoSession

LEMMA AbandonInv ==
    ASSUME IInv, Abandon
    PROVE  IInv'
<1>1. /\ pc' = "idle" /\ current' = 0 /\ age' = 0 /\ mem' = NoRun /\ db' = db
      /\ UNCHANGED <<plan, answer, acted>>
  BY DEF Abandon
<1>2. db \in Runs
  BY DEF IInv, TypeOK
<1>. QED
  BY <1>1, <1>2, NoSession DEF IInv, RunningIsCommitted

LEMMA TickInv ==
    ASSUME IInv, Tick
    PROVE  IInv'
<1>1. age' \in 0..MaxRuntime
  BY ManagerAssumption DEF Tick, RuntimeSpent, IInv, TypeOK
<1>. QED
  BY <1>1 DEF Tick, IInv, TypeOK, AttemptsLeft, Granted, Allowed, SessionCounts,
              RunningIsCommitted, CurrentRuns, NothingAfterSuccess, NothingLeft

\* The owner's answers never take back that a task was approved.
LEMMA OwnerAnswersInv ==
    ASSUME IInv, NEW i \in Tasks, OwnerAnswers(i)
    PROVE  IInv'
<1>1. UNCHANGED <<plan, db, mem, pc, current, age, acted>>
  BY DEF OwnerAnswers
<1>2. answer' \in [Tasks -> {"pending", "approved", "refused", "withdrawn"}]
  BY DEF OwnerAnswers, IInv, TypeOK
<1>3. \A j \in Tasks : answer[j] \in {"approved", "withdrawn"} =>
                       answer'[j] \in {"approved", "withdrawn"}
  BY DEF OwnerAnswers, IInv, TypeOK
<1>4. Granted(db)' /\ Granted(mem)'
  BY <1>1, <1>3 DEF IInv, Granted, Allowed
<1>. QED
  BY <1>1, <1>2, <1>4 DEF IInv, TypeOK, AttemptsLeft, SessionCounts,
              RunningIsCommitted, CurrentRuns, NothingAfterSuccess, NothingLeft

----------------------------------------------------------------------------
LEMMA InitInv ==
    ASSUME Init
    PROVE  IInv
<1>1. /\ NoRun \in Runs /\ NoRun.status = "absent"
      /\ \A i \in Tasks : NoRun.task[i].status = "none" /\ NoRun.task[i].attempts = 0
  BY NoRunType DEF Task
<1>2. 0 \notin Tasks
  BY DEF Tasks
<1>3. TypeOK
  BY <1>1, ManagerAssumption DEF Init, TypeOK
<1>. QED
  BY <1>1, <1>2, <1>3 DEF Init, IInv, AttemptsLeft, Granted, Waiting, SessionCounts,
              RunningIsCommitted, CurrentRuns, NothingAfterSuccess

LEMMA NextInv ==
    ASSUME IInv, [Next]_vars
    PROVE  IInv'
<1>1. CASE Start
  BY <1>1, StartInv
<1>2. CASE StartNothing
  BY <1>2, StartNothingInv
<1>3. CASE Resume
  BY <1>3, ResumeInv
<1>4. CASE Stop
  <2>1. pc = "loop" /\ End("stopped") /\ "stopped" \in RunStatuses
    BY <1>4 DEF Stop, RunStatuses
  <2>. QED
    BY <2>1, EndInv
<1>5. CASE AwaitOwner
  <2>1. pc = "loop" /\ End("awaiting_approval") /\ "awaiting_approval" \in RunStatuses
    BY <1>5 DEF AwaitOwner, RunStatuses
  <2>. QED
    BY <2>1, EndInv
<1>6. CASE Complete
  <2>1. NothingLeft(mem)
    BY <1>6 DEF Complete, NothingLeft, Waiting, Of
  <2>2. pc = "loop" /\ "succeeded" \in RunStatuses /\ "failed" \in RunStatuses
    BY <1>6 DEF Complete, RunStatuses
  <2>3. CASE End("succeeded")
    BY <2>1, <2>2, <2>3, EndInv
  <2>4. CASE End("failed")
    BY <2>2, <2>4, EndInv
  <2>. QED
    BY <1>6, <2>3, <2>4 DEF Complete
<1>7. ASSUME NEW i \in Tasks, Process(i)
      PROVE  IInv'
  BY <1>7, RequestApprovalInv, CancelInv, DelegateInv DEF Process
<1>8. CASE AgentAnswers
  BY <1>8, AgentSucceedsInv, AgentFailsInv, AgentRollsBackInv, AgentUndoesDelegationInv
     DEF AgentAnswers
<1>9. CASE Abandon
  BY <1>9, AbandonInv
<1>10. CASE Tick
  BY <1>10, TickInv
<1>11. ASSUME NEW i \in Tasks, OwnerAnswers(i)
       PROVE  IInv'
  BY <1>11, OwnerAnswersInv
<1>12. CASE UNCHANGED vars
  BY <1>12 DEF vars, IInv, TypeOK, AttemptsLeft, Granted, Allowed, SessionCounts,
               RunningIsCommitted, CurrentRuns, NothingAfterSuccess, NothingLeft
<1>. QED
  BY <1>1, <1>2, <1>3, <1>4, <1>5, <1>6, <1>7, <1>8, <1>9, <1>10, <1>11, <1>12
     DEF Next, Session

LEMMA Invariant == Spec => []IInv
BY InitInv, NextInv, PTL DEF Spec

(* The variables of a run keep their types for every plan, cap and limit: no *)
(* task is attempted more than max_retries + 1 times, and the runtime of a   *)
(* session stays within its limit.                                           *)
THEOREM TypeCorrect == Spec => []TypeOK
<1>1. IInv => TypeOK
  BY DEF IInv
<1>. QED
  BY <1>1, Invariant, PTL

(* However often a session is rolled back, abandoned or taken up again, the  *)
(* committed run counts each execution that an agent committed, so that no   *)
(* task has effects more than max_retries + 1 times.                         *)
THEOREM EffectsCounted == Spec => []EffectsAreCounted
<1>1. IInv => EffectsAreCounted
  <2>1. ASSUME TypeOK, NEW i \in Tasks
        PROVE  acted[i] \in Nat /\ db.task[i].attempts \in 0..(MaxRetries + 1)
    BY <2>1 DEF TypeOK, Runs, TaskRows
  <2>. QED
    BY <2>1, ManagerAssumption DEF IInv, EffectsAreCounted
<1>. QED
  BY <1>1, Invariant, PTL

(* Only GREEN tasks, and YELLOW tasks that the owner approved, are ever      *)
(* attempted, in any order of answers, rollbacks and resumes.                *)
THEOREM WorkIsAnswered == Spec => []WorkNeedsAnswer
<1>1. IInv => WorkNeedsAnswer
  BY DEF IInv, Granted, Allowed, WorkNeedsAnswer
<1>. QED
  BY <1>1, Invariant, PTL

(* A run recorded SUCCEEDED has no task left to start or to answer, and a    *)
(* task left RUNNING in it had its work committed.                           *)
THEOREM SuccessIsSettled == Spec => []SucceededIsSettled
<1>1. IInv => SucceededIsSettled
  BY DEF IInv, NothingLeft, Waiting, RunningIsCommitted, SucceededIsSettled, Of
<1>. QED
  BY <1>1, Invariant, PTL

----------------------------------------------------------------------------
(* The counters.  A task waits for the owner before its first attempt only,  *)
(* so that neither the wait nor the answer turns an attempt into a retry.    *)

Failing == {"failed", "timed_out", "cancelled", "invalid"}

FailedOf(run) == {i \in Tasks : run.task[i].status \in Failing}

Counted(run) ==
    /\ run.succeeded = Cardinality(Of(run, "succeeded"))
    /\ run.failed = Cardinality(FailedOf(run))
    /\ run.retries = Cardinality(Retried(run))

FreshRow(i, row) ==
    /\ row.status = "awaiting" => row.attempts = 0
    /\ row.status = "running" => row.attempts > 0
    /\ plan[i] = "yellow" /\ row.attempts > 0 => row.asked

Fresh(run) == \A i \in Tasks : FreshRow(i, run.task[i])

CountInv == Counted(db) /\ Counted(mem) /\ Fresh(db) /\ Fresh(mem)

LEMMA CountedFinite ==
    ASSUME NEW run
    PROVE  /\ IsFiniteSet(Of(run, "succeeded")) /\ IsFiniteSet(FailedOf(run))
           /\ IsFiniteSet(Retried(run))
           /\ Cardinality(Of(run, "succeeded")) \in Nat /\ Cardinality(FailedOf(run)) \in Nat
           /\ Cardinality(Retried(run)) \in Nat
<1>1. IsFiniteSet(Tasks) /\ IsFiniteSet(1..(MaxRetries + 1))
  BY ManagerAssumption, FS_Interval DEF Tasks
<1>2. IsFiniteSet(Tasks \X (1..(MaxRetries + 1)))
  BY <1>1, FS_Product, Zenon
<1>3. /\ Of(run, "succeeded") \in SUBSET Tasks /\ FailedOf(run) \in SUBSET Tasks
      /\ Retried(run) \in SUBSET (Tasks \X (1..(MaxRetries + 1)))
  BY DEF Of, FailedOf, Retried
<1>4. /\ IsFiniteSet(Of(run, "succeeded")) /\ IsFiniteSet(FailedOf(run))
      /\ IsFiniteSet(Retried(run))
  BY <1>1, <1>2, <1>3, FS_Subset, Zenon
<1>. QED
  BY <1>4, FS_CardinalityType, Zenon

LEMMA OneIsAdded ==
    ASSUME NEW S, IsFiniteSet(S), NEW x, x \notin S
    PROVE  Cardinality(S \cup {x}) = Cardinality(S) + 1
BY FS_AddElement

LEMMA RetriesType ==
    ASSUME NEW row \in TaskRows
    PROVE  RetriesOf(row) \in 0..(MaxRetries + 1)
BY ManagerAssumption DEF RetriesOf, TaskRows

\* A task is settled, or goes on, and the run counts what that makes of it.
LEMMA CountedWith ==
    ASSUME NEW run \in Runs, Counted(run), NEW i \in Tasks, NEW row \in TaskRows,
           run.task[i].status \in {"ready", "running"},
           NEW more \in {0, 1}, RetriesOf(row) = RetriesOf(run.task[i]) + more,
           NEW a, a = run.succeeded + (IF row.status = "succeeded" THEN 1 ELSE 0),
           NEW b, b = run.failed + (IF row.status \in Failing THEN 1 ELSE 0),
           NEW c, c = run.retries + more
    PROVE  Counted(With(run, i, row, a, b, c))
<1>. DEFINE new == With(run, i, row, a, b, c)
<1>1. /\ new.succeeded = a /\ new.failed = b /\ new.retries = c
      /\ new.task[i] = row /\ \A j \in Tasks \ {i} : new.task[j] = run.task[j]
  BY DEF With, Runs
<1>. HIDE DEF new
<1>2. a = Cardinality(Of(new, "succeeded"))
  <2>1. i \notin Of(run, "succeeded")
    BY DEF Of
  <2>2. CASE row.status = "succeeded"
    <3>1. Of(new, "succeeded") = Of(run, "succeeded") \cup {i}
      BY <1>1, <2>2 DEF Of
    <3>. QED
      BY <2>1, <2>2, <3>1, CountedFinite, OneIsAdded DEF Counted
  <2>3. CASE row.status # "succeeded"
    <3>1. Of(new, "succeeded") = Of(run, "succeeded")
      BY <1>1, <2>1, <2>3 DEF Of
    <3>. QED
      BY <2>3, <3>1, CountedFinite DEF Counted
  <2>. QED
    BY <2>2, <2>3
<1>3. b = Cardinality(FailedOf(new))
  <2>1. i \notin FailedOf(run)
    BY DEF FailedOf, Failing
  <2>2. CASE row.status \in Failing
    <3>1. FailedOf(new) = FailedOf(run) \cup {i}
      BY <1>1, <2>2 DEF FailedOf
    <3>. QED
      BY <2>1, <2>2, <3>1, CountedFinite, OneIsAdded DEF Counted
  <2>3. CASE row.status \notin Failing
    <3>1. FailedOf(new) = FailedOf(run)
      BY <1>1, <2>1, <2>3 DEF FailedOf
    <3>. QED
      BY <2>3, <3>1, CountedFinite DEF Counted
  <2>. QED
    BY <2>2, <2>3
<1>4. c = Cardinality(Retried(new))
  <2>0. run.task[i] \in TaskRows
    BY DEF Runs
  <2>. PICK r, r2 \in 0..(MaxRetries + 1) :
         r = RetriesOf(run.task[i]) /\ r2 = RetriesOf(row)
    BY <2>0, RetriesType
  <2>1. r2 = r + more
    OBVIOUS
  <2>2. CASE more = 0
    <3>1. Retried(new) = Retried(run)
      BY <1>1, <2>1, <2>2, ManagerAssumption DEF Retried
    <3>. QED
      BY <2>2, <3>1, CountedFinite DEF Counted
  <2>3. CASE more = 1
    <3>1. r2 = r + 1 /\ r2 \in 1..(MaxRetries + 1)
      BY <2>1, <2>3, ManagerAssumption
    <3>2. <<i, r2>> \notin Retried(run)
      BY <3>1, ManagerAssumption DEF Retried
    <3>3. Retried(new) = Retried(run) \cup {<<i, r2>>}
      <4>1. ASSUME NEW j \in Tasks, NEW n \in 1..(MaxRetries + 1)
            PROVE  n <= RetriesOf(new.task[j])
                     <=> n <= RetriesOf(run.task[j]) \/ (j = i /\ n = r2)
        BY <1>1, <3>1, ManagerAssumption
      <4>. QED
        BY <3>1, <4>1 DEF Retried
    <3>. QED
      BY <2>3, <3>2, <3>3, CountedFinite, OneIsAdded DEF Counted
  <2>. QED
    BY <2>2, <2>3
<1>. QED
  BY <1>1, <1>2, <1>3, <1>4 DEF Counted, new

LEMMA FreshWith ==
    ASSUME NEW run \in Runs, Fresh(run), NEW i \in Tasks, NEW row \in TaskRows,
           FreshRow(i, row), NEW a, NEW b, NEW c
    PROVE  Fresh(With(run, i, row, a, b, c))
<1>1. /\ With(run, i, row, a, b, c).task[i] = row
      /\ \A j \in Tasks \ {i} : With(run, i, row, a, b, c).task[j] = run.task[j]
  BY DEF With, Runs
<1>. QED
  BY <1>1 DEF Fresh

\* A copy of the run with the same tasks and counters.
LEMMA CountedSame ==
    ASSUME NEW run, NEW new, Counted(run), Fresh(run),
           new.succeeded = run.succeeded, new.failed = run.failed,
           new.retries = run.retries, new.task = run.task
    PROVE  Counted(new) /\ Fresh(new)
BY DEF Counted, Fresh, Of, FailedOf, Retried

LEMMA NoRunCounted == Counted(NoRun) /\ Fresh(NoRun)
<1>1. /\ NoRun.succeeded = 0 /\ NoRun.failed = 0 /\ NoRun.retries = 0
      /\ \A i \in Tasks : NoRun.task[i].status = "none" /\ NoRun.task[i].attempts = 0
  BY NoRunType DEF NoRun, Task
<1>2. Of(NoRun, "succeeded") = {} /\ FailedOf(NoRun) = {} /\ Retried(NoRun) = {}
  BY <1>1, ManagerAssumption DEF Of, FailedOf, Failing, Retried, RetriesOf
<1>3. Fresh(NoRun)
  BY <1>1 DEF Fresh, FreshRow
<1>. QED
  BY <1>1, <1>2, <1>3, FS_EmptySet DEF Counted

LEMMA NewRunCounted ==
    ASSUME NEW s \in RunStatuses
    PROVE  Counted(NewRun(s)) /\ Fresh(NewRun(s))
<1>. DEFINE new == NewRun(s)
<1>1. /\ new.succeeded = 0 /\ new.failed = Cardinality(Invalid) /\ new.retries = 0
      /\ \A i \in Tasks : new.task[i].status = FirstStatus(i) /\ new.task[i].attempts = 0
  BY DEF NewRun, Task
<1>. HIDE DEF new
<1>2. \A i \in Tasks : FirstStatus(i) \in {"ready", "invalid", "none"}
                         /\ (FirstStatus(i) = "invalid" <=> i \in Invalid)
  BY DEF FirstStatus, Created, Invalid, Delegable
<1>3. Of(new, "succeeded") = {} /\ Retried(new) = {}
  BY <1>1, <1>2, ManagerAssumption DEF Of, Retried, RetriesOf
<1>4. FailedOf(new) = Invalid
  <2>1. Invalid \subseteq Tasks
    BY DEF Invalid
  <2>. QED
    BY <1>1, <1>2, <2>1 DEF FailedOf, Failing
<1>5. Fresh(new)
  BY <1>1, <1>2 DEF Fresh, FreshRow
<1>6. Counted(new)
  BY <1>1, <1>3, <1>4, FS_EmptySet DEF Counted
<1>. QED
  BY <1>5, <1>6 DEF new

LEMMA SyncedCounted ==
    ASSUME NEW run \in Runs, Counted(run), Fresh(run)
    PROVE  Counted(Synced(run)) /\ Fresh(Synced(run))
<1>. DEFINE new == Synced(run)
            Cancelled == {i \in Answered(run) : AfterAnswer(i) = "cancelled"}
<1>1. /\ new.succeeded = run.succeeded /\ new.failed = run.failed + Cardinality(Cancelled)
      /\ new.retries = run.retries
      /\ \A i \in Tasks : new.task[i] = SyncedTask(run, i)
  BY DEF Synced, Runs
<1>2. Answered(run) \in SUBSET Tasks /\ Cancelled \in SUBSET Answered(run)
  BY DEF Answered, Of
<1>3. \A i \in Answered(run) : run.task[i].status = "awaiting" /\ run.task[i].attempts = 0
  BY <1>2 DEF Answered, Of, Fresh, FreshRow
<1>4. ASSUME NEW i \in Tasks
      PROVE  /\ i \in Answered(run) =>
                  /\ new.task[i].status = AfterAnswer(i)
                  /\ AfterAnswer(i) \in {"ready", "cancelled"}
                  /\ new.task[i].attempts = 0
             /\ i \notin Answered(run) => new.task[i] = run.task[i]
             /\ new.task[i].asked = run.task[i].asked
  <2>1. run.task[i] \in TaskRows
    BY DEF Runs
  <2>. QED
    BY <1>1, <1>3, <2>1 DEF SyncedTask, AfterAnswer, TaskRows
<1>. HIDE DEF new
<1>5. Of(new, "succeeded") = Of(run, "succeeded")
  BY <1>2, <1>3, <1>4 DEF Of
<1>6. FailedOf(new) = FailedOf(run) \cup Cancelled /\ FailedOf(run) \cap Cancelled = {}
  BY <1>2, <1>3, <1>4 DEF FailedOf, Failing
<1>7. Retried(new) = Retried(run)
  <2>1. ASSUME NEW i \in Tasks PROVE RetriesOf(new.task[i]) = RetriesOf(run.task[i])
    BY <1>3, <1>4 DEF RetriesOf
  <2>. QED
    BY <2>1 DEF Retried
<1>8. Cardinality(FailedOf(new)) = Cardinality(FailedOf(run)) + Cardinality(Cancelled)
  <2>. HIDE DEF Cancelled
  <2>1. IsFiniteSet(FailedOf(run)) /\ Cardinality(FailedOf(run)) \in Nat
    BY CountedFinite
  <2>2. IsFiniteSet(Tasks)
    BY ManagerAssumption, FS_Interval DEF Tasks
  <2>3. IsFiniteSet(Cancelled)
    BY <1>2, <2>2, FS_Subset
  <2>4. Cardinality(Cancelled) \in Nat
    BY <2>3, FS_CardinalityType
  <2>5. Cardinality(FailedOf(run) \cup Cancelled)
          = Cardinality(FailedOf(run)) + Cardinality(Cancelled)
              - Cardinality(FailedOf(run) \cap Cancelled)
    BY <2>1, <2>3, FS_Union
  <2>6. Cardinality(FailedOf(run) \cap Cancelled) = 0
    BY <1>6, FS_EmptySet
  <2>. QED
    BY <1>6, <2>1, <2>4, <2>5, <2>6
<1>9. Fresh(new)
  <2>. SUFFICES ASSUME NEW i \in Tasks PROVE FreshRow(i, new.task[i])
    BY DEF Fresh
  <2>1. CASE i \in Answered(run)
    BY <1>4, <2>1 DEF FreshRow
  <2>2. CASE i \notin Answered(run)
    BY <1>4, <2>2 DEF Fresh
  <2>. QED
    BY <2>1, <2>2
<1>10. Counted(new)
  BY <1>1, <1>5, <1>7, <1>8 DEF Counted
<1>. QED
  BY <1>9, <1>10 DEF new

\* A failed attempt becomes a retry, or the failure that stands.
LEMMA FailedCounted ==
    ASSUME NEW run \in Runs, Counted(run), Fresh(run), NEW i \in Tasks,
           run.task[i].status = "running", NEW retryable \in BOOLEAN,
           NEW s \in {"failed", "timed_out"}
    PROVE  Counted(Failed(run, i, s, retryable)) /\ Fresh(Failed(run, i, s, retryable))
<1>1. run.task[i] \in TaskRows /\ run.task \in [Tasks -> TaskRows]
  BY DEF Runs
<1>2. /\ run.succeeded \in Nat /\ run.failed \in Nat /\ run.retries \in Nat
      /\ run.succeeded + 0 = run.succeeded /\ run.failed + 0 = run.failed
      /\ run.retries + 0 = run.retries
  BY DEF Runs
<1>3. /\ run.task[i].attempts > 0 /\ run.task[i].attempts \in Nat
      /\ plan[i] = "yellow" => run.task[i].asked
  BY <1>1 DEF Fresh, FreshRow, TaskRows
<1>4. CASE retryable /\ CanRetry(run.task[i].attempts)
  <2>. DEFINE row == [run.task[i] EXCEPT !.status = "ready"]
              new == With(run, i, row, run.succeeded, run.failed, run.retries + 1)
  <2>1. /\ row \in TaskRows /\ row.attempts = run.task[i].attempts /\ row.status = "ready"
        /\ row.asked = run.task[i].asked
    BY <1>1 DEF TaskRows, TaskStatuses
  <2>2. Failed(run, i, s, retryable) = new
    BY <1>4, <1>1 DEF Failed, With, Runs
  <2>. HIDE DEF row
  <2>3. RetriesOf(row) = RetriesOf(run.task[i]) + 1
    BY <1>3, <2>1 DEF RetriesOf
  <2>4. Counted(new)
    BY <1>2, <2>1, <2>3, CountedWith DEF Failing
  <2>5. FreshRow(i, row)
    BY <1>3, <2>1 DEF FreshRow
  <2>6. Fresh(new)
    BY <2>1, <2>5, FreshWith
  <2>. QED
    BY <2>2, <2>4, <2>6
<1>5. CASE ~(retryable /\ CanRetry(run.task[i].attempts))
  <2>. DEFINE row == [run.task[i] EXCEPT !.status = s]
              new == With(run, i, row, run.succeeded, run.failed + 1, run.retries)
  <2>1. /\ row \in TaskRows /\ row.attempts = run.task[i].attempts /\ row.status = s
        /\ row.asked = run.task[i].asked
    BY <1>1 DEF TaskRows, TaskStatuses
  <2>2. Failed(run, i, s, retryable) = new
    BY <1>5, <1>1 DEF Failed, With, Runs
  <2>. HIDE DEF row
  <2>3. RetriesOf(row) = RetriesOf(run.task[i]) + 0
    BY <1>3, <2>1 DEF RetriesOf
  <2>4. Counted(new)
    BY <1>2, <2>1, <2>3, CountedWith DEF Failing
  <2>5. FreshRow(i, row)
    BY <1>3, <2>1 DEF FreshRow
  <2>6. Fresh(new)
    BY <2>1, <2>5, FreshWith
  <2>. QED
    BY <2>2, <2>4, <2>6
<1>. QED
  BY <1>4, <1>5

LEMMA CountProcess ==
    ASSUME IInv, CountInv, NEW i \in Tasks, Process(i)
    PROVE  Counted(mem') /\ Fresh(mem') /\ db' = db
<1>. PICK old \in TaskRows : old = mem.task[i]
  BY TaskType
<1>1. /\ mem \in Runs /\ mem.task \in [Tasks -> TaskRows]
      /\ mem.succeeded \in Nat /\ mem.failed \in Nat /\ mem.retries \in Nat
      /\ mem.succeeded + 0 = mem.succeeded /\ mem.failed + 0 = mem.failed
      /\ mem.retries + 0 = mem.retries /\ mem.failed + 1 \in Nat
  <2>1. mem.succeeded \in Nat /\ mem.failed \in Nat /\ mem.retries \in Nat
    BY TaskType
  <2>. QED
    BY <2>1, TaskType
<1>2. old.status = "ready" /\ NextReady(i)
  BY DEF Process, RequestApproval, Cancel, Delegate, NextReady
<1>3. /\ FreshRow(i, old) /\ Counted(mem) /\ Fresh(mem)
      /\ old.attempts > 0 => Allowed(i)
      /\ old.attempts \in Nat /\ old.attempts <= MaxRetries
  BY <1>2, ManagerAssumption DEF CountInv, Fresh, IInv, Granted, AttemptsLeft, Waiting, TaskRows
<1>4. CASE RequestApproval(i)
  <2>. DEFINE row == [old EXCEPT !.status = "awaiting", !.asked = TRUE]
              new == With(mem, i, row, mem.succeeded, mem.failed, mem.retries)
  <2>1. row \in TaskRows /\ row.attempts = old.attempts /\ row.status = "awaiting" /\ row.asked
    BY DEF TaskRows, TaskStatuses
  <2>2. mem' = new /\ db' = db
    BY <1>1, <1>4 DEF RequestApproval, With, Runs
  <2>3. old.attempts = 0
    <3>1. old.attempts > 0 => Gate(i) \in {"allow_auto", "deny"}
      BY <1>3 DEF Allowed, FreshRow, Gate
    <3>2. Gate(i) \notin {"allow_auto", "deny"}
      BY <1>4 DEF RequestApproval
    <3>. QED
      BY <1>3, <3>1, <3>2
  <2>. HIDE DEF row
  <2>4. RetriesOf(row) = RetriesOf(old) + 0
    BY <2>1, <2>3 DEF RetriesOf
  <2>5. Counted(new)
    BY <1>1, <1>2, <1>3, <2>1, <2>4, CountedWith DEF Failing
  <2>6. FreshRow(i, row)
    BY <2>1, <2>3 DEF FreshRow
  <2>7. Fresh(new)
    BY <1>1, <1>3, <2>1, <2>6, FreshWith
  <2>. QED
    BY <2>2, <2>5, <2>7
<1>5. CASE Cancel(i)
  <2>. DEFINE row == [old EXCEPT !.status = "cancelled"]
              new == With(mem, i, row, mem.succeeded, mem.failed + 1, mem.retries)
  <2>1. /\ row \in TaskRows /\ row.attempts = old.attempts /\ row.status = "cancelled"
        /\ row.asked = old.asked
    BY DEF TaskRows, TaskStatuses
  <2>2. mem' = new /\ db' = db
    BY <1>1, <1>5 DEF Cancel, With, Runs
  <2>. HIDE DEF row
  <2>4. RetriesOf(row) = RetriesOf(old) + 0
    BY <1>2, <1>3, <2>1 DEF RetriesOf
  <2>5. Counted(new)
    BY <1>1, <1>2, <1>3, <2>1, <2>4, CountedWith DEF Failing
  <2>6. FreshRow(i, row)
    BY <1>3, <2>1 DEF FreshRow
  <2>7. Fresh(new)
    BY <1>1, <1>3, <2>1, <2>6, FreshWith
  <2>. QED
    BY <2>2, <2>5, <2>7
<1>6. CASE Delegate(i)
  <2>. DEFINE row == [old EXCEPT !.status = "running", !.attempts = old.attempts + 1]
              new == With(mem, i, row, mem.succeeded, mem.failed, mem.retries)
  <2>1. /\ row \in TaskRows /\ row.attempts = old.attempts + 1 /\ row.status = "running"
        /\ row.asked = old.asked
    <3>1. old.attempts + 1 \in 0..(MaxRetries + 1)
      BY <1>3, ManagerAssumption
    <3>. QED
      BY <3>1 DEF TaskRows, TaskStatuses
  <2>2. mem' = new /\ db' = db
    BY <1>1, <1>6 DEF Delegate, With, Runs
  <2>3. plan[i] = "yellow" => old.asked
    BY <1>6 DEF Delegate, Gate
  <2>. HIDE DEF row
  <2>4. RetriesOf(row) = RetriesOf(old) + 0
    BY <1>2, <1>3, <2>1 DEF RetriesOf
  <2>5. Counted(new)
    BY <1>1, <1>2, <1>3, <2>1, <2>4, CountedWith DEF Failing
  <2>6. FreshRow(i, row)
    BY <1>3, <2>1, <2>3 DEF FreshRow
  <2>7. Fresh(new)
    BY <1>1, <1>3, <2>1, <2>6, FreshWith
  <2>. QED
    BY <2>2, <2>5, <2>7
<1>. QED
  BY <1>4, <1>5, <1>6 DEF Process

LEMMA CountAnswers ==
    ASSUME IInv, CountInv, AgentAnswers
    PROVE  Counted(mem') /\ Fresh(mem') /\ Counted(db') /\ Fresh(db')
<1>1. current \in Tasks /\ mem \in Runs /\ db \in Runs /\ mem.task[current].status = "running"
  <2>1. pc = "execute"
    BY DEF AgentAnswers, AgentSucceeds, AgentFails, AgentRollsBack, AgentUndoesDelegation
  <2>. QED
    BY <2>1 DEF IInv, TypeOK, CurrentRuns, Tasks
<1>2. CASE AgentSucceeds
  <2>. PICK old \in TaskRows : old = mem.task[current]
    BY <1>1, TaskType
  <2>. DEFINE row == [old EXCEPT !.status = "succeeded"]
              new == With(mem, current, row, mem.succeeded + 1, mem.failed, mem.retries)
  <2>1. /\ row \in TaskRows /\ row.attempts = old.attempts /\ row.status = "succeeded"
        /\ row.asked = old.asked
    BY DEF TaskRows, TaskStatuses
  <2>2. mem' = new /\ db' \in {db, mem}
    <3>1. /\ mem' = [mem EXCEPT !.task[current].status = "succeeded", !.succeeded = @ + 1]
          /\ db' \in {db, mem}
      BY <1>2 DEF AgentSucceeds, Persist
    <3>2. mem' = new
      BY <1>1, <3>1, TaskType DEF With, Runs
    <3>. QED
      BY <3>1, <3>2
  <2>3. /\ mem.succeeded \in Nat /\ mem.failed \in Nat /\ mem.retries \in Nat
        /\ FreshRow(current, old) /\ Fresh(mem) /\ old.attempts \in Nat
    BY <1>1, TaskType, ManagerAssumption DEF CountInv, Fresh, TaskRows
  <2>. HIDE DEF row
  <2>4. RetriesOf(row) = RetriesOf(old) + 0
    BY <1>1, <2>1, <2>3 DEF RetriesOf, FreshRow
  <2>5. mem.failed + 0 = mem.failed /\ mem.retries + 0 = mem.retries
    BY <2>3
  <2>6. Counted(new)
    BY <1>1, <2>1, <2>3, <2>4, <2>5, CountedWith DEF Failing, CountInv
  <2>7. Fresh(new)
    BY <1>1, <2>1, <2>3, FreshWith DEF FreshRow
  <2>. QED
    BY <2>2, <2>6, <2>7 DEF CountInv
<1>3. CASE AgentFails
  <2>1. PICK s \in {"failed", "timed_out"}, retryable \in BOOLEAN :
          mem' = Failed(mem, current, s, retryable)
    BY <1>3 DEF AgentFails
  <2>2. db' \in {db, mem}
    BY <1>3 DEF AgentFails, Persist
  <2>. QED
    BY <1>1, <2>1, <2>2, FailedCounted DEF CountInv
<1>4. CASE AgentRollsBack
  <2>1. /\ db.task[current].status = "running" /\ db' = db
        /\ mem' = Failed(db, current, "failed", TRUE)
    BY <1>4 DEF AgentRollsBack
  <2>. QED
    BY <1>1, <2>1, FailedCounted DEF CountInv
<1>5. CASE AgentUndoesDelegation
  <2>1. mem' = NoRun /\ db' = [db EXCEPT !.status = "failed"]
    BY <1>5 DEF AgentUndoesDelegation
  <2>2. /\ db'.succeeded = db.succeeded /\ db'.failed = db.failed
        /\ db'.retries = db.retries /\ db'.task = db.task
    BY <1>1, <2>1 DEF Runs
  <2>. QED
    BY <2>1, <2>2, NoRunCounted, CountedSame DEF CountInv
<1>. QED
  BY <1>2, <1>3, <1>4, <1>5 DEF AgentAnswers

LEMMA CountNext ==
    ASSUME IInv, CountInv, [Next]_vars
    PROVE  CountInv'
<1>. SUFFICES Counted(mem') /\ Fresh(mem') /\ Counted(db') /\ Fresh(db')
  <2>1. plan' = plan
    BY DEF Next, Session, Start, StartNothing, Resume, Enter, End, Stop, AwaitOwner, Complete,
       Process, RequestApproval, Cancel, Delegate, AgentAnswers, AgentSucceeds, AgentFails,
       AgentRollsBack, AgentUndoesDelegation, BackToLoop, Abandon, Tick, OwnerAnswers, vars
  <2>. QED
    BY <2>1 DEF CountInv, Counted, Fresh, FreshRow, Of, FailedOf, Retried
<1>0. db \in Runs /\ mem \in Runs /\ Counted(db) /\ Fresh(db) /\ Counted(mem) /\ Fresh(mem)
  BY DEF IInv, TypeOK, CountInv
<1>1. CASE Start
  <2>1. mem' = NewRun("running") /\ db' = db
    BY <1>1 DEF Start, Enter
  <2>. QED
    BY <1>0, <2>1, NewRunCounted DEF RunStatuses
<1>2. CASE StartNothing
  <2>1. PICK s \in RunStatuses : db' = NewRun(s) /\ mem' = mem
    BY <1>2 DEF StartNothing, RunStatuses
  <2>. QED
    BY <1>0, <2>1, NewRunCounted
<1>3. CASE Resume
  <2>1. mem' = Synced(db) /\ db' = db
    BY <1>3 DEF Resume, Enter
  <2>. QED
    BY <1>0, <2>1, SyncedCounted
<1>4. ASSUME NEW s, End(s) PROVE Counted(mem') /\ Fresh(mem') /\ Counted(db') /\ Fresh(db')
  <2>1. mem' = NoRun /\ db' = [mem EXCEPT !.status = s]
    BY <1>4 DEF End
  <2>2. /\ db'.succeeded = mem.succeeded /\ db'.failed = mem.failed
        /\ db'.retries = mem.retries /\ db'.task = mem.task
    BY <1>0, <2>1 DEF Runs
  <2>. QED
    BY <1>0, <2>1, <2>2, NoRunCounted, CountedSame
<1>5. CASE Stop \/ AwaitOwner \/ Complete
  BY <1>4, <1>5 DEF Stop, AwaitOwner, Complete
<1>6. ASSUME NEW i \in Tasks, Process(i)
      PROVE  Counted(mem') /\ Fresh(mem') /\ Counted(db') /\ Fresh(db')
  BY <1>0, <1>6, CountProcess
<1>7. CASE AgentAnswers
  BY <1>7, CountAnswers
<1>8. CASE Abandon
  BY <1>0, <1>8, NoRunCounted DEF Abandon
<1>9. CASE Tick \/ (\E i \in Tasks : OwnerAnswers(i)) \/ UNCHANGED vars
  BY <1>0, <1>9 DEF Tick, OwnerAnswers, vars
<1>. QED
  BY <1>1, <1>2, <1>3, <1>5, <1>6, <1>7, <1>8, <1>9 DEF Next, Session

(* The counters of a run agree with its tasks, in the session and in the     *)
(* database: each success, each failure that stands and each retry is        *)
(* counted once, whatever is rolled back or taken up again.                  *)
THEOREM CountersStay == Spec => []CountersAgree
<1>1. Init => CountInv
  BY NoRunCounted DEF Init, CountInv
<1>2. IInv /\ CountInv /\ [Next]_vars => CountInv'
  BY CountNext
<1>3. CountInv => CountersAgree
  BY DEF CountInv, Counted, FailedOf, Failing, CountersAgree
<1>. QED
  BY <1>1, <1>2, <1>3, Invariant, PTL DEF Spec
=============================================================================
