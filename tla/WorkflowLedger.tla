--------------------------- MODULE WorkflowLedger ---------------------------
(***************************************************************************)
(* One execution row of the workflow ledger (orchestration/service.py): a  *)
(* workflow name with an idempotency key.  n8n triggers the workflow any   *)
(* number of times with the same key; each trigger runs in a request of    *)
(* its own, reads the committed row, and commits what it computed from it. *)
(* The row is not locked: only the unique key orders two first triggers.   *)
(*                                                                         *)
(* Rows of different keys share nothing, so one row is the whole ledger.   *)
(* Times are kept as ages, which stop growing once they are stale.         *)
(***************************************************************************)
EXTENDS Naturals, FiniteSets

CONSTANTS
    Workers,     \* requests that trigger this workflow with this key
    MaxRetries,  \* n8n_max_execution_retries
    StaleAge     \* ticks in timeout_seconds plus the grace of 30 seconds

ASSUME LedgerAssumption ==
    /\ IsFiniteSet(Workers)
    /\ MaxRetries \in Nat /\ StaleAge \in Nat

VARIABLES
    row,      \* the committed execution row
    worker,   \* what each request is doing
    \* history, read by no action of the system
    starts    \* handler runs per attempt number

vars == <<row, worker, starts>>

Idle   == [pc |-> "idle"]
Absent == [status |-> "absent", attempt |-> 0, age |-> 0]

Attempts == 1..(MaxRetries + 1)

Retryable == {"failed", "timed_out"}

----------------------------------------------------------------------------
Older(age) == IF age > StaleAge THEN age ELSE age + 1

Stale(r) == r.status = "running" /\ r.age > StaleAge

\* What _handle_existing makes of the row it read: run again, or only answer.
\* A stale row with no retry left is marked timed out by a flush that nobody
\* commits, so it is only an answer as well.
RunsAgain(r) ==
    /\ r.status \in Retryable \/ Stale(r)
    /\ r.attempt <= MaxRetries

Goto(w, work) == worker' = [worker EXCEPT ![w] = work]

----------------------------------------------------------------------------
Init ==
    /\ row = Absent
    /\ worker = [w \in Workers |-> Idle]
    /\ starts = [n \in Attempts |-> 0]

Tick ==
    /\ row' = IF row.status = "absent" THEN row ELSE [row EXCEPT !.age = Older(@)]
    /\ worker' = [w \in Workers |->
                    IF worker[w].pc = "retry"
                    THEN [worker[w] EXCEPT !.age = Older(@)]
                    ELSE worker[w]]
    /\ UNCHANGED starts

\* A trigger finds no row and is about to insert one.
TriggerNew(w) ==
    /\ worker[w] = Idle
    /\ row = Absent
    /\ Goto(w, [pc |-> "insert"])
    /\ UNCHANGED <<row, starts>>

\* A trigger finds a row it may run again: a retry, or the reclaim of a stale
\* run.  (One that finds a live run answers with a conflict, one that finds a
\* success or no retry left replays the row: no change.)
TriggerRetry(w) ==
    /\ worker[w] = Idle
    /\ RunsAgain(row)
    /\ Goto(w, [pc |-> "retry", attempt |-> row.attempt + 1, age |-> 0])
    /\ UNCHANGED <<row, starts>>

Started(n) == starts' = [starts EXCEPT ![n] = @ + 1]

InsertOrReplace(w) ==
    /\ worker[w].pc = "insert"
    /\ row' = [status |-> "running", attempt |-> 1, age |-> 0]
    /\ Started(1)
    /\ Goto(w, [pc |-> "running", attempt |-> 1])

\* The insert and the commit of RUNNING.  The unique key turns the insert of a
\* row that exists by now into a second look at the row.
Insert(w) ==
    /\ worker[w].pc = "insert"
    /\ \/ /\ row = Absent
          /\ row' = [status |-> "running", attempt |-> 1, age |-> 0]
          /\ Started(1)
          /\ Goto(w, [pc |-> "running", attempt |-> 1])
       \/ /\ row # Absent
          /\ Goto(w, IF RunsAgain(row)
                     THEN [pc |-> "retry", attempt |-> row.attempt + 1, age |-> 0]
                     ELSE Idle)
          /\ UNCHANGED <<row, starts>>

RetryUnnumbered(w) ==
    /\ worker[w].pc = "retry"
    /\ row' = [row EXCEPT !.status = "running", !.age = worker[w].age]
    /\ Started(worker[w].attempt)
    /\ Goto(w, [pc |-> "running", attempt |-> worker[w].attempt])

\* The commit of a retry writes the status, the attempt and the start computed
\* from the row as it was read.
Retry(w) ==
    /\ worker[w].pc = "retry"
    /\ row' = [status |-> "running", attempt |-> worker[w].attempt, age |-> worker[w].age]
    /\ Started(worker[w].attempt)
    /\ Goto(w, [pc |-> "running", attempt |-> worker[w].attempt])

\* The handler returns, raises a timeout or raises.
HandlerEnds(w, outcome) ==
    /\ worker[w].pc = "running"
    /\ Goto(w, [pc |-> "ended", outcome |-> outcome])
    /\ UNCHANGED <<row, starts>>

\* The terminal status is committed; the attempt is not among the columns written.
Persist(w) ==
    /\ worker[w].pc = "ended"
    /\ row' = [row EXCEPT !.status = worker[w].outcome]
    /\ Goto(w, Idle)
    /\ UNCHANGED starts

\* The commit fails.  After a success the exception handler of _run tries to commit
\* FAILED; after a failure the exception leaves the request.
PersistFails(w) ==
    /\ worker[w].pc = "ended"
    /\ Goto(w, IF worker[w].outcome = "succeeded"
               THEN [pc |-> "ended", outcome |-> "failed"]
               ELSE Idle)
    /\ UNCHANGED <<row, starts>>

Crash(w) ==
    /\ worker[w] # Idle
    /\ Goto(w, Idle)
    /\ UNCHANGED <<row, starts>>

Step(w) ==
    \/ Insert(w)
    \/ Retry(w)
    \/ \E outcome \in {"succeeded", "failed", "timed_out"} : HandlerEnds(w, outcome)
    \/ Persist(w)

Trigger(w) == TriggerNew(w) \/ TriggerRetry(w)

Next ==
    \/ Tick
    \/ \E w \in Workers : Trigger(w) \/ Step(w) \/ PersistFails(w) \/ Crash(w)

Spec == Init /\ [][Next]_vars

\* Time passes, and a request that is not killed every time gets on.  No trigger is
\* promised: the generated n8n workflows change their key every hour and try a key three
\* times, five seconds apart, which is over before a run is stale.
Fairness ==
    /\ WF_vars(Tick)
    /\ \A w \in Workers : SF_vars(Step(w))

FairSpec == Spec /\ Fairness

\* More than the workflows give: somebody triggers the key as long as it may run again.
TriggeredSpec == FairSpec /\ \A w \in Workers : WF_vars(Trigger(w))

----------------------------------------------------------------------------
(* Properties.                                                             *)

RowState ==
    {Absent} \cup [status : {"running", "succeeded", "failed", "timed_out"},
                   attempt : Attempts, age : 0..(StaleAge + 1)]

Work ==
    {Idle} \cup [pc : {"insert"}]
           \cup [pc : {"retry"}, attempt : Attempts, age : 0..(StaleAge + 1)]
           \cup [pc : {"running"}, attempt : Attempts]
           \cup [pc : {"ended"}, outcome : {"succeeded", "failed", "timed_out"}]

\* Every variable holds a value of its type; in particular no lost update takes the
\* attempt past max_retries + 1.
TypeOK ==
    /\ row \in RowState
    /\ worker \in [Workers -> Work]
    /\ starts \in [Attempts -> Nat]

\* However many first triggers race, the first attempt is run once: the unique key
\* makes all but one of them look again.
FirstAttemptOnce == starts[1] <= 1

\* Once a success is committed and no request is under way, no later trigger runs
\* the handler again: a request that holds a retry has read the row before.
SuccessSettles ==
    [][row.status = "succeeded" /\ (\A w \in Workers : worker[w] = Idle)
        => row'.status = "succeeded" /\ \A w \in Workers : worker'[w] = Idle]_vars

\* Retries are read and committed without a lock, so one attempt may be run by several
\* requests, and a late one takes the row back to an attempt that is over.  Still each
\* run of an attempt lets no request run the next one twice: the runs of a key are
\* bounded, whatever is reclaimed, lost or repeated.
RunsFollowRuns ==
    \A n \in 1..MaxRetries : starts[n + 1] <= Cardinality(Workers) * starts[n]

\* service.py:210, "if the handler already completed successfully, keep SUCCEEDED so
\* retries do not re-run side effects".
SucceededIsKept == [][row.status = "succeeded" => row'.status = "succeeded"]_vars

\* service.py:151, "Abandoned worker / crash after commit to RUNNING - reclaim as
\* timed out": no run stays RUNNING for ever, if its key is triggered again.
RunningEnds == row.status = "running" ~> row.status # "running"
=============================================================================
