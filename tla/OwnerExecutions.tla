--------------------------- MODULE OwnerExecutions ---------------------------
(***************************************************************************)
(* One command of the owner, a "find opportunities" (owner/commands.py) or *)
(* a "generate report" (owner/reports_catalog.py), under one idempotency   *)
(* key.  A request inserts the row and spawns a daemon thread, the runner, *)
(* with a session of its own; the owner may cancel meanwhile.  Rows of     *)
(* other keys share nothing with it.                                       *)
(*                                                                         *)
(* Sessions do not expire their objects on commit (database.py): a runner  *)
(* looks at the row as it first read it, unless its session was rolled     *)
(* back in between, and its commits write the status over the row.         *)
(***************************************************************************)
EXTENDS Naturals

CONSTANT Requests  \* requests of the owner's API that are handled concurrently

VARIABLES
    command,    \* the command type
    execution,  \* its row: status and the cancel flag
    request,    \* what each request is doing, with the row it read
    runner,     \* what the row's thread is doing, with the row as it sees it
    aiAllowed,  \* the owner's control of AI operations
    \* history, read by no action of the system
    started,    \* how often the agent was started
    heeded,     \* a cancel was committed before the runner had read the row
    lost        \* the thread died, or could not record its failure

execHistory == <<started, heeded, lost>>
execVars    == <<command, execution, aiAllowed, request, runner, execHistory>>

Resting == [pc |-> "none"]

Search == command = "find_opportunities"

Ended == {"completed", "partially_completed", "failed", "cancelled"}

\* OWNER_EXECUTION_TRANSITIONS.
Transitions ==
    [absent               |-> {},
     queued               |-> {"running", "cancelled", "blocked", "failed"},
     running              |-> {"waiting", "waiting_for_approval", "completed",
                               "partially_completed", "failed", "cancelled", "blocked"},
     waiting              |-> {"running", "failed", "cancelled", "blocked"},
     waiting_for_approval |-> {"running", "completed", "partially_completed", "failed",
                               "cancelled"},
     blocked              |-> {"running", "cancelled", "failed"},
     completed            |-> {},
     partially_completed  |-> {},
     failed               |-> {},
     cancelled            |-> {}]

TransitionIgnored(current, next) == TRUE

CanTransition(current, next) == current = next \/ next \in Transitions[current]

----------------------------------------------------------------------------
ExecInit ==
    /\ command \in {"find_opportunities", "generate_report"}
    /\ execution = [status |-> "absent", cancel |-> FALSE]
    /\ request = [q \in Requests |-> Resting]
    /\ runner = Resting
    /\ aiAllowed \in BOOLEAN
    /\ started = 0
    /\ heeded = FALSE
    /\ lost = FALSE

Request(q, step) == request' = [request EXCEPT ![q] = step]

\* A flush writes the status only if it differs from the one the session had read.
SetStatus(read, status) ==
    execution' = [execution EXCEPT !.status = IF status = read.status THEN @ ELSE status]

ToggleAi ==
    /\ aiAllowed' = ~aiAllowed
    /\ UNCHANGED <<command, execution, request, runner, execHistory>>

\* The control allows AI (and, for a search, today's limit leaves capacity), and no row
\* of this key is found.  (A row that is found is returned: no change.)
CommandLookup(q) ==
    /\ request[q] = Resting
    /\ aiAllowed
    /\ execution.status = "absent"
    /\ Request(q, [pc |-> "insert"])
    /\ UNCHANGED <<command, execution, aiAllowed, runner, execHistory>>

CommandInsertUnkeyed(q) ==
    /\ request[q].pc = "insert"
    /\ execution' = [execution EXCEPT !.status = "queued"]
    /\ runner' = [pc |-> "spawned"]
    /\ Request(q, Resting)
    /\ UNCHANGED <<command, aiAllowed, execHistory>>

\* The unique key admits one insert; the thread is spawned after the commit.
CommandInsert(q) ==
    /\ request[q].pc = "insert"
    /\ execution.status = "absent"
    /\ execution' = [execution EXCEPT !.status = "queued"]
    /\ runner' = [pc |-> "spawned"]
    /\ Request(q, Resting)
    /\ UNCHANGED <<command, aiAllowed, execHistory>>

\* The key is taken: the search's savepoint returns the row of the other request, the
\* report's request fails.
CommandKeyTaken(q) ==
    /\ request[q].pc = "insert"
    /\ execution.status # "absent"
    /\ Request(q, Resting)
    /\ UNCHANGED <<command, execution, aiAllowed, runner, execHistory>>

CancelRead(q) ==
    /\ request[q] = Resting
    /\ execution.status # "absent"
    /\ CanTransition(execution.status, "cancelled")
    /\ Request(q, [pc |-> "cancel", read |-> execution])
    /\ UNCHANGED <<command, execution, aiAllowed, runner, execHistory>>

CancelCommit(q) ==
    /\ request[q].pc = "cancel"
    /\ execution' =
        [cancel |-> TRUE,
         status |-> IF request[q].read.status = "cancelled" THEN execution.status
                                                            ELSE "cancelled"]
    /\ heeded' = (heeded \/ runner.pc = "spawned")
    /\ Request(q, Resting)
    /\ UNCHANGED <<command, aiAllowed, runner, started, lost>>

----------------------------------------------------------------------------
(* The runner.                                                             *)

\* It finds the row cancelled or, a search, in a status that may not run.
RunnerLeaves ==
    /\ runner.pc = "spawned"
    /\ execution.cancel \/ (Search /\ ~CanTransition(execution.status, "running"))
    /\ runner' = [pc |-> "done"]
    /\ UNCHANGED <<command, execution, aiAllowed, request, execHistory>>

RunnerReadsAny ==
    /\ runner.pc = "spawned"
    /\ runner' = [pc |-> "start", read |-> execution]
    /\ UNCHANGED <<command, execution, aiAllowed, request, execHistory>>

RunnerReads ==
    /\ runner.pc = "spawned"
    /\ ~execution.cancel
    /\ Search => CanTransition(execution.status, "running")
    /\ runner' = [pc |-> "start", read |-> execution]
    /\ UNCHANGED <<command, execution, aiAllowed, request, execHistory>>

RunnerStarts ==
    /\ runner.pc = "start"
    /\ SetStatus(runner.read, "running")
    /\ runner' = [pc |-> "check", read |-> [runner.read EXCEPT !.status = "running"]]
    /\ UNCHANGED <<command, aiAllowed, request, execHistory>>

RunnerWaitsForAi ==
    /\ runner.pc = "check"
    /\ Search
    /\ ~aiAllowed
    /\ UNCHANGED execVars

\* A search asks for the AI control again; a report starts its agent at once.
RunnerIsBlocked ==
    /\ runner.pc = "check"
    /\ Search
    /\ ~aiAllowed
    /\ SetStatus(runner.read, "blocked")
    /\ runner' = [pc |-> "done"]
    /\ UNCHANGED <<command, aiAllowed, request, execHistory>>

RunnerWorks ==
    /\ runner.pc = "check"
    /\ Search => aiAllowed
    /\ started' = started + 1
    /\ runner' = [runner EXCEPT !.pc = "work"]
    /\ UNCHANGED <<command, execution, aiAllowed, request, heeded, lost>>

Results ==
    IF Search THEN {"completed", "waiting_for_approval", "partially_completed", "failed"}
              ELSE {"completed", "failed"}

\* The agent ends, and the row is got again: the identity map returns the object read
\* at the start, unless a rollback in this session has expired it.
RunnerGetsResult ==
    /\ runner.pc = "work"
    /\ \E result \in Results, expired \in BOOLEAN :
        runner' = [pc |-> "finish", result |-> result,
                   read |-> IF expired THEN execution ELSE runner.read]
    /\ UNCHANGED <<command, execution, aiAllowed, request, execHistory>>

\* Only a search looks at the cancel flag, and only on the row as it sees it.
RunnerFinishes ==
    /\ runner.pc = "finish"
    /\ SetStatus(runner.read, IF Search /\ runner.read.cancel THEN "cancelled"
                                                              ELSE runner.result)
    /\ runner' = [pc |-> "done"]
    /\ UNCHANGED <<command, aiAllowed, request, execHistory>>

\* Something raises once the row is running: it fails, cancelled or not.
RunnerFails ==
    /\ runner.pc \in {"check", "work", "finish"}
    /\ \E read \in {runner.read, execution} : SetStatus(read, "failed")
    /\ runner' = [pc |-> "done"]
    /\ UNCHANGED <<command, aiAllowed, request, execHistory>>

\* The process dies, or the agent raises and the commit of the failure fails too:
\* nothing takes the row up again.
RunnerIsLost ==
    /\ runner.pc \notin {"none", "done"}
    /\ runner' = [pc |-> "done"]
    /\ lost' = TRUE
    /\ UNCHANGED <<command, execution, aiAllowed, request, started, heeded>>

RunnerSteps ==
    \/ RunnerLeaves
    \/ RunnerReads
    \/ RunnerStarts
    \/ RunnerIsBlocked
    \/ RunnerWorks
    \/ RunnerGetsResult
    \/ RunnerFinishes

ExecNext ==
    \/ ToggleAi
    \/ \E q \in Requests :
        \/ CommandLookup(q)
        \/ CommandInsert(q)
        \/ CommandKeyTaken(q)
        \/ CancelRead(q)
        \/ CancelCommit(q)
    \/ RunnerSteps
    \/ RunnerFails
    \/ RunnerIsLost

ExecSpec == ExecInit /\ [][ExecNext]_execVars

\* The thread is scheduled.
ExecFairness == WF_execVars(RunnerSteps)

----------------------------------------------------------------------------
(* Properties.                                                             *)

Row == [status : DOMAIN Transitions, cancel : BOOLEAN]

\* Every variable of the owner execution holds a value of its type.
ExecTypeOK ==
    /\ command \in {"find_opportunities", "generate_report"}
    /\ execution \in Row
    /\ request \in [Requests -> {Resting, [pc |-> "insert"]}
                                 \cup [pc : {"cancel"}, read : Row]]
    /\ runner \in [pc : {"none", "spawned", "done"}]
                  \cup [pc : {"start", "check", "work"}, read : Row]
                  \cup [pc : {"finish"}, read : Row, result : Results]
    /\ aiAllowed \in BOOLEAN
    /\ started \in Nat
    /\ heeded \in BOOLEAN
    /\ lost \in BOOLEAN

\* However its requests race, a command's key starts its agent at most once, and not at
\* all when a cancel was committed before the runner had read the row.
AgentStartsOnce == started <= IF heeded THEN 0 ELSE 1

\* What has ended stays as it ended, unless its runner or a cancel under way read it
\* before: no later cancel touches the result the owner was shown.
ResultStays ==
    [][execution.status \in Ended /\ runner.pc = "done"
       /\ (\A q \in Requests :
              request[q].pc = "cancel" => request[q].read.status \in Ended)
       => execution'.status = execution.status]_execVars

\* A row that was inserted leaves "queued" and "running", unless its thread was lost.
ExecutionEnds ==
    execution.status \in {"queued", "running"} ~>
        (execution.status \notin {"queued", "running"} \/ lost)
=============================================================================
