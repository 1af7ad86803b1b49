# Formal models of the AI Business Manager

TLA+ specifications, TLC runs and TLAPS proofs for the backend under
`src/backend/app`. Source paths below are relative to it unless they say otherwise.

## 1. The system

The backend is a FastAPI application over one SQL database (PostgreSQL). n8n
triggers workflows by webhook, agents do the work of a workflow, the owner watches,
approves and controls over an HTTP API. Every request works in a database session
of its own (`database.py:108`, `get_db`), which does not autoflush, does not expire
objects on commit and is only committed where a service says so.

| Part | State it keeps | Operations | Talks to |
| --- | --- | --- | --- |
| Owner controls (`owner/controls.py`, `owner/safe_mode.py`) | one row: mode, four switches | pause-all, set one switch, enter and clear Safe Mode, four assertions | every governed service reads it |
| Approvals (`approvals/`, `owner/approvals.py`) | approval rows: status, fingerprint, expiry | request, gate, approve, reject, cancel, expire | agents request, executors ask the gate, the owner decides |
| Workflow ledger (`orchestration/service.py`, `api/n8n.py`) | one row per workflow and key: status, attempt, start | trigger, replay, retry, reclaim, run, finish | n8n triggers, handlers run agents |
| Outbound email (`services/email_service.py`, `providers/email/`) | message rows: status, unique key | send, record sent, record failed | controls, approvals, caps, provider, outreach rows |
| Pilot limits and budget (`pilot/`) | none of their own: counts of committed rows | assert and check caps, budget status | email, research, audit, manager |
| Manager agent (`agents/manager/`) | runs, tasks, decisions | run, resume | delegates to the other agents, requests approvals |
| Follow-ups (`services/follow_up_service.py`) | sequences, items, lead flags | start, process due, send, reply, opt out, block, convert | email, approvals |
| Owner commands (`owner/commands.py`) | execution rows | find opportunities (a thread), cancel | manager |
| Sales, delivery, finance, research, audit and report agents (`agents/`) | run records and their products | run, and per-agent operations | providers, approvals |
| Notifications (`services/notification_service.py`) | notification rows: dedupe key, status | notify | Telegram |
| Circuit breaker (`providers/circuit_breaker.py`) | per provider: state, failures, opening time | allow, record success, record failure | AI and search providers |
| Owner sessions, rate limit, webhook authentication (`owner/session_auth.py`, `security/`, `orchestration/auth.py`) | sessions, counters, nonces | log in and out, admit | HTTP layer |
| Business cycle (`agents/manager/business_state.py`, `planner.py`, `orchestration/handlers.py`) | none of its own: it reads companies, scores, leads, outreach, customers, projects | inspect, plan, carry out | all agents |
| Opportunity lifecycle, read models (`owner/`) | derived | queries | frontend |
| Tool gateway and contracts (`tools/`, `agents/contracts/`) | none | permission checks | agents |
| Scoring (`scoring/`) | score rows | score | manager |
| n8n workflows (`src/n8n`), frontend (`src/frontend`), migrations, scripts | | clients and tools | HTTP API |

What is hard here is concurrency without locks. Only the owner's decision on an
approval takes a row lock; every other operation reads committed rows, computes, and
commits over whatever has been committed since. On top of it: processes die between
the steps of a run, provider answers are lost after the provider has acted, clients
repeat their requests, clocks make approvals due and runs stale while others work on
them, and caps are counted before the rows in flight can be seen. `PROJECT.json`
lists these hazards at their lines.

What each part must guarantee:

* controls: what the owner switched off stays off until the owner releases it; a
  governed check does not admit work that is held off all the while;
* approvals: decided at most once, executed only as granted, refused for good, never
  pending for ever;
* ledger: a key is first run once, its runs are bounded, a success settles the key,
  an abandoned run ends;
* email: mailed at most once, only after approval, recorded as it happened, caps
  exceeded by no more than the concurrency explains;
* manager: a task is delegated only as its gate allows, retries and tasks are bounded,
  a run always ends in a status that fits its tasks;
* follow-ups: nothing is sent to a lead that stopped, at most the allowed number, in
  order, each once;
* owner commands: a command starts its agent at most once, and ends; a cancel that
  comes in time keeps the agent from starting, one that comes too late changes nothing;
* circuit breaker: an open breaker shields the service from all but the calls it had
  admitted before, and closes again once the service is well;
* notifications: the owner is told once, and each session sends a cap of notices at most;
* research, audit and report: a key's work is paid for once and its outcome is final;
* finance: an entry is booked once, the figures shown are made of entries of the ledger;
* delivery: tasks are verified in the order of their dependencies, a project is complete
  only when verified;
* business cycle: every company that is found moves on through the funnel, and none is
  drafted again once its outreach could be seen;
* scoring: better evidence never lowers a score.

## 2. How the code is read into TLA+

One session is one process. A read of committed rows and the commit that follows are
two actions, so another session may commit in between. The variables of a module are
the committed rows; what a session has read or is about to write lives in its entry
of `session` or `worker`. An operation that raises, or whose process dies, drops its
entry (`Abandon`, `Crash`): the database rolls back. Requests that change nothing
(replays, conflicts, refusals) are the states in which the action is not enabled.

Two facts about the libraries are modelled as external: the ORM writes on flush
only the columns whose value differs from the one it loaded (`Flush` in
`SystemControl`), and the database makes a writer wait for a row lock (`Unlocked` in
`Approvals`) and an insert wait for another insert of the same unique key
(`InFlight` in
`OutboundEmail`, `HoldersOfKey` in `AgentRuns`, `Free` in `Finance`, `Holds` in
`Notifications`). The email provider is external too: it sends one
email per idempotency key, and may accept a post whose answer is lost.

Variables below a comment "history" are read by no action that models code; they only
record what the properties speak of.

## 3. The modules

**SystemControl** is the controls row with any number of overlapping owner requests.
`Load` is `get_or_create` with the refusals of the endpoints (`Refused`), `Commit`
the change and the commit with its dirty columns, `Abandon` the loss of the request.
`PauseAll`, `SetControl`, `EnterSafeMode`, `ClearSafeMode` are the four mutators
as functions of the loaded row. `held` records the holds in force: a control that a
request switched off, or Safe Mode, while nobody was trying to release it.

**GovernedWork** extends it with code that checks the controls: `CheckAi` and
`CheckSwitch` are the two reads of `assert_outbound`, `assert_spending` and
`assert_browser`; `Act` is the effect, which reads nothing again. Safe Mode is not
promised as much as the switches are: a pause and a resume that loaded the row before
Safe Mode can commit between the two reads, and the second read then sees neither the
mode nor the switch, so `HeldThroughoutDenies` speaks of the switches only.
For the same reason a Safe Mode request that loaded the row before a pause-all committed
replaces the mode paused_by_owner (`controls.py:222` keeps it only as loaded); AI
operations stay denied, because the switch is off, and that is what `HeldStaysOff` says.
Nor does `ClearSafeMode` restore what the owner had off before Safe Mode: it switches
both on, because nothing remembers (`controls.py:292` reads otherwise).

**Approvals** has the rows, the clock, the row locks and the sessions: requests
(`FindPending`, `Create`), the queue workflow's sweep (`SweepRead`, `SweepCommit`),
the owner (`OwnerDecides`, `OwnerCancels`, `ResolveCommit`), executors
(`GateAllows`, `GateMarks`, `MarkCommit`, `Execute`) and `Crash`. `Gate` is
`evaluate_gate`. A payload is a member of `Contents`; equality of contents stands
for equality of fingerprints.

**ApprovalLifecycle** is the abstract promise, and **ApprovalsRefinement** maps
`Approvals` to it: the status to a phase, the owner's first committed decision, and
the approval of the latest execution.

**WorkflowLedger** is one ledger row under any number of triggers with its key.
`RunsAgain` is `_handle_existing`; `Insert` has the unique key's two outcomes;
`Persist` and `PersistFails` are the terminal commit. Time is the age of the run. Two
requests that read one row run one attempt twice, and a reclaimed run that commits late
takes the row back, so no attempt but the first is run once; `RunsFollowRuns` is what
holds of the others.

**OutboundEmail** is a send from the check of the controls to the terminal commit:
`Admit`, `Gate`, `LookUp`, `Reserve`, `Post`, `RecordSent`, `RecordFailed`, with the
sales agent's request for approval (`RequestApproval`, `RequestCommit`), the owner
(`OwnerSwitches`, `OwnerResolves`) and lost transactions (`Abandon`).

**FollowUps** is one lead with its sequence and items: opening the sequence
(`StartRead`, `StartCommit`), `process_due` (`ProcessRead`, `ProcessStops`,
`ProcessDrafts`), `send_followup` (`SendRead` or `SendRefused`, and their commits) and
the events of the lead (`EventRead`, `EventCommit`). `Write` is the commit of a sequence:
a status or count equal to the one read is not written, a new time always is. A send is
two commits, because the email service, inside it, commits what `send_followup` has
flushed (`RecordSent`, `RecordFailed`), and `SendCommit` comes after. Between the two,
and between any read and its commit, other sessions overwrite and are overwritten: a
stopped sequence may be put back to "active", with as many sent as are allowed. What
must hold of the lead is therefore stated of the mail, not of the sequence's status.
The second look at the stop rules in `_process_one_due`
(`services/follow_up_service.py:299`) is no action of its own: it is given the lead
object that was read before.

**ManagerRuns** is one run of the manager over the places of its plan. The run exists
twice, because manager and agents share one database session: `mem` is what the session
sees, `db` what is committed. The manager only flushes until the run ends (`End`); most
agents commit (`Persist`), and with their work whatever the manager flushed before; on a
database error they roll back, and the manager goes on with the committed run
(`AgentRollsBack`). If the delegation was not committed, failing the task is then an
invalid transition and ends the run (`AgentUndoesDelegation`). `Abandon` is the death of
the process. `Start`, `StartNothing` and `Resume` begin a session, `RequestApproval`,
`Cancel` and `Delegate` are `_process_task` up to the agent's call, `AgentSucceeds` and
`AgentFails` what follows it, `Stop`, `AwaitOwner` and `Complete` the ends. What the
planner plans is any choice of kinds; whether the goal is met, and the limits on cost,
the day's budget and the pilot's caps, may go either way (`Complete`, `Stop`). The check of
the controls at the start of `run` is the one of `GovernedWork`. `resume` may be called at
any time; in the repository only `tests/test_approval_system.py` (under `src/backend`)
calls it, so that today a run that waits for approval is not taken up again by itself.
One session at a time drives the run here: `resume` (`agents/manager/agent.py:272`) checks
neither a lock nor the run's status, and two processes that drive one run are not modelled.

**OwnerExecutions** is one command of the owner under one key: the requests that race to
insert its row (`CommandLookup`, `CommandInsert`, `CommandKeyTaken`), the cancels
(`CancelRead`, `CancelCommit`), and the thread the insert spawns, the runner. The runner
reads the row once (`RunnerReads`) and goes on with the object it read, so that its last
commit (`RunnerFinishes`) writes its result over a cancel committed in between, unless a
rollback expired the object (`RunnerGetsResult`). What raises in the thread once the row
is running makes it failed (`RunnerFails`), over a cancel too. `RunnerIsLost` is the death of the
process, and the failure that cannot be recorded; nothing takes such a row up again.

**ProviderCalls** is the circuit breaker with the callers it is shared by: `MaybeHalfOpen`,
`AfterSuccess` and `AfterFailure` are its transitions, `Ask` and `Try` the retry loop of
the AI and the search provider. The breaker is asked once per call and not once per try,
and admits everybody while it is half open; what it then promises is `OpenShieldsService`.
`ReadStatus` is the status page, whose reading opens the breaker half.

**Notifications** is `notify` and `try_notify` inside the transaction of a caller, who may
send any number of notices before it commits (`orchestration/handlers.py:600` sends ten;
`approvals/service.py:333` sends one in a transaction that is not its own): `flushed` is
what a session has flushed and not committed. `Verdict` is the priority and the caps,
counted over the committed records and the session's own, `Insert` the flush of the
record, `PostMessage` a try of the provider, `CommitNotices` and `RollBackNotices` what
the caller's transaction comes to. A key that another session takes meanwhile makes the
flush fail; `try_notify` swallows the error, and the caller is left in a transaction that
can only be rolled back (`KeyTaken`).

**AgentRuns** is the run row that the research, audit and report agents keep per
idempotency key, and what their runs store: the day's room (`ReadCapacity`), the lookup
and the insert (`LookUpRun`, `InsertRun`), the work (`Persist`, `FlushCompany`,
`AuditCompany`), and the ends (`FinishRun`, `FailRun`, `RollBack`, `Mark`, `RunLost`). The
lookup goes by key and agent, the unique index by key alone, so a key used by two agents
is a failure of the second. Only research records a run that was rolled back (`Mark`); one
of the audit agent leaves no trace.

**Finance** is the ledger, the row of the day's figures, the figures of the month to date
and the budget of the day with its alert. A booking is `RequestEntry`, `CheckBudget`,
`ReadStatus`, `FlushAlert`, `LookUpEntry`, `InsertEntry`, `ReadDaily`, `InsertDaily`,
`CommitEntry`; figures are `RequestFigures`, `SumCosts`, `SumRevenue`, `InsertMetric` and
`CommitFigures`. Amounts may be negative: a credit is booked as an expense below zero
(`tests/test_finance_agent.py:347` under `src/backend`). An entry is dated today or on an
earlier day of the month, and goes into the row of that day. The row of a day keeps cents
where the ledger keeps six places, and the two updates round differently: a booking leaves
it to the database (`Stored`, half away from zero), the figures round to even (`Quantized`);
a booking that finds its rounded column unchanged writes nothing to it (`Update`).
Increments made from the same copy are lost, and `CommitFigures` writes the figures of the
whole period into the row of the day, as `_sync_daily_metric_money` does; so the row of a
day may miss entries, or show the month for the day. `FiguresAreOfTheLedger` is what
remains: each column is the sum of some booked entries, each taken once (`Sums`), to within
half a cent for each update that could have gone into it (`Shows`). The alert is decided
before the expense counts (`ReadStatus`), so the expense that crosses the ratio raises none.

**Delivery** is the delivery agent: `RunRead`, `RunCommit` and `RunCommitsFailure` make
customer, project and tasks; `ExecuteRead`, `ExecuteBlocked`, `ExecuteCommit` and the
approvals of sensitive tasks execute them; `VerifyRead`, `VerifyFlush`, `VerifyCommit`
verify one task, and the project's own verification and completion follow. A status that
a session read before may put a completed task back to review (`Written`); its flag
`verified` stays, and it is the flag the completion asks for. A run whose task specs are
refused commits customer and project with its failure, and spends the key.

**Pipeline** is the business cycle over companies and their leads: `Plan` is
`inspect_business_state` with `create_plan`, the actions named for the stages carry the
tasks out (`Research`, `ScoreStart`, `ScoreOne`, `Audit`, `Draft`, `AskSend`,
`ExecuteSend`, `Deliver`), and the sessions besides the managers change the leads
meanwhile (`AddLead`, `SendPending`, `ReplyRead`, `ReplyCommit`, `Block`,
`MarkCustomer`). The stages take a prefix of a
query that states no order (`Rows`). An approved send of the manager ends `unlinked`: the
approval belongs to the manager's task, and `send_outreach` goes by the approval the
outreach row names (`services/email_service.py:270`). The two
queries for delivery are cut at 50 rows before the rows that need nothing are left out
(`Convertible`, `FirstReady`); `QueryLimit` is that cut, one row in the runs, so that a
query may return the same served lead every time. `LeadsMoveOn` therefore promises no
delivery. No other query of
the state is cut before it is filtered.

**Scoring** is the deterministic score over the evidence it tells apart, as research finds
it fact by fact (`FindSignal`, `FindSource`, `FindDescription`, `FindIndustry`). It has
two rules that pay for what is missing; `EvidenceNeverLowersTheScore` says that finding it
pays at least as much.

**MCUnfinished**, **MCCaps**, **Business** and **MCProgress** check components that share no row in
these models side by side: a variable `subject`, chosen by the initial state, names the
part at work, and the others rest in their initial states. That adds the state spaces and
does not multiply them, and one run answers for all of them. `MCUnfinished` has the
workflow ledger and the approvals, `MCCaps` the mail and the notices where their caps are
at stake, `MCProgress` the owner's commands, the provider calls
and the pipeline, each with its module's own fairness while it is at work; **Business** has
the seven parts that do business, and `MCBusiness` gives them one symmetry set of sessions
and keys.

The other `MC...` modules give the constants values. `...Proofs` modules hold theorems.
A definition next to the one it varies, such as `FlushAll` before `Flush` or
`GateOfAnyRequest` before `Gate`, is a slip the properties must notice; no
specification uses it.

## 4. The runs

| Run | Checks | Shows |
| --- | --- | --- |
| `Controls` | HeldStaysOff, SafeModeHolds, HeldThroughoutDenies | Two overlapping owner requests lose each other's updates while governed code checks the controls in two reads; still no hold is silently undone, and no check that a hold outlasts admits work. |
| `Approvals` | NeverBothWays, ExecutedWasGranted, RefusalIsFinal, ImplementsLifecycle | Owner decisions, requests, sweeps, gates and crashes interleave over two approval rows; only granted rows are executed, refusals last, and the whole implements the abstract lifecycle. |
| `Unfinished` | FirstAttemptOnce, RunsFollowRuns, PendingEnds | Three triggers race on one workflow key with two retries, stale reclaims and crashes, and run each attempt no more often than the attempt before it accounts for; two approvals wait for an owner who may never answer, and end all the same. |
| `Caps` | CapsOvershootBounded, NoticeCapsOvershootBounded | How far two concurrent sessions take what is counted over rows past its caps: the recorded mail of a day, its first contacts and all mail to a lead, and, with a batch of notices sent before each commit, the notices of an hour and the information of a day; of each kind there is more to send than the bound allows. |
| `FollowUps` | StopIsHeeded, MailedInOrder, StoppedLeadIsQuiet | Two sessions open, process, send and stop the sequence of one lead, over each other's commits. |
| `ManagerRuns` | EffectsAreCounted, WorkNeedsAnswer, CountersAgree, SucceededIsSettled, SessionEnds | A manager run plans, delegates, retries, waits for the owner and is resumed while agents commit or roll back its session and processes die; its limits, counters and final status hold across all of it. |
| `Business` | BusinessTypeOK, PostedAgainOnlyIfLost, MailedOnce, SentWasMailedWasApproved, LimitsOvershootBounded, NoticedAgainOnlyIfUndone, PaidOncePerKey, OutcomeIsFinal, FiguresAreOfTheLedger, VerifiedInOrder, CompletedWasVerified, EvidenceNeverLowersTheScore, DraftsBounded | Two sessions at work in each of the parts that do business: mail, notices, agents' runs, the books, delivery, scoring and the funnel of a lead under two managers, one part at a time. |
| `Progress` | AgentStartsOnce, ResultStays, ExecutionEnds, OpenShieldsService, BreakerRecovers, LeadsMoveOn | What must go on: an owner's command ends unless its thread is lost, a breaker closes again over a service that recovered, and business cycles score, audit and draft every company they find. |

### What the violated runs show

* `ResolvedIsImmutable`: expire_if_due and the sweep read a pending row without a lock and commit EXPIRED over the owner's decision that committed since, so an approved or rejected row becomes expired. approvals/service.py:432 says "Approval already resolved and is immutable".
* `SucceededIsKept`: A run slower than its timeout plus the grace is reclaimed as stale by a second trigger; when the first run commits SUCCEEDED in between, the reclaiming trigger's commit writes RUNNING over it, and runs the handler again. orchestration/service.py:210 says "if the handler already completed successfully, keep SUCCEEDED so retries do not re-run side effects".
* `RunningEnds`: When the stale run has no retry left, _handle_existing marks it TIMED_OUT with a flush and returns the view; nobody commits, so the row stays RUNNING for ever while every trigger is answered timed_out. orchestration/service.py:151 says "Abandoned worker / crash after commit to RUNNING", "reclaim as timed out".
* `CustomerIsLeftAlone`: ensure_sequence_started sets the lead's status to contacted when the lead it read was new; when mark_customer commits converted in between, its commit writes contacted over it, opens an active sequence, and a follow-up is drafted and, once approved, mailed to the customer. services/follow_up_service.py:3 says "Never follows up after reply / opt-out / customer / blocked".

### Bounds

* Controls: two overlapping requests are what a lost update takes; a third adds
  another of the same kind, and the theorems cover any number. `Toggled` limits the
  switches set one at a time to AI and outbound: spending is treated exactly as
  outbound, browser automation as AI without its part in the mode.
* Approvals: two rows (a request and the one it replaces, or two of the same
  fingerprint), two sessions and a sweeper, a clock of `MaxTime` ticks with
  `TTL = 1`, so that rows become due while others hold them. `Room` and
  `now + TTL <= MaxTime` in `FindPending` stop requests when rows or clock run out,
  which is why these runs switch the deadlock check off.
* Ledger (`Unfinished`, beside two approvals with one sweeper): three requests with two
  retries, so that an attempt can be run by several requests and be followed by another;
  the two violated runs take two requests and one retry. `StaleAge = 1` lets a run
  become stale while it works. Ages stop growing once stale, so nothing is cut off.
* Email: two sessions, two or three outreaches, one or two posts per send. `sends` and
  `mailed` count to two, which is all "at most once" needs.
* Caps (`Caps`): two sessions, and of every kind one more message than the bound lets
  through, so that each conjunct could fail (the mutants make each fail). Six approved
  outreaches, four of them to one lead: a daily cap of three may be passed by one, a cap of
  one first contact by one, a lead may get three of four. Five urgent notices against two an
  hour, three informative ones against one a day: a session may send up to a cap before it
  commits, and one is left. A run starts with the outreaches approved and with the notices
  of the other priority failed, which requests, answers and refusals lead to. Posts and
  sends are not retried here; `Business` has the retries. `MCView` counts rows by what steps
  and caps read of them.
* Follow-ups: two sessions on one lead, two follow-ups, so that an item has a successor
  and a sequence a last item. The events are a reply and a conversion: an opt-out and a
  block set a flag of their own and stop the sequence as a reply does.

* Manager: two tasks of any kind, each with two retries, so that one can use retries the
  run's budget gave the other, and a runtime of one tick, so that the limit strikes
  between any two steps. `MaxTasks` is the length of the plan here; the theorems cover a
  plan that is longer.

* Business: two sessions in each part, since every hazard there is one session between a
  read and a commit of another; two or three keys, so that sessions meet at one key and
  pass each other at different ones; limits of one, at which two sessions meet at the last
  place. The books have two expenses, a credit and a revenue dated earlier, amounts of
  which no two sums are as near as their rounding, a cent of two units, and a budget that
  a credit makes room in. `MaxPosted = 2` ends the messages posted for one notice and
  `MaxPosts` those of an email. Delivery has a task, and a sensitive one that depends on
  it; the pipeline two managers over one company, so that their plans name the same lead.
  Scoring starts with nothing known and reaches every combination of evidence.
* Progress: two requests, two callers with one retry and a threshold of two, so that one
  call is admitted before the breaker trips and answered after; two companies, of which a
  cycle and a query of one row take one at a time, so that one can be passed over.

### Fairness

`Approvals!FairSpec`: the clock runs, the scheduler starts sweeps for ever
(`n8n/workflows/outreach-approval-queue.json` is a schedule), and sweeps and owner
commits do not fail every time. The owner is not assumed to decide.
`WorkflowLedger!FairSpec`: time passes, and a request that is not killed every time it
reaches a step takes it (the handler returns: every agent bounds its run). Crashes stay
possible for ever. No trigger is promised: the generated workflows have a key per hour, try
it three times, five seconds apart, and run daily
(`backend/scripts/generate_n8n_workflows.py:29`, 75, 82-84 under `src`), which is over long
before a run is stale; so that an abandoned run is taken over is not claimed. Only the
violated run `RunningEnds` assumes triggers without end (`TriggeredSpec`): even they do not
end a run without a retry left.
`FollowUps!FairSpec`: the time of a follow-up comes, the scheduler runs `process_due` for
ever and its stopping commit does not fail every time, and sessions do not hang for ever.
Nothing is assumed of the owner or of the senders.
`ManagerRuns!Fairness`: the clock runs, and a session takes its next step: the loop never
waits, and an agent's call returns because the providers' calls are timed out.

`OwnerExecutions!ExecFairness`: the thread is scheduled; requests and cancels owe nothing.
`ProviderCalls!CallFairness`: time passes, callers come again, and their threads run.
`PipelineFairness`: the schedule asks for full cycles for ever
(`n8n/workflows/daily-business-cycle.json`), a run goes on with its tasks, and no kind of
task fails every time. Nothing is assumed of the owner or of the leads.

## 5. The proofs

| Theorem | States | For every value of the constants |
| --- | --- | --- |
| `SystemControlProofs!TypeCorrect` | TypeOK | The controls' variables keep their types for any number of owner requests. |
| `SystemControlProofs!WorkTypeCorrect` | WorkTypeOK | The variables of governed work keep their types for any number of owner requests and workers. |
| `SystemControlProofs!HeldWorkIsDenied` | HeldThroughoutDenies | A check whose switch is held off from its beginning never admits the work, for any number of owner requests and workers. |
| `SystemControlProofs!OffIsKept` | HeldStaysOff | A control switched off while nobody switches it on stays off, whatever any number of concurrent requests overwrite. |
| `SystemControlProofs!SafeModeDenies` | SafeModeHolds | Safe Mode denies outbound and spending until it is released, for any number of concurrent requests. |
| `ApprovalsProofs!TypeCorrect` | TypeOK | The approvals' variables keep their types for any rows, sessions, policies and clocks. |
| `ApprovalsProofs!DecidedOneWay` | NeverBothWays | No row is both approved and rejected, because deciding sessions hold the row lock. |
| `ApprovalsProofs!ExecutionsAreGranted` | ExecutedWasGranted | Whatever is executed on an approval was granted by the owner, for the same action and, when rebound, the same payload. |
| `ApprovalsProofs!RefusalsAreFinal` | RefusalIsFinal | A rejected, expired or cancelled row never becomes pending or approved again. |
| `ApprovalsProofs!ApprovalsImplementLifecycle` | ImplementsLifecycle | Approvals implements the abstract lifecycle, step by step. |
| `ExecutionProofs!LedgerTypeCorrect` | TypeOK | The attempt never passes max_retries + 1, whatever updates are lost. |
| `ExecutionProofs!FirstAttemptRunsOnce` | FirstAttemptOnce | The first attempt of a key is run once, for any number of racing triggers. |
| `ExecutionProofs!ExecutionTypeCorrect` | ExecTypeOK | The row of an owner's command, its requests and its thread keep their types for any number of requests. |
| `ExecutionProofs!AgentIsStartedOnce` | AgentStartsOnce | A command's agent is started at most once for any number of racing requests, and not after a cancel its thread could read. |
| `ExecutionProofs!ResultsStay` | ResultStays | No cancel that reads an ended row changes the result, for any number of requests. |
| `ExecutionProofs!CallTypeCorrect` | CallTypeOK | No call is tried more often than its retries allow, and the breaker keeps its types, for any threshold, timeout and callers. |
| `ExecutionProofs!OpenBreakerShields` | OpenShieldsService | An open breaker lets through only the tries of calls it had admitted before, none of the caller that opened it, for any number of callers. |
| `ExecutionProofs!RetriesFollowRuns` | RunsFollowRuns | Each run of an attempt lets no request run the next one twice, so the runs of a key are bounded, for any number of requests and retries. |
| `ExecutionProofs!SuccessIsSettled` | SuccessSettles | Once a success is committed and no request is under way, no later trigger runs the key again, for any number of requests and any bound on retries and age. |
| `MessagesProofs!TypeCorrect` | TypeOK | The send pipeline's variables keep their types. |
| `MessagesProofs!PostsAgainOnlyAfterLoss` | PostedAgainOnlyIfLost | An outreach is posted again only if a posting transaction was lost. |
| `MessagesProofs!MailsOnce` | MailedOnce | No recipient gets an outreach twice. |
| `MessagesProofs!SentIsMailedAndApproved` | SentWasMailedWasApproved | Recorded sends were mailed and mail was approved before. |
| `MessagesProofs!CapsOvershoot` | CapsOvershootBounded | The recorded mail passes each cap by less than the number of concurrent sessions. |
| `MessagesProofs!NoticeTypeCorrect` | NoticeTypeOK | The notices' variables keep their types; no notice is tried more often than its retries allow. |
| `MessagesProofs!NoticesOnlyAgainAfterLoss` | NoticedAgainOnlyIfUndone | The owner gets a notice again only if its record was rolled back or its answer was lost, for any number of senders. |
| `MessagesProofs!NoticeCapsOvershoot` | NoticeCapsOvershootBounded | The notices of an hour and the information of a day come to no more than a cap for each session, whatever batches the sessions send before they commit. |
| `FollowUpsProofs!TypeCorrect` | TypeOK | The follow-ups' variables keep their types; the count of a sequence never passes the maximum. |
| `FollowUpsProofs!StopsAreHeeded` | StopIsHeeded | No follow-up reaches a lead that replied, opted out or was blocked before the send began, for any number of sessions. |
| `FollowUpsProofs!MailsInOrder` | MailedInOrder | Follow-ups are mailed in order, each approved, and the sequence counts only what was sent. |
| `ManagerRunsProofs!TypeCorrect` | TypeOK | No task of a manager run is attempted more than max_retries + 1 times, for any plan and limits. |
| `ManagerRunsProofs!EffectsCounted` | EffectsAreCounted | Every committed execution of a task is a counted attempt, through rollbacks, crashes and resumes. |
| `ManagerRunsProofs!WorkIsAnswered` | WorkNeedsAnswer | A task that was attempted is GREEN, or YELLOW and was approved by the owner. |
| `ManagerRunsProofs!SuccessIsSettled` | SucceededIsSettled | A run reported SUCCEEDED has no task left to run or to wait for. |
| `ManagerRunsProofs!CountersStay` | CountersAgree | The retries and failures a manager run shows are those of its tasks, through rollbacks, crashes and resumes. |
| `AgentsProofs!RunsTypeCorrect` | AgentRunsTypeOK | The variables of research, audit and report runs keep their types, for any runners, keys and domains. |
| `AgentsProofs!PaidOnce` | PaidOncePerKey | Search, browser and AI are paid for once per key, unless the run that used them was rolled back, for any number of racing runs. |
| `AgentsProofs!OutcomesStay` | OutcomeIsFinal | The outcome committed for a key is never replaced, for any number of racing runs. |
| `AgentsProofs!DayOvershoot` | DayOvershootBounded | Companies and audits of a day pass the daily capacity by no more than one run's share for every runner but one; a conjunct of LimitsOvershootBounded. |
| `AgentsProofs!DeliveryTypeCorrect` | DeliveryTypeOK | The variables of a delivery keep their types, for any tasks, dependencies and agents. |
| `AgentsProofs!DeliveredInOrder` | VerifiedInOrder | No task of a project is verified before those it depends on, nor a sensitive one without the owner's approval. |
| `AgentsProofs!CompletionIsEarned` | CompletedWasVerified | The step that completes a project finds every task verified that was there when it decided. |
| `BusinessProofs!PipelineTypeCorrect` | PipelineTypeOK | The variables of the lead pipeline keep their types, for any companies and managers. |
| `BusinessProofs!DraftsStayBounded` | DraftsBounded | A lead has no more drafts than there are managers, for any number of leads and managers. |
| `BusinessProofs!EvidenceHelps` | EvidenceNeverLowersTheScore | No fact that research finds lowers a lead's score. |
| `BusinessProofs!FinanceTypeCorrect` | FinanceTypeOK | The variables of the books keep their types, for any entries, amounts and bookers. |
| `BusinessProofs!SpendOvershoot` | SpendOvershootBounded | The expenses of a day, credits taken off, pass the budget by no more than the largest single one for every booker but one; a conjunct of LimitsOvershootBounded. |
| `BusinessProofs!FiguresAreOfEntries` | FiguresAreOfTheLedger | What the row of a day shows is made of entries of the ledger, each once, to within the rounding of its updates, and the figures of a period exactly so, for any amounts, credits included, and whatever increments are lost. |
| `BusinessProofs!BusinessTypeCorrect` | BusinessTypeOK | The part of the business at work keeps its types. |
| `BusinessProofs!LimitsOvershoot` | LimitsOvershootBounded | Companies, audits and expenses pass their limits by no more than the concurrent sessions had in hand, whichever part is at work. |

`SystemControlProofs`. `HeldStaysOff` and `SafeModeHolds` are not inductive: a request
under way may be about to write a switch or the mode. The invariant rests on what a
commit writes, which is only what it changed: only a releasing request can undo a hold.
A hold in force has no releasing request under way (`HeldUnreleased`), nor has a hold
that a request may still take (`CleanUnreleased`); and a request that is to take a hold
finds, at its commit, what it loaded (`CleanStillOff`, `CleanStillGuarded`,
`HeldGuarded`), because whoever could have changed it would have been a releasing request.
In `GovernedWork`, the holds a check began under and that have stood since (`under`) never
include one that a read of the check has passed (`WorkersRemember`).

`ApprovalsProofs`. A deciding session holds the lock of its row (`DecidingLocks`), a
decided row is decided by nobody else (`DecidedIsClosed`), an approved row was granted
(`ApprovedIsGranted`), and a session about to execute, as well as the latest execution,
was allowed on a row granted for its action and, when rebound, its payload
(`ExecutingIsLicensed`, `ExecutedIsLicensed`). A row's content is set once, at its
creation. `RefusalIsFinal` follows as a step property. For the refinement, the same
invariant shows every commit to be one abstract step or a stutter.

`ExecutionProofs`. The workflow ledger: the attempt stays within `max_retries + 1` because a
retry carries an attempt at most that large from the row it read, and the first attempt
runs once because only an insert into the absent row starts it. For `RunsFollowRuns`, a run of
attempt n opens the next one to every request that reads the row while it stands at n; the
commit that moves the row on is the first of them and closes it to the rest, so the runs of
n + 1 and the requests that hold it are together paid for by the runs of n
(`OnceForEachHolder`). `SuccessSettles` follows
as a step property: a trigger that finds a success answers from the row. The owner's
command: a runner exists only with a committed row (`RowIsThere`), and has not started
its agent before it is about to work (`NotStartedYet`), so the single insert starts one
agent at most; a cancel that was committed before the runner had read the row has left a
flag no commit takes back (`HeededIsSeen`); and a cancel under way read a row it could
cancel (`CancelIsLegal`), so that one which read an ended row read a cancelled one and
writes no status. The provider calls: the tries of a caller since the breaker opened are
of one call (`TriesAreOfOneCall`), as a new one is not admitted while it is open, and the
caller whose failure opened it has none.

`MessagesProofs`. The unique key leaves at most one session in flight per outreach, and
none once a row is committed; a second posting transaction therefore needs the loss of the
first. All posts of an outreach carry one key. For the caps: the recorded mail counted
together with the sessions past the cap check exceeds the limit by at most the sessions
minus one, because the session that passes the check last saw the recorded mail below the
limit. Notices have the same two arguments: what was delivered is what was undone, and
one more if it is recorded or in the hands of the one session that holds the key
(`DeliveriesAccounted`). For their caps (`UnderCap`): what a session has in hand, sent
or let through and not committed, is never more than a cap, because its verdicts count it;
and a verdict that lets a notice through saw fewer than a cap in the records and its own
hands together, so that with a cap in the hands of each other session there are no more
than a cap for each.

`FollowUpsProofs`. Nothing is proved from the status of the sequence, which commits
overwrite. The flags of a lead only grow (`ToldIsFlagged`), so a send that read none
began before any event. The order rests on `Done(n)`, that the first n follow-ups were
sent: it holds of the committed count, of the count a session read, and before every item
that exists (`CountsAreDone`). What a session knows of its item stays true until its
commit because nothing that was done is undone (`Keeps`), and because the row lock leaves
one session at a time between a flush and its commit (`OneHolder`).

`ManagerRunsProofs`. Each part is kept of both copies of the run and related to what was
committed, since a rollback returns the session to the committed copy. What may still be
attempted has an attempt left (`AttemptsLeft`); what was attempted was green or granted
(`Granted`), an answer never going back to pending; the session has counted every
committed execution, and one more while an agent works (`SessionCounts`), so that the
commit of the agent carries the count; a task is running because its agent runs or had
committed (`RunningIsCommitted`); a session on a run that had succeeded finds nothing to do
(`NothingAfterSuccess`). `CountersAgree` is not inductive: an answer of the owner changes a
status, and whether that turns an attempt into a retry depends on when a task waits. It
waits before its first attempt only (`Fresh`), and with that every step changes the
counters by what it changes of the tasks.

`AgentsProofs`. Runs: one session at a time has flushed a row under a key and no row of it
is committed meanwhile (`HeldOnce`, `HeldIsFree`), so a key without a row has been paid for
exactly when a session works on it (`PaidIsHeld`), and whoever commits finds the key free,
which is `OutcomeIsFinal`. `DayOvershootBounded` needs a limit on what sessions still may
add: for some session, what is stored, its own share and `RunLimit` for every other
active one are within the bound (`Shares`, `SharesKept`); a session that reads the room of
the day becomes that session. The delivery: flags and grants are never taken back, so
what a session had read when it went to execute, verify or complete still holds when it
commits (`Founded`), and only a row whose predecessors are verified is in review or
completed (`RowsCleared`), although stale sessions put the status of a row back.

`BusinessProofs`. The funnel: a draft task is planned only for a lead without outreach,
and a manager plans nothing while it has tasks left, so that the outreach of a lead and
the managers that will draft for it are together no more than the managers
(`DraftsCounted`). The score: text is classified only once there is text, the part of
`ScoringInv` that `EvidenceNeverLowersTheScore` needs beyond the types. The books: one
session at a time is past the insert of an entry, which is then not committed (`OneEach`),
so what it adds to the row of the day, as it read it, is an entry that its own commit puts
in the ledger, and that no copy of the row can have counted: the column it read was a sum
of booked entries (`OfTheDay`), the column it writes is that sum and one entry more,
rounded once more. The money spent, credits taken off, and that of the sessions allowed to
book is within the budget and the largest expense of all sessions but one (`WithinLimit`),
because the expenses of the others are at most one each, and a credit only makes room. The
composition: a step of the business is a step of the part at work and a stutter of the
others (`PartsImplemented`), so what is proved of the parts holds of the whole.

Assumptions are those the modules state: `ToggledAssumption`, `PolicyAssumption`,
`TimeAssumption`, `NamesAssumption`, `LedgerAssumption`, `LimitsAssumption`,
`WorkersAssumption`, `EventsAssumption`, `MaxAssumption`, `ManagerAssumption`,
`ProviderAssumption`, `NotificationAssumption`, `AgentRunsAssumption`, `FinanceAssumption`,
`DeliveryAssumption`, `PipelineAssumption`; the MC modules extend those modules, so TLC
evaluates them. They say that limits are natural numbers, that sets of sessions and keys
are finite (and not empty, where a bound counts the sessions but one), and that keys of
different kinds differ.

Only model-checked: the liveness properties (`PendingEnds`, `StoppedLeadIsQuiet`,
`SessionEnds`, `ExecutionEnds`, `BreakerRecovers`, `LeadsMoveOn`), which are out of the
prover's reach under fairness. The violated properties have no theorem because they do not
hold. Every invariant and every action property of the passing runs is stated by a
theorem; `SuccessSettles` is stated by a theorem alone. `OutboundEmail`'s own caps and the
caps of `LimitsOvershootBounded` are proved for every number of sessions, as are those of
the notices, where the runs have two.

## 6. Not modelled, and the plan

Left out for good: owner sessions, webhook authentication and the rate limit (access
control; a request in these models is one that was admitted); the tool gateway and the
agents' contracts (a table looked up before a call, whose outcome is a guard here); read
models and dashboards, the frontend, migrations and scripts; the phase 23 runner beyond
the lead it adds (one process that calls services modelled elsewhere in sequence); the
providers' HTTP clients, prompts and the parsing of model output; the pilot's
configuration and experiment rows, counters of reports that decide nothing.

Seen while modelling, and stated by no property because the code does not say what it
should do instead:

* clearing Safe Mode switches outbound and spending on, also when the owner had switched
  them off before Safe Mode;
* the outbound control is read once before a send: one switched off during the provider's
  retries does not stop them;
* an approved send of the manager's own task is refused (`unlinked` above), and nothing
  under `backend/app` calls `resume`; the next cycle asks the owner again;
* a success whose commit fails is recorded as a failed execution of the workflow;
* concurrent bookings lose increments of the day's row, and the figures of the month to
  date replace those of the day;
* `docs/pilot/INCIDENT_PLAYBOOK.md:33` calls the daily budget a hard stop; expenses booked
  at once pass it, by what `SpendOvershootBounded` says.

* the queries for delivery (`agents/manager/business_state.py:162`, 168) are cut before the
  rows that need nothing are left out, so a delivery may wait for ever behind served leads;
* a resumed `pause-all` leads out of Safe Mode without a clear (`owner/controls.py:200`).

Smaller departures from the code: a description or an industry is found once in `Scoring`,
where `scoring/facts.py:23-32` would take a verified row over an unverified one; the
extractors of today make no such second row. Entries dated after today, and requests of the
books that cross midnight, are left out.

To come are the steps the liveness properties rest on, as safety theorems: that a sweep
closes every due approval it read, and each task of a plan is chosen or blocked.
