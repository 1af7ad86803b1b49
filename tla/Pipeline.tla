------------------------------- MODULE Pipeline -------------------------------
(***************************************************************************)
(* How the manager moves companies through the business: it inspects the   *)
(* state (agents/manager/business_state.py), plans a cycle from it         *)
(* (agents/manager/planner.py) and hands the tasks to the agents           *)
(* (orchestration/handlers.py): research, score, audit, draft, send,       *)
(* deliver.  A plan is made once, at the start of a run, and carried out   *)
(* on rows that other sessions change meanwhile.  The run and its tasks    *)
(* are ManagerRuns'; here a manager is the set of tasks it has left.       *)
(*                                                                         *)
(* A company has one lead here, and both have one name.  Tasks that only   *)
(* read the pipeline (responses, finance, report, learning) or belong to   *)
(* another module (follow-ups) are left out; no plan reaches the limit of  *)
(* MAX_PLAN_TASKS.                                                         *)
(***************************************************************************)
EXTENDS Naturals, SequencesExt

CONSTANTS
    Companies,  \* companies, and the lead of each
    Managers,   \* sessions that run manager cycles
    Contacts,   \* the leads other sessions mail, block or convert
    Target,     \* qualified leads the goals ask for
    MaxAudits,  \* MAX_AUDITS_IN_FULL_CYCLE
    MaxDrafts,  \* MAX_DRAFTS_PER_PLAN
    QueryLimit  \* rows that a query for delivery returns (50)

ASSUME PipelineAssumption ==
    /\ IsFiniteSet(Companies) /\ IsFiniteSet(Managers)
    /\ Contacts \subseteq Companies
    /\ {Target, MaxAudits, MaxDrafts, QueryLimit} \subseteq Nat

VARIABLES
    score,      \* of each company: unknown, unscored, low, or good once in its scores
    audited,    \* companies with an audit
    lead,       \* status of its lead row, "none" before it exists
    blocked,    \* leads that were blocked; opting out has the same effects here
    reply,      \* the status record_reply read, while it has not committed
    outreaches, \* of each lead: its outreach rows, oldest first
    customers,  \* leads with a customer row
    projects,   \* leads whose customer has a delivery project
    manager,    \* of each session: the tasks its plan has left
    send        \* of each session: the send task that waits for the owner

pipelineVars == <<score, audited, lead, blocked, reply, outreaches,
                  customers, projects, manager, send>>

\* The order in which a plan lists its tasks.
Stage == [research |-> 1, score |-> 2, scoring |-> 2, audit |-> 3,
          draft |-> 4, send |-> 5, deliver |-> 6]

\* A task of a plan; "at" is the outreach row a send task names.
Task(kind, leads, at) == [kind |-> kind, leads |-> leads, at |-> at]

NoSend == [lead |-> "none", at |-> 0, status |-> "none"]

----------------------------------------------------------------------------
\* inspect_business_state.

Known     == {l \in Companies : score[l] # "unknown"}
Unscored  == {l \in Companies : score[l] = "unscored"}
Qualified == {l \in Companies : score[l] = "good"}
UnauditedOrNot == Known

Unaudited == Known \ audited

DraftableAgain == {l \in Qualified \ blocked : lead[l] \in {"new", "contacted", "qualified"}}

Draftable ==
    {l \in Qualified \ blocked :
        lead[l] \in {"new", "contacted", "qualified"} /\ outreaches[l] = <<>>}

Drafts == {d \in Companies \X (1..Cardinality(Managers)) :
              d[2] \in DOMAIN outreaches[d[1]] /\ outreaches[d[1]][d[2]] = "draft"}

Convertible == {l \in Companies \ blocked : lead[l] \in {"qualified", "contacted"}}

\* converted_lead_ids: of the leads that their query returns those without a customer,
\* and after them, of the customers that theirs returns, those without a project.
FirstReady(leads, served) ==
    IF leads \ customers # {} THEN leads \ customers ELSE served \ projects

\* A prefix of n rows of a query that states no order.
Rows(S, n) == kSubset(IF Cardinality(S) < n THEN Cardinality(S) ELSE n, S)

----------------------------------------------------------------------------
PipelineInit ==
    /\ score = [l \in Companies |-> "unknown"]
    /\ audited = {}
    /\ lead = [l \in Companies |-> "none"]
    /\ blocked = {}
    /\ reply = [l \in Companies |-> "none"]
    /\ outreaches = [l \in Companies |-> <<>>]
    /\ customers = {}
    /\ projects = {}
    /\ manager = [m \in Managers |-> {}]
    /\ send = [m \in Managers |-> NoSend]

companyRows == <<score, audited>>
leadRows    == <<lead, blocked, reply>>
saleRows    == <<outreaches, customers, projects>>

When(condition, tasks) == IF condition THEN tasks ELSE {}

\* parse_cycle_goal and the cost cap it is planned under: a goal that names a cap, the
\* only kind that can reach one, asks for a full cycle.
Goals == {g \in [full : BOOLEAN, capped : BOOLEAN] : g.capped => g.full}

FullCycle == [full |-> TRUE, capped |-> FALSE]

\* The stages of create_plan up to the audit.
GrowTasks(full, toAudit) ==
    LET gap == Cardinality(Qualified) < Target IN
    When(gap \/ Known = {}, {Task("research", {}, 0)})
        \cup When(gap \/ Unscored # {}, {Task("score", {}, 0)})
        \cup When((full \/ Qualified \ audited # {}) /\ (gap \/ Unaudited # {}),
                  {Task("audit", toAudit, 0)})

\* The outbound stages of a full cycle whose cost cap is not reached.
SaleTasks(toDraft, toSend) ==
    {Task("draft", {l}, 0) : l \in toDraft} \cup {Task("send", {d[1]}, d[2]) : d \in toSend}

\* create_plan, from the state as inspect_business_state reads it.
Plan(m, goal) ==
    /\ manager[m] = {}
    /\ \E toAudit \in Rows(Unaudited, MaxAudits), toDraft \in Rows(Draftable, MaxDrafts),
          toSend \in Rows(Drafts, 1), leads \in Rows(Convertible, QueryLimit),
          served \in Rows(customers, QueryLimit) :
        \E toDeliver \in Rows(FirstReady(leads, served), 1) :
          manager' = [manager EXCEPT ![m] =
              GrowTasks(goal.full, toAudit)
              \cup When(goal.full /\ ~goal.capped, SaleTasks(toDraft, toSend))
              \cup When(goal.full, {Task("deliver", {l}, 0) : l \in toDeliver})]
    /\ send' = [send EXCEPT ![m] = NoSend]
    /\ UNCHANGED <<companyRows, leadRows, saleRows>>

\* The task a run takes next: _next_ready_task.
Takes(m, t) == t \in manager[m] /\ \A u \in manager[m] : Stage[t.kind] <= Stage[u.kind]

Becomes(m, t, rest) == manager' = [manager EXCEPT ![m] = (@ \ {t}) \cup rest]

Ends(m, t) == Becomes(m, t, {})

\* The task is given up: its retries are used, its gate denies it, or the process
\* died in it.  A retry changes nothing here.
TaskFails(m, t) ==
    /\ Takes(m, t)
    /\ Ends(m, t)
    /\ UNCHANGED <<companyRows, leadRows, saleRows, send>>

\* research_fn: some companies that were not known, or none.
Research(m, t) ==
    /\ Takes(m, t) /\ t.kind = "research"
    /\ \E new \in SUBSET (Companies \ Known) :
          score' = [l \in Companies |-> IF l \in new THEN "unscored" ELSE score[l]]
    /\ Ends(m, t)
    /\ UNCHANGED <<audited, leadRows, saleRows, send>>

\* scoring_fn reads the unscored companies anew, and scores each in a
\* transaction of its own; the error of one does not stop the next.
ScoreStart(m, t) ==
    /\ Takes(m, t) /\ t.kind = "score"
    /\ Becomes(m, t, When(Unscored # {}, {Task("scoring", Unscored, 0)}))
    /\ UNCHANGED <<companyRows, leadRows, saleRows, send>>

ScoreOne(m, t) ==
    /\ Takes(m, t) /\ t.kind = "scoring"
    /\ \E l \in t.leads :
          /\ \E band \in {"low", "good"} :
                score' = [score EXCEPT ![l] = IF @ = "good" THEN @ ELSE band]
          /\ Becomes(m, t, When(t.leads # {l}, {Task("scoring", t.leads \ {l}, 0)}))
    /\ UNCHANGED <<audited, leadRows, saleRows, send>>

\* audit_fn; without companies the agent audits the newest ones.
Audit(m, t) ==
    /\ Takes(m, t) /\ t.kind = "audit"
    /\ audited' = audited \cup t.leads
    /\ Ends(m, t)
    /\ UNCHANGED <<score, leadRows, saleRows, send>>

\* sales_draft_fn: the agent looks again at neither the lead's state nor its outreach.
Draft(m, t) ==
    /\ Takes(m, t) /\ t.kind = "draft"
    /\ outreaches' = [l \in Companies |->
          IF l \in t.leads THEN Append(outreaches[l], "draft") ELSE outreaches[l]]
    /\ Ends(m, t)
    /\ UNCHANGED <<companyRows, leadRows, customers, projects, send>>

\* The gate of send_outreach requires an approval of the manager's own task.
AskSend(m, t) ==
    /\ Takes(m, t) /\ t.kind = "send"
    /\ \E l \in t.leads : send' = [send EXCEPT ![m] = [lead |-> l, at |-> t.at, status |-> "asked"]]
    /\ Ends(m, t)
    /\ UNCHANGED <<companyRows, leadRows, saleRows>>

Answered(m, status) ==
    /\ send' = [send EXCEPT ![m].status = status]
    /\ UNCHANGED <<companyRows, manager>>

OwnerAnswers(m, answer) ==
    /\ send[m].status = "asked"
    /\ Answered(m, answer)
    /\ UNCHANGED <<leadRows, saleRows>>

\* The provider took the mail; the first one makes a new lead contacted.
Mailed(l, i) ==
    /\ outreaches' = [outreaches EXCEPT ![l][i] = "sent"]
    /\ lead' = [lead EXCEPT ![l] = IF @ = "new" THEN "contacted" ELSE @]
    /\ UNCHANGED <<blocked, reply, customers, projects>>

\* sales_send_fn on a resumed run: send_outreach goes by the approval the outreach
\* row names, which request_send_approval sets and the manager's approval does not.
ExecuteSend(m) ==
    LET l == send[m].lead  i == send[m].at IN
    /\ send[m].status = "granted"
    /\ manager[m] = {}
    /\ \/ /\ outreaches[l][i] = "draft"
          /\ Answered(m, "unlinked")
          /\ UNCHANGED <<leadRows, saleRows>>
       \/ /\ outreaches[l][i] = "pending"
          /\ Answered(m, "failed")
          /\ UNCHANGED <<leadRows, saleRows>>
       \/ /\ outreaches[l][i] = "pending"
          /\ Answered(m, "sent")
          /\ Mailed(l, i)
       \/ /\ outreaches[l][i] = "sent"
          /\ Answered(m, "sent")
          /\ UNCHANGED <<leadRows, saleRows>>

\* delivery_fn: customer and project are there afterwards.  A gate that denies the
\* project leaves the customer, for the failed run commits what it flushed.
Deliver(m, t, whole) ==
    /\ Takes(m, t) /\ t.kind = "deliver"
    /\ customers' = customers \cup t.leads
    /\ projects' = IF whole THEN projects \cup t.leads ELSE projects
    /\ lead' = [l \in Companies |-> IF l \in t.leads \ customers THEN "converted" ELSE lead[l]]
    /\ Ends(m, t)
    /\ UNCHANGED <<companyRows, blocked, reply, outreaches, send>>

----------------------------------------------------------------------------
(* Sessions other than the manager's: experiments, scripts, webhooks.      *)

others == <<companyRows, manager, send>>

AddLead(l) ==
    /\ l \in Known /\ lead[l] = "none"
    /\ lead' = [lead EXCEPT ![l] = "new"]
    /\ UNCHANGED <<others, blocked, reply, saleRows>>

RequestSendApproval(l, i) ==
    /\ outreaches[l][i] = "draft"
    /\ outreaches' = [outreaches EXCEPT ![l][i] = "pending"]
    /\ UNCHANGED <<others, leadRows, customers, projects>>

SendPending(l, i) ==
    /\ outreaches[l][i] = "pending"
    /\ Mailed(l, i)
    /\ UNCHANGED others

\* record_reply reads the lead, and commits the status if it changes it.
ReplyRead(l) ==
    /\ "sent" \in {outreaches[l][i] : i \in DOMAIN outreaches[l]} /\ reply[l] = "none"
    /\ reply' = [reply EXCEPT ![l] = lead[l]]
    /\ UNCHANGED <<others, lead, blocked, saleRows>>

ReplyCommit(l) ==
    /\ reply[l] # "none"
    /\ lead' = [lead EXCEPT ![l] = IF reply[l] \in {"qualified", "converted"} THEN @ ELSE "qualified"]
    /\ reply' = [reply EXCEPT ![l] = "none"]
    /\ UNCHANGED <<others, blocked, saleRows>>

\* record_opt_out, block_lead.
Block(l) ==
    /\ lead[l] # "none" /\ l \notin blocked
    /\ blocked' = blocked \cup {l}
    /\ UNCHANGED <<others, lead, reply, saleRows>>

MarkCustomer(l) ==
    /\ lead[l] \notin {"none", "converted"}
    /\ lead' = [lead EXCEPT ![l] = "converted"]
    /\ UNCHANGED <<others, blocked, reply, saleRows>>

Sale(l) ==
    \/ \E i \in DOMAIN outreaches[l] : RequestSendApproval(l, i) \/ SendPending(l, i)
    \/ ReplyRead(l) \/ ReplyCommit(l)
    \/ Block(l) \/ MarkCustomer(l)

Succeeds(m) ==
    \E t \in manager[m] :
        \/ Research(m, t) \/ ScoreStart(m, t) \/ ScoreOne(m, t) \/ Audit(m, t)
        \/ Draft(m, t) \/ AskSend(m, t) \/ Deliver(m, t, TRUE)

PipelineNext ==
    \/ \E m \in Managers :
          \/ \E goal \in Goals : Plan(m, goal)
          \/ Succeeds(m)
          \/ \E t \in manager[m] : TaskFails(m, t) \/ Deliver(m, t, FALSE)
          \/ \E answer \in {"granted", "refused"} : OwnerAnswers(m, answer)
          \/ ExecuteSend(m)
    \/ \E l \in Companies : AddLead(l)
    \/ \E l \in Contacts : Sale(l)

(* Full cycles are asked for again and again by the schedule, a run goes on  *)
(* with its tasks, and no kind of task fails every time.                     *)
PipelineFairness ==
    \A m \in Managers :
        /\ SF_pipelineVars(Plan(m, FullCycle))
        /\ WF_pipelineVars(Succeeds(m) \/ \E t \in manager[m] : TaskFails(m, t))
        /\ SF_pipelineVars(\E t \in manager[m] : ScoreStart(m, t))
        /\ SF_pipelineVars(\E t \in manager[m] : ScoreOne(m, t))
        /\ SF_pipelineVars(\E t \in manager[m] : Audit(m, t))
        /\ SF_pipelineVars(\E t \in manager[m] : Draft(m, t))

PipelineSpec == PipelineInit /\ [][PipelineNext]_pipelineVars /\ PipelineFairness

----------------------------------------------------------------------------
TaskType == [kind : DOMAIN Stage, leads : SUBSET Companies, at : Nat]

\* The rows of a company, a lead and an outreach, by what the plan tells apart.
ScoreStates      == {"unknown", "unscored", "low", "good"}
AuditRows        == SUBSET Known
LeadStatuses     == {"none", "new", "contacted", "qualified", "converted"}
OutreachStatuses == {"draft", "pending", "sent"}

\* Type invariant.
PipelineTypeOK ==
    /\ score \in [Companies -> ScoreStates]
    /\ lead \in [Companies -> LeadStatuses]
    /\ audited \in AuditRows /\ blocked \subseteq Companies
    /\ \A l \in Companies : reply[l] \in LeadStatuses
    /\ \A l \in Companies : outreaches[l] \in Seq(OutreachStatuses)
    /\ projects \subseteq customers /\ customers \subseteq Companies
    /\ \A m \in Managers : manager[m] \subseteq TaskType
    /\ \A m \in Managers : send[m] = NoSend \/
          (send[m].lead \in Companies /\ send[m].at \in DOMAIN outreaches[send[m].lead])

\* A lead is never drafted anew once it has an outreach: plans made before the first
\* draft are the only ones that can add another, one for each session that plans
\* (draftable_leads in business_state.py, acted on later by SalesAgent.run).
DraftsBounded == \A l \in Companies : Len(outreaches[l]) <= Cardinality(Managers)

\* Every company that becomes known is scored and audited, and every qualified lead gets
\* a draft unless it leaves the funnel (the stages of create_plan, cut to a few rows of
\* unordered queries each).  Delivery is not promised: its queries are cut before the
\* rows that need nothing are left out, and may return the same ones for ever.
LeadsMoveOn ==
    \A l \in Companies :
        /\ score[l] # "unknown" ~> score[l] # "unscored" /\ l \in audited
        /\ l \in Draftable ~> l \notin Draftable
=============================================================================
