------------------------------ MODULE AgentRuns ------------------------------
(***************************************************************************)
(* Runs of the research, audit and report agents (agents/research,         *)
(* agents/audit, agents/report).  All of them keep one row per idempotency *)
(* key in agent_runs, insert it before they work and commit it with what   *)
(* the work produced: companies, audits or a report.  The row is looked up *)
(* by key and agent, the key is unique among all agents.                   *)
(*                                                                         *)
(* A run is one transaction of one session.  What it flushed is seen by no *)
(* other session, but makes an insert under the same key, or of the same   *)
(* company, wait.                                                          *)
(***************************************************************************)
EXTENDS Naturals, FiniteSets, FiniteSetsExt

CONSTANTS
    Runners,     \* database sessions
    RunKeys,     \* idempotency keys
    Domains,     \* website domains of the companies the search may find
    RunsPerDay,  \* companies, and audits, a day (pilot configuration)
    RunLimit     \* companies, or audits, a run (settings, contract, request)

ASSUME AgentRunsAssumption ==
    /\ IsFiniteSet(Runners) /\ Runners # {} /\ IsFiniteSet(Domains)
    /\ {RunsPerDay, RunLimit} \subseteq Nat

VARIABLES
    runOf,      \* the committed row of each key: its agent and its status
    companies,  \* committed companies, all found today
    audits,     \* committed audits of today
    reports,    \* keys of committed reports
    runner,     \* what each session is doing
    \* history
    paid        \* of each key: runs that used paid services and were not rolled back

databaseRows  == <<runOf, companies, audits, reports>>
agentRunsVars == <<databaseRows, runner, paid>>

Unoccupied == [pc |-> "idle"]
NoRow == [agent |-> "none", status |-> "absent"]

RemainingUncounted(agent) == RunsPerDay

\* remaining_companies_capacity and remaining_audits_capacity: committed rows only.
Remaining(agent) ==
    LET used == IF agent = "research" THEN Cardinality(companies) ELSE audits
    IN  IF used >= RunsPerDay THEN 0 ELSE RunsPerDay - used

HasRow(r) == runner[r].pc \in {"begin", "work", "flush", "broken"}

\* Sessions whose flushed, uncommitted row makes an insert by r wait.
HoldersOfKey(r, key) == {q \in Runners \ {r} : HasRow(q) /\ runner[q].key = key}
HoldersOfDomain(r, d) ==
    {q \in Runners \ {r} : /\ HasRow(q) /\ runner[q].agent = "research"
                           /\ d \in runner[q].made}

----------------------------------------------------------------------------
AgentRunsInit ==
    /\ runOf = [k \in RunKeys |-> NoRow]
    /\ companies \in {c \in SUBSET Domains : Cardinality(c) <= RunsPerDay}
    /\ audits = 0
    /\ reports = {}
    /\ runner = [r \in Runners |-> Unoccupied]
    /\ paid = [k \in RunKeys |-> 0]

Goes(r, step) == runner' = [runner EXCEPT ![r] = step]

\* Research and audit first ask for the room the day leaves them.  (A run that is refused
\* -- AI operations off, no room, no company to audit, gate, period -- leaves no trace.)
ReadCapacity(r, agent, key) ==
    /\ runner[r] = Unoccupied
    /\ agent \in {"research", "audit"}
    /\ Remaining(agent) > 0
    /\ Goes(r, [pc |-> "lookup", agent |-> agent, key |-> key,
                cap |-> Min({RunLimit, Remaining(agent)})])
    /\ UNCHANGED <<databaseRows, paid>>

StartReport(r, key) ==
    /\ runner[r] = Unoccupied
    /\ Goes(r, [pc |-> "lookup", agent |-> "report", key |-> key, cap |-> 0])
    /\ UNCHANGED <<databaseRows, paid>>

\* An earlier run of this agent under this key, and for a report an earlier report, is
\* the answer already.
RunAnswered(r) ==
    \/ runOf[runner[r].key].agent = runner[r].agent
    \/ runner[r].agent = "report" /\ runner[r].key \in reports

LookUpRun(r) ==
    /\ runner[r].pc = "lookup"
    /\ Goes(r, IF RunAnswered(r) THEN Unoccupied ELSE [runner[r] EXCEPT !.pc = "insert"])
    /\ UNCHANGED <<databaseRows, paid>>

InsertRunUnkeyed(r) ==
    /\ runner[r].pc = "insert"
    /\ Goes(r, [pc |-> "begin", agent |-> runner[r].agent, key |-> runner[r].key,
                cap |-> runner[r].cap, left |-> {}, next |-> {}, made |-> {}, stored |-> 0])
    /\ UNCHANGED <<databaseRows, paid>>

\* The row is flushed once nobody holds its key; if the key was committed meanwhile, or
\* by another agent, the run fails.
InsertRun(r) ==
    /\ runner[r].pc = "insert"
    /\ HoldersOfKey(r, runner[r].key) = {}
    /\ Goes(r, IF runOf[runner[r].key] # NoRow THEN Unoccupied
               ELSE [pc |-> "begin", agent |-> runner[r].agent, key |-> runner[r].key,
                     cap |-> runner[r].cap, left |-> {}, next |-> {}, made |-> {}, stored |-> 0])
    /\ UNCHANGED <<databaseRows, paid>>

----------------------------------------------------------------------------
(* The work.                                                               *)

\* The search finds domains; an audit takes committed companies; a report only reads.
Found(r) ==
    CASE runner[r].agent = "research" -> SUBSET Domains
      [] runner[r].agent = "audit" -> {c \in SUBSET companies : c # {} /\
                                         Cardinality(c) <= runner[r].cap}
      [] runner[r].agent = "report" -> {{}}

Begin(r) ==
    /\ runner[r].pc = "begin"
    /\ \E found \in Found(r) :
        Goes(r, [runner[r] EXCEPT !.pc = "work", !.left = found])
    /\ paid' = [paid EXCEPT ![runner[r].key] = IF runner[r].agent = "report" THEN @ ELSE @ + 1]
    /\ UNCHANGED databaseRows

InRoom(r) == runner[r].stored < runner[r].cap

\* _persist_candidate: a company that is there already counts as a duplicate; a new one
\* is flushed next.
Persist(r, d) ==
    /\ runner[r].pc = "work" /\ runner[r].agent = "research"
    /\ d \in runner[r].left /\ InRoom(r)
    /\ Goes(r, IF d \in companies
               THEN [runner[r] EXCEPT !.left = @ \ {d}, !.stored = @ + 1]
               ELSE [runner[r] EXCEPT !.pc = "flush", !.left = @ \ {d}, !.next = {d}])
    /\ UNCHANGED <<databaseRows, paid>>

\* The flush waits for another session that holds the domain, and fails if that session
\* committed it.
FlushCompany(r) ==
    /\ runner[r].pc = "flush"
    /\ \A d \in runner[r].next : HoldersOfDomain(r, d) = {}
    /\ Goes(r, IF runner[r].next \subseteq companies
               THEN [runner[r] EXCEPT !.pc = "broken"]
               ELSE [runner[r] EXCEPT !.pc = "work", !.made = @ \cup runner[r].next,
                                      !.next = {}, !.stored = @ + 1])
    /\ UNCHANGED <<databaseRows, paid>>

\* _audit_company: page, search and enrichment may fail, the audit is stored all the same.
AuditCompany(r, d) ==
    /\ runner[r].pc = "work" /\ runner[r].agent = "audit"
    /\ d \in runner[r].left
    /\ Goes(r, [runner[r] EXCEPT !.left = @ \ {d}, !.made = @ \cup {d}])
    /\ UNCHANGED <<databaseRows, paid>>

\* Any other error of the database: a source stored by another run meanwhile, two runs
\* that wait for each other's companies, a lost connection.
DatabaseFails(r) ==
    /\ runner[r].pc \in {"work", "flush"}
    /\ Goes(r, [runner[r] EXCEPT !.pc = "broken"])
    /\ UNCHANGED <<databaseRows, paid>>

----------------------------------------------------------------------------
(* The end of a run.                                                       *)

CommitRun(r, status) ==
    /\ runOf' = [runOf EXCEPT ![runner[r].key] =
                    [agent |-> runner[r].agent, status |-> status]]
    /\ companies' = IF runner[r].agent = "research" THEN companies \cup runner[r].made
                                                    ELSE companies
    /\ audits' = IF runner[r].agent = "audit" THEN audits + Cardinality(runner[r].made)
                                              ELSE audits
    /\ Goes(r, Unoccupied)
    /\ UNCHANGED paid

FinishRun(r) ==
    /\ runner[r].pc = "work"
    /\ runner[r].left = {} \/ (runner[r].agent = "research" /\ ~InRoom(r))
    /\ CommitRun(r, "succeeded")
    /\ reports' = IF runner[r].agent = "report" THEN reports \cup {runner[r].key}
                                                ELSE reports

\* The search fails, or anything but the database: what was flushed is kept.
FailRun(r) ==
    /\ runner[r].pc = "work"
    /\ CommitRun(r, "failed")
    /\ UNCHANGED reports

\* What a session had begun goes with it.
Undone(r) ==
    paid' = [paid EXCEPT ![runner[r].key] =
                IF runner[r].pc \in {"work", "flush", "broken"} /\ runner[r].agent # "report"
                THEN @ - 1 ELSE @]

\* The session is rolled back; only research then tries to record the failure.
RollBack(r) ==
    /\ runner[r].pc = "broken"
    /\ Undone(r)
    /\ Goes(r, IF runner[r].agent = "research"
               THEN [pc |-> "mark", agent |-> "research", key |-> runner[r].key]
               ELSE Unoccupied)
    /\ UNCHANGED databaseRows

MarkAnyway(r) ==
    /\ runner[r].pc = "mark"
    /\ HoldersOfKey(r, runner[r].key) = {}
    /\ runOf' = [runOf EXCEPT ![runner[r].key] = [agent |-> "research", status |-> "failed"]]
    /\ Goes(r, Unoccupied)
    /\ UNCHANGED <<companies, audits, reports, paid>>

\* The row is inserted once more, as failed, unless the key went to another run.
Mark(r) ==
    /\ runner[r].pc = "mark"
    /\ HoldersOfKey(r, runner[r].key) = {}
    /\ runOf' = IF runOf[runner[r].key] = NoRow
                THEN [runOf EXCEPT ![runner[r].key] = [agent |-> "research", status |-> "failed"]]
                ELSE runOf
    /\ Goes(r, Unoccupied)
    /\ UNCHANGED <<companies, audits, reports, paid>>

\* The process dies, or the failure cannot be recorded.
RunLost(r) ==
    /\ runner[r] # Unoccupied
    /\ Undone(r)
    /\ Goes(r, Unoccupied)
    /\ UNCHANGED databaseRows

AgentRunsNext ==
    \E r \in Runners :
        \/ \E k \in RunKeys :
            \/ \E agent \in {"research", "audit"} : ReadCapacity(r, agent, k)
            \/ StartReport(r, k)
        \/ LookUpRun(r)
        \/ InsertRun(r)
        \/ Begin(r)
        \/ \E d \in Domains : Persist(r, d) \/ AuditCompany(r, d)
        \/ FlushCompany(r)
        \/ DatabaseFails(r)
        \/ FinishRun(r)
        \/ FailRun(r)
        \/ RollBack(r)
        \/ Mark(r)
        \/ RunLost(r)

AgentRunsSpec == AgentRunsInit /\ [][AgentRunsNext]_agentRunsVars

----------------------------------------------------------------------------
(* Properties.                                                             *)

RunAgents == {"research", "audit", "report"}

\* The rows the agents keep: a run per key, a company per domain, a report per key.
RunRows     == {NoRow} \cup [agent : RunAgents, status : {"succeeded", "failed"}]
CompanyRows == SUBSET Domains
ReportRows  == SUBSET RunKeys

\* Every variable of the agent runs holds a value of its type.
AgentRunsTypeOK ==
    /\ runOf \in [RunKeys -> RunRows]
    /\ companies \in CompanyRows
    /\ audits \in Nat
    /\ reports \in ReportRows
    /\ runner \in
        [Runners ->
            {Unoccupied}
            \cup [pc : {"lookup", "insert"}, agent : RunAgents, key : RunKeys, cap : 0..RunLimit]
            \cup [pc : {"mark"}, agent : {"research"}, key : RunKeys]
            \cup [pc : {"begin", "work", "flush", "broken"}, agent : RunAgents, key : RunKeys,
                  cap : 0..RunLimit, left : SUBSET Domains, next : SUBSET Domains,
                  made : SUBSET Domains, stored : 0..RunLimit]]
    /\ paid \in [RunKeys -> Nat]

\* Search, browser and AI are paid for at most once per key, unless the run that used
\* them was rolled back: requests that race for a key wait for its row and then find it.
PaidOncePerKey == \A k \in RunKeys : paid[k] <= 1

\* The room of the day is read when a run starts and used when it commits; runs that
\* overlap may pass the limit, by no more than one run's share each.
DayOvershootBounded ==
    LET most == RunsPerDay + (Cardinality(Runners) - 1) * RunLimit
    IN  Cardinality(companies) <= most /\ audits <= most

\* The outcome that was committed for a key is never replaced by a later one, also not
\* by the failure a rolled back run records when it is over.
OutcomeIsFinal ==
    [][\A k \in RunKeys : runOf[k] # NoRow => runOf'[k] = runOf[k]]_agentRunsVars
=============================================================================
