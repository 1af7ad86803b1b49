---------------------------- MODULE BusinessProofs ----------------------------
(***************************************************************************)
(* Proofs about the books, the funnel and the score of a lead, and about   *)
(* the parts of the business together.                                     *)
(***************************************************************************)
EXTENDS Business, MessagesProofs, AgentsProofs, SequenceTheorems

----------------------------------------------------------------------------
(* The funnel.  A draft task is planned only for a lead without outreach,  *)
(* and a manager plans nothing while it has tasks left: so the outreach of *)
(* a lead and the draft tasks for it are together no more than the         *)
(* managers.                                                               *)

Sends ==
    {NoSend} \cup [lead : Companies, at : Nat,
                   status : {"asked", "granted", "refused", "unlinked", "failed", "sent"}]

\* A send names a row there is.
SendsExist ==
    \A m \in Managers : send[m] # NoSend => send[m].at \in DOMAIN outreaches[send[m].lead]

PipelineTypes ==
    /\ score \in [Companies -> ScoreStates]
    /\ lead \in [Companies -> LeadStatuses]
    /\ audited \subseteq Known /\ blocked \subseteq Companies
    /\ reply \in [Companies -> LeadStatuses]
    /\ outreaches \in [Companies -> Seq(OutreachStatuses)]
    /\ projects \subseteq customers /\ customers \subseteq Companies
    /\ manager \in [Managers -> SUBSET TaskType]
    /\ send \in [Managers -> Sends]
    /\ SendsExist

\* What a plan says of the state it was made from, and is still so.
Fits(t) ==
    /\ t.kind = "draft" => \E l \in Companies : t = Task("draft", {l}, 0)
    /\ t.kind = "audit" => t.leads \subseteq Known
    /\ t.kind = "send" => \A l \in t.leads : t.at \in DOMAIN outreaches[l]

PlansFit == \A m \in Managers : \A t \in manager[m] : Fits(t)

\* Managers that will draft for the lead.
Planned(l) == {m \in Managers : Task("draft", {l}, 0) \in manager[m]}

DraftsCounted ==
    \A l \in Companies :
        Len(outreaches[l]) + Cardinality(Planned(l)) <= Cardinality(Managers)

PipelineInv ==
    /\ PipelineTypes
    /\ PlansFit
    /\ DraftsCounted

LEMMA PlannedFinite ==
    /\ Cardinality(Managers) \in Nat
    /\ \A l : /\ IsFiniteSet(Planned(l)) /\ Cardinality(Planned(l)) \in Nat
              /\ Cardinality(Planned(l)) <= Cardinality(Managers)
<1>1. \A l : Planned(l) \subseteq Managers
  BY DEF Planned
<1>. QED
  BY <1>1, PipelineAssumption, FS_Subset, FS_CardinalityType

LEMMA OutreachLengths ==
    ASSUME PipelineTypes, NEW l \in Companies
    PROVE  /\ outreaches[l] \in Seq(OutreachStatuses)
           /\ Len(outreaches[l]) \in Nat
           /\ DOMAIN outreaches[l] = 1..Len(outreaches[l])
<1>1. outreaches[l] \in Seq(OutreachStatuses)
  BY DEF PipelineTypes
<1>. QED
  BY <1>1, LenProperties

\* Rows change and tasks end: no task is planned but the rest of a scoring.
LEMMA PipelineQuiet ==
    ASSUME PipelineInv, PipelineTypes', Known \subseteq Known',
           \A l \in Companies : Len(outreaches'[l]) = Len(outreaches[l]),
           \A m \in Managers : \A t \in manager'[m] : t \in manager[m] \/ t.kind = "scoring"
    PROVE  PipelineInv'
<1>. USE DEF PipelineInv
<1>1. \A l \in Companies : DOMAIN outreaches'[l] = DOMAIN outreaches[l]
  <2>. TAKE l \in Companies
  <2>1. DOMAIN outreaches[l] = 1..Len(outreaches[l])
    BY OutreachLengths
  <2>2. DOMAIN outreaches'[l] = 1..Len(outreaches'[l])
    <3>1. outreaches'[l] \in Seq(OutreachStatuses)
      BY DEF PipelineTypes
    <3>. QED
      BY <3>1, LenProperties
  <2>. QED
    BY <2>1, <2>2
<1>2. PlansFit'
  <2>. SUFFICES ASSUME NEW m \in Managers, NEW t \in manager'[m] PROVE Fits(t)'
    BY DEF PlansFit
  <2>1. CASE t.kind = "scoring"
    BY <2>1 DEF Fits
  <2>2. CASE t \in manager[m]
    <3>1. Fits(t) /\ t.leads \subseteq Companies
      BY <2>2 DEF PlansFit, PipelineTypes, TaskType
    <3>. QED
      BY <1>1, <3>1 DEF Fits
  <2>. QED
    BY <2>1, <2>2
<1>3. DraftsCounted'
  <2>. SUFFICES ASSUME NEW l \in Companies
                PROVE  Len(outreaches'[l]) + Cardinality(Planned(l)') <= Cardinality(Managers)
    BY DEF DraftsCounted
  <2>1. Planned(l)' \subseteq Planned(l)
    BY DEF Planned, Task
  <2>2. Cardinality(Planned(l)') <= Cardinality(Planned(l)) /\ Cardinality(Planned(l)') \in Nat
    BY <2>1, PlannedFinite, FS_Subset, FS_CardinalityType
  <2>3. Len(outreaches[l]) + Cardinality(Planned(l)) <= Cardinality(Managers)
    BY DEF DraftsCounted
  <2>. QED
    BY <2>2, <2>3, OutreachLengths, PlannedFinite
<1>. QED
  BY <1>2, <1>3

LEMMA BecomesTasks ==
    ASSUME PipelineTypes, NEW m \in Managers, NEW t, NEW rest \in SUBSET TaskType,
           Becomes(m, t, rest)
    PROVE  /\ manager' \in [Managers -> SUBSET TaskType]
           /\ manager'[m] = (manager[m] \ {t}) \cup rest
           /\ \A r \in Managers \ {m} : manager'[r] = manager[r]
BY DEF Becomes, PipelineTypes

LEMMA ScoringIsTask ==
    ASSUME NEW leads \in SUBSET Companies, NEW condition \in BOOLEAN
    PROVE  /\ When(condition, {Task("scoring", leads, 0)}) \in SUBSET TaskType
           /\ \A t \in When(condition, {Task("scoring", leads, 0)}) : t.kind = "scoring"
BY DEF When, Task, TaskType, Stage

\* The tasks that write neither outreach nor a plan, and failures.
LEMMA TaskInv ==
    ASSUME PipelineInv, NEW m \in Managers, NEW t \in manager[m],
           \/ TaskFails(m, t) \/ Research(m, t) \/ ScoreStart(m, t) \/ ScoreOne(m, t)
           \/ Audit(m, t) \/ AskSend(m, t) \/ Deliver(m, t, TRUE) \/ Deliver(m, t, FALSE)
    PROVE  PipelineInv'
<1>. USE DEF companyRows, leadRows, saleRows
<1>0. /\ PipelineTypes /\ Fits(t) /\ t \in TaskType
      /\ t.leads \subseteq Companies /\ t.at \in Nat
  BY DEF PipelineInv, PlansFit, PipelineTypes, TaskType
<1>1. UNCHANGED outreaches
  BY DEF TaskFails, Research, ScoreStart, ScoreOne, Audit, AskSend, Deliver
<1>2. PICK rest \in SUBSET TaskType : /\ Becomes(m, t, rest)
                                      /\ \A u \in rest : u.kind = "scoring"
  <2>1. CASE ScoreStart(m, t)
    <3>1. Unscored \in SUBSET Companies /\ (Unscored # {}) \in BOOLEAN
      BY DEF Unscored
    <3>. QED
      BY <2>1, <3>1, ScoringIsTask DEF ScoreStart
  <2>2. CASE ScoreOne(m, t)
    <3>1. PICK l \in t.leads : Becomes(m, t, When(t.leads # {l}, {Task("scoring", t.leads \ {l}, 0)}))
      BY <2>2 DEF ScoreOne
    <3>2. t.leads \ {l} \in SUBSET Companies /\ (t.leads # {l}) \in BOOLEAN
      BY <1>0
    <3>. QED
      BY <3>1, <3>2, ScoringIsTask
  <2>3. CASE \/ TaskFails(m, t) \/ Research(m, t) \/ Audit(m, t) \/ AskSend(m, t)
             \/ Deliver(m, t, TRUE) \/ Deliver(m, t, FALSE)
    <3>1. Becomes(m, t, {})
      BY <2>3 DEF TaskFails, Research, Audit, AskSend, Deliver, Ends
    <3>2. {} \in SUBSET TaskType /\ \A u \in {} : u.kind = "scoring"
      OBVIOUS
    <3>. QED
      BY <3>1, <3>2
  <2>. QED
    BY <2>1, <2>2, <2>3
<1>3. /\ manager' \in [Managers -> SUBSET TaskType]
      /\ \A r \in Managers : \A u \in manager'[r] : u \in manager[r] \/ u.kind = "scoring"
  <2>1. /\ manager' \in [Managers -> SUBSET TaskType]
        /\ manager'[m] = (manager[m] \ {t}) \cup rest
        /\ \A r \in Managers \ {m} : manager'[r] = manager[r]
    BY <1>0, <1>2, BecomesTasks
  <2>. QED
    BY <1>2, <2>1
<1>4. score' \in [Companies -> ScoreStates] /\ Known \subseteq Known'
  <2>1. CASE Research(m, t)
    BY <1>0, <2>1 DEF Research, PipelineTypes, ScoreStates, Known
  <2>2. CASE ScoreOne(m, t)
    <3>1. PICK l \in t.leads, band \in {"low", "good"} :
              score' = [score EXCEPT ![l] = IF @ = "good" THEN @ ELSE band]
      BY <2>2 DEF ScoreOne
    <3>. QED
      BY <1>0, <3>1 DEF PipelineTypes, ScoreStates, Known
  <2>3. CASE UNCHANGED score
    BY <1>0, <2>3 DEF PipelineTypes, Known
  <2>. QED
    BY <2>1, <2>2, <2>3 DEF TaskFails, ScoreStart, Audit, AskSend, Deliver
<1>5. audited' \subseteq Known'
  <2>1. CASE Audit(m, t)
    <3>1. t.leads \subseteq Known
      BY <1>0, <2>1 DEF Audit, Fits
    <3>. QED
      BY <1>0, <1>4, <2>1, <3>1 DEF Audit, PipelineTypes
  <2>2. CASE UNCHANGED audited
    BY <1>0, <1>4, <2>2 DEF PipelineTypes
  <2>. QED
    BY <2>1, <2>2 DEF TaskFails, Research, ScoreStart, ScoreOne, AskSend, Deliver
<1>6. send' \in [Managers -> Sends] /\ SendsExist'
  <2>1. CASE AskSend(m, t)
    <3>1. PICK l \in t.leads :
              send' = [send EXCEPT ![m] = [lead |-> l, at |-> t.at, status |-> "asked"]]
      BY <2>1 DEF AskSend
    <3>2. [lead |-> l, at |-> t.at, status |-> "asked"] \in Sends
      BY <1>0 DEF Sends
    <3>3. t.at \in DOMAIN outreaches[l]
      BY <1>0, <2>1 DEF AskSend, Fits
    <3>. QED
      BY <1>0, <1>1, <3>1, <3>2, <3>3 DEF PipelineTypes, SendsExist
  <2>2. CASE UNCHANGED send
    BY <1>0, <1>1, <2>2 DEF PipelineTypes, SendsExist
  <2>. QED
    BY <2>1, <2>2 DEF TaskFails, Research, ScoreStart, ScoreOne, Audit, Deliver
<1>7. /\ lead' \in [Companies -> LeadStatuses]
      /\ projects' \subseteq customers' /\ customers' \subseteq Companies
      /\ UNCHANGED <<blocked, reply>>
  <2>1. CASE Deliver(m, t, TRUE) \/ Deliver(m, t, FALSE)
    BY <1>0, <2>1 DEF Deliver, PipelineTypes, LeadStatuses
  <2>2. CASE UNCHANGED <<leadRows, customers, projects>>
    BY <1>0, <2>2 DEF PipelineTypes
  <2>. QED
    BY <2>1, <2>2 DEF TaskFails, Research, ScoreStart, ScoreOne, Audit, AskSend
<1>8. PipelineTypes'
  BY <1>0, <1>1, <1>3, <1>4, <1>5, <1>6, <1>7 DEF PipelineTypes
<1>. QED
  BY <1>1, <1>3, <1>4, <1>8, PipelineQuiet

LEMMA DraftInv ==
    ASSUME PipelineInv, NEW m \in Managers, NEW t \in manager[m], Draft(m, t)
    PROVE  PipelineInv'
<1>. USE DEF companyRows, leadRows, saleRows
<1>0. PipelineTypes /\ t.kind = "draft"
  BY DEF PipelineInv, Draft
<1>1. PICK l \in Companies : t = Task("draft", {l}, 0)
  BY <1>0 DEF PipelineInv, PlansFit, Fits
<1>2. /\ manager' \in [Managers -> SUBSET TaskType]
      /\ manager'[m] = manager[m] \ {t}
      /\ \A r \in Managers \ {m} : manager'[r] = manager[r]
  <2>1. {} \in SUBSET TaskType /\ Becomes(m, t, {})
    BY DEF Draft, Ends
  <2>. QED
    BY <1>0, <2>1, BecomesTasks
<1>3. /\ outreaches'[l] = Append(outreaches[l], "draft")
      /\ \A k \in Companies \ {l} : outreaches'[k] = outreaches[k]
      /\ outreaches' = [j \in Companies |-> outreaches'[j]]
      /\ UNCHANGED <<score, audited, lead, blocked, reply, customers, projects, send>>
  BY <1>1 DEF Draft, Task
<1>4. /\ outreaches'[l] \in Seq(OutreachStatuses)
      /\ Len(outreaches'[l]) = Len(outreaches[l]) + 1
      /\ DOMAIN outreaches[l] \subseteq DOMAIN outreaches'[l]
  <2>1. outreaches[l] \in Seq(OutreachStatuses) /\ "draft" \in OutreachStatuses
    BY <1>0, OutreachLengths DEF OutreachStatuses
  <2>2. /\ Append(outreaches[l], "draft") \in Seq(OutreachStatuses)
        /\ Len(Append(outreaches[l], "draft")) = Len(outreaches[l]) + 1
    BY <2>1, AppendProperties
  <2>3. /\ DOMAIN outreaches[l] = 1..Len(outreaches[l]) /\ Len(outreaches[l]) \in Nat
        /\ DOMAIN outreaches'[l] = 1..Len(outreaches'[l])
    BY <1>3, <2>1, <2>2, LenProperties
  <2>. QED
    BY <1>3, <2>2, <2>3
<1>5. outreaches' \in [Companies -> Seq(OutreachStatuses)]
  <2>1. \A k \in Companies : outreaches'[k] \in Seq(OutreachStatuses)
    BY <1>0, <1>3, <1>4 DEF PipelineTypes
  <2>. QED
    BY <1>3, <2>1
<1>6. \A k \in Companies : DOMAIN outreaches[k] \subseteq DOMAIN outreaches'[k]
  BY <1>3, <1>4
<1>7. PipelineTypes'
  <2>1. Known' = Known
    BY <1>3 DEF Known
  <2>2. SendsExist'
    <3>1. \A r \in Managers : send[r] # NoSend => send[r].lead \in Companies
      BY <1>0 DEF PipelineTypes, Sends
    <3>. QED
      BY <1>0, <1>3, <1>6, <3>1 DEF PipelineTypes, SendsExist
  <2>. QED
    BY <1>0, <1>2, <1>3, <1>5, <2>1, <2>2 DEF PipelineTypes
<1>8. PlansFit'
  <2>. SUFFICES ASSUME NEW r \in Managers, NEW u \in manager'[r] PROVE Fits(u)'
    BY DEF PlansFit
  <2>1. u \in manager[r]
    BY <1>2
  <2>2. Fits(u) /\ u.leads \subseteq Companies
    BY <1>0, <2>1 DEF PipelineInv, PlansFit, PipelineTypes, TaskType
  <2>3. Known' = Known
    BY <1>3 DEF Known
  <2>. QED
    BY <1>6, <2>2, <2>3 DEF Fits
<1>9. DraftsCounted'
  <2>. SUFFICES ASSUME NEW k \in Companies
                PROVE  Len(outreaches'[k]) + Cardinality(Planned(k)') <= Cardinality(Managers)
    BY DEF DraftsCounted
  <2>1. Len(outreaches[k]) + Cardinality(Planned(k)) <= Cardinality(Managers)
    BY DEF PipelineInv, DraftsCounted
  <2>2. CASE k = l
    <3>1. m \in Planned(l)
      BY <1>1 DEF Planned
    <3>2. Planned(l)' \subseteq Planned(l) \ {m}
      BY <1>1, <1>2 DEF Planned
    <3>3. /\ IsFiniteSet(Planned(l) \ {m})
          /\ Cardinality(Planned(l) \ {m}) = Cardinality(Planned(l)) - 1
      BY <3>1, PlannedFinite, FS_RemoveElement
    <3>4. /\ Cardinality(Planned(l)') <= Cardinality(Planned(l) \ {m})
          /\ Cardinality(Planned(l)') \in Nat
      BY <3>2, <3>3, FS_Subset, FS_CardinalityType
    <3>. QED
      BY <1>0, <1>4, <2>1, <2>2, <3>3, <3>4, OutreachLengths, PlannedFinite
  <2>3. CASE k # l
    <3>1. Planned(k)' \subseteq Planned(k)
      BY <1>2 DEF Planned
    <3>2. Cardinality(Planned(k)') <= Cardinality(Planned(k)) /\ Cardinality(Planned(k)') \in Nat
      BY <3>1, PlannedFinite, FS_Subset, FS_CardinalityType
    <3>. QED
      BY <1>0, <1>3, <2>1, <2>3, <3>2, OutreachLengths, PlannedFinite
  <2>. QED
    BY <2>2, <2>3
<1>. QED
  BY <1>7, <1>8, <1>9 DEF PipelineInv

\* A plan fits the state it is made from, and drafts only where there is no outreach.
LEMMA PlanInv ==
    ASSUME PipelineInv, NEW m \in Managers, NEW goal \in Goals, Plan(m, goal)
    PROVE  PipelineInv'
<1>. USE DEF companyRows, leadRows, saleRows
<1>0. PipelineTypes
  BY DEF PipelineInv
<1>. DEFINE Planning(toAudit, toDraft, toSend, toDeliver) ==
            GrowTasks(goal.full, toAudit)
            \cup When(goal.full /\ ~goal.capped, SaleTasks(toDraft, toSend))
            \cup When(goal.full, {Task("deliver", {l}, 0) : l \in toDeliver})
<1>a. PICK toAudit \in Rows(Unaudited, MaxAudits), toDraft \in Rows(Draftable, MaxDrafts),
           toSend \in Rows(Drafts, 1), leads \in Rows(Convertible, QueryLimit),
           served \in Rows(customers, QueryLimit) :
         \E toDeliver \in Rows(FirstReady(leads, served), 1) :
            manager' = [manager EXCEPT ![m] = Planning(toAudit, toDraft, toSend, toDeliver)]
  BY DEF Plan
<1>1. PICK toDeliver \in Rows(FirstReady(leads, served), 1) :
         manager' = [manager EXCEPT ![m] = Planning(toAudit, toDraft, toSend, toDeliver)]
  BY <1>a
<1>2. UNCHANGED <<score, audited, lead, blocked, reply, outreaches, customers, projects>>
      /\ send' = [send EXCEPT ![m] = NoSend]
  BY DEF Plan
<1>3. /\ toAudit \subseteq Known /\ toDraft \subseteq Draftable
      /\ toSend \subseteq Drafts /\ toDeliver \subseteq leads \cup served
      /\ leads \subseteq Companies /\ served \subseteq Companies
  BY <1>0 DEF Rows, kSubset, Unaudited, FirstReady, Convertible, PipelineTypes
<1>4. /\ Known \subseteq Companies /\ Draftable \subseteq Companies
      /\ toDeliver \subseteq Companies
      /\ \A d \in Drafts : /\ d[1] \in Companies /\ d[2] \in Nat
                           /\ d[2] \in DOMAIN outreaches[d[1]]
  BY <1>0, <1>3, PlannedFinite DEF Known, Draftable, Qualified, Drafts, PipelineTypes
<1>5. \A t \in manager'[m] :
          \/ t = Task("research", {}, 0)
          \/ t = Task("score", {}, 0)
          \/ t = Task("audit", toAudit, 0)
          \/ \E l \in toDraft : t = Task("draft", {l}, 0)
          \/ \E d \in toSend : t = Task("send", {d[1]}, d[2])
          \/ \E l \in toDeliver : t = Task("deliver", {l}, 0)
  BY <1>0, <1>1 DEF GrowTasks, When, SaleTasks, PipelineTypes
<1>6. ASSUME NEW t \in manager'[m] PROVE t \in TaskType /\ Fits(t)
  <2>1. CASE t = Task("research", {}, 0) \/ t = Task("score", {}, 0)
    BY <2>1 DEF Task, TaskType, Stage, Fits
  <2>2. CASE t = Task("audit", toAudit, 0)
    BY <1>3, <1>4, <2>2 DEF Task, TaskType, Stage, Fits
  <2>3. CASE \E l \in toDraft : t = Task("draft", {l}, 0)
    <3>1. PICK l \in Companies : t = Task("draft", {l}, 0)
      BY <1>3, <1>4, <2>3
    <3>2. t \in TaskType /\ t.kind = "draft"
      BY <3>1 DEF Task, TaskType, Stage
    <3>. QED
      BY <3>1, <3>2 DEF Fits
  <2>4. CASE \E d \in toSend : t = Task("send", {d[1]}, d[2])
    <3>1. PICK d \in toSend : t = Task("send", {d[1]}, d[2])
      BY <2>4
    <3>2. d[1] \in Companies /\ d[2] \in Nat /\ d[2] \in DOMAIN outreaches[d[1]]
      BY <1>3, <1>4
    <3>. QED
      BY <3>1, <3>2 DEF Task, TaskType, Stage, Fits
  <2>5. CASE \E l \in toDeliver : t = Task("deliver", {l}, 0)
    BY <1>3, <1>4, <2>5 DEF Task, TaskType, Stage, Fits
  <2>. QED
    BY <1>5, <2>1, <2>2, <2>3, <2>4, <2>5
<1>7. \A r \in Managers \ {m} : manager'[r] = manager[r]
  BY <1>0, <1>1 DEF PipelineTypes
<1>8. PipelineTypes'
  <2>1. manager' \in [Managers -> SUBSET TaskType]
    <3>1. \A r \in Managers : manager'[r] \in SUBSET TaskType
      BY <1>0, <1>6, <1>7 DEF PipelineTypes
    <3>2. manager' = [r \in Managers |-> manager'[r]]
      BY <1>0, <1>1 DEF PipelineTypes
    <3>. QED
      BY <3>1, <3>2
  <2>2. send' \in [Managers -> Sends] /\ SendsExist'
    BY <1>0, <1>2 DEF PipelineTypes, Sends, SendsExist
  <2>3. Known' = Known
    BY <1>2 DEF Known
  <2>. QED
    BY <1>0, <1>2, <2>1, <2>2, <2>3 DEF PipelineTypes
<1>9. PlansFit'
  <2>1. \A t : Fits(t) => Fits(t)'
    BY <1>2 DEF Fits, Known
  <2>. QED
    BY <1>6, <1>7, <2>1 DEF PipelineInv, PlansFit
<1>10. DraftsCounted'
  <2>. SUFFICES ASSUME NEW l \in Companies
                PROVE  Len(outreaches'[l]) + Cardinality(Planned(l)') <= Cardinality(Managers)
    BY DEF DraftsCounted
  <2>0. /\ Cardinality(Planned(l)') \in Nat
        /\ Cardinality(Planned(l)') <= Cardinality(Managers)
    <3>1. Planned(l)' \subseteq Managers
      BY DEF Planned
    <3>. QED
      BY <3>1, PipelineAssumption, FS_Subset, FS_CardinalityType
  <2>1. CASE l \in toDraft
    <3>1. outreaches'[l] = <<>>
      BY <1>2, <1>3, <2>1 DEF Draftable
    <3>2. Len(outreaches'[l]) = 0
      BY <3>1
    <3>. QED
      BY <2>0, <3>2, PlannedFinite
  <2>2. CASE l \notin toDraft
    <3>1. Task("draft", {l}, 0) \notin manager'[m]
      BY <1>5, <2>2 DEF Task
    <3>2. Planned(l)' \subseteq Planned(l)
      BY <1>7, <3>1 DEF Planned
    <3>3. Cardinality(Planned(l)') <= Cardinality(Planned(l))
      BY <3>2, PlannedFinite, FS_Subset
    <3>4. Len(outreaches[l]) + Cardinality(Planned(l)) <= Cardinality(Managers)
      BY DEF PipelineInv, DraftsCounted
    <3>. QED
      BY <1>0, <1>2, <2>0, <3>3, <3>4, OutreachLengths, PlannedFinite
  <2>. QED
    BY <2>1, <2>2
<1>. QED
  BY <1>8, <1>9, <1>10 DEF PipelineInv

\* The status of one outreach row changes.
LEMMA RowKept ==
    ASSUME PipelineTypes, NEW l \in Companies, NEW i \in DOMAIN outreaches[l],
           NEW status \in OutreachStatuses, outreaches' = [outreaches EXCEPT ![l][i] = status]
    PROVE  /\ outreaches' \in [Companies -> Seq(OutreachStatuses)]
           /\ \A k \in Companies : /\ Len(outreaches'[k]) = Len(outreaches[k])
                                   /\ DOMAIN outreaches'[k] = DOMAIN outreaches[k]
<1>1. /\ outreaches[l] \in Seq(OutreachStatuses)
      /\ DOMAIN outreaches[l] = 1..Len(outreaches[l])
  BY OutreachLengths
<1>2. /\ [outreaches[l] EXCEPT ![i] = status] \in Seq(OutreachStatuses)
      /\ Len([outreaches[l] EXCEPT ![i] = status]) = Len(outreaches[l])
  BY <1>1, ExceptSeq
<1>3. PICK row : row = [outreaches[l] EXCEPT ![i] = status]
  OBVIOUS
<1>4. outreaches' = [outreaches EXCEPT ![l] = row]
  BY <1>3
<1>5. /\ row \in Seq(OutreachStatuses) /\ Len(row) = Len(outreaches[l])
      /\ DOMAIN row = DOMAIN outreaches[l]
  BY <1>2, <1>3
<1>6. outreaches \in [Companies -> Seq(OutreachStatuses)]
  BY DEF PipelineTypes
<1>. QED
  BY <1>4, <1>5, <1>6

\* The owner answers, sends go out, and other sessions work on the leads.
LEMMA RowsInv ==
    ASSUME PipelineInv, UNCHANGED manager,
           score' = score /\ audited' = audited,
           lead' \in [Companies -> LeadStatuses], blocked' \subseteq Companies,
           reply' \in [Companies -> LeadStatuses],
           outreaches' \in [Companies -> Seq(OutreachStatuses)],
           \A k \in Companies : /\ Len(outreaches'[k]) = Len(outreaches[k])
                                /\ DOMAIN outreaches'[k] = DOMAIN outreaches[k],
           UNCHANGED <<customers, projects>>,
           send' \in [Managers -> Sends],
           \A m \in Managers : send'[m] # NoSend =>
               send[m] # NoSend /\ send'[m].at = send[m].at /\ send'[m].lead = send[m].lead
    PROVE  PipelineInv'
<1>1. PipelineTypes
  BY DEF PipelineInv
<1>2. Known' = Known
  BY DEF Known
<1>3. SendsExist'
  <2>1. \A m \in Managers : send[m] # NoSend => send[m].lead \in Companies
    BY <1>1 DEF PipelineTypes, Sends
  <2>. QED
    BY <1>1, <2>1 DEF PipelineTypes, SendsExist
<1>4. PipelineTypes'
  BY <1>1, <1>2, <1>3 DEF PipelineTypes
<1>5. \A m \in Managers : \A t \in manager'[m] : t \in manager[m] \/ t.kind = "scoring"
  OBVIOUS
<1>. QED
  BY <1>2, <1>4, <1>5, PipelineQuiet

LEMMA AnsweredSends ==
    ASSUME PipelineTypes, NEW m \in Managers, send[m].status \in {"asked", "granted"},
           NEW status \in {"granted", "refused", "unlinked", "failed", "sent"}, Answered(m, status)
    PROVE  /\ send' \in [Managers -> Sends]
           /\ \A r \in Managers : send'[r] # NoSend =>
                send[r] # NoSend /\ send'[r].at = send[r].at /\ send'[r].lead = send[r].lead
<1>1. send[m] \in Sends /\ send[m] # NoSend
  BY DEF PipelineTypes, NoSend
<1>2. /\ [send[m] EXCEPT !.status = status] \in Sends
      /\ [send[m] EXCEPT !.status = status].at = send[m].at
      /\ [send[m] EXCEPT !.status = status].lead = send[m].lead
  BY <1>1 DEF Sends
<1>3. send' = [send EXCEPT ![m] = [send[m] EXCEPT !.status = status]]
  BY DEF Answered
<1>. QED
  BY <1>1, <1>2, <1>3 DEF PipelineTypes

LEMMA AnswerInv ==
    ASSUME PipelineInv, NEW m \in Managers,
           ExecuteSend(m) \/ \E answer \in {"granted", "refused"} : OwnerAnswers(m, answer)
    PROVE  PipelineInv'
<1>. USE DEF companyRows, leadRows, saleRows
<1>1. PipelineTypes
  BY DEF PipelineInv
<1>. DEFINE l == send[m].lead
            i == send[m].at
<1>2. CASE \/ ExecuteSend(m) /\ UNCHANGED <<leadRows, saleRows>>
           \/ \E answer \in {"granted", "refused"} : OwnerAnswers(m, answer)
  <2>1. PICK status \in {"granted", "refused", "unlinked", "failed", "sent"} :
            /\ Answered(m, status)
            /\ send[m].status \in {"asked", "granted"}
            /\ UNCHANGED <<leadRows, saleRows>>
    BY <1>2 DEF ExecuteSend, OwnerAnswers
  <2>2. UNCHANGED <<score, audited, manager>>
    BY <2>1 DEF Answered
  <2>3. /\ send' \in [Managers -> Sends]
        /\ \A r \in Managers : send'[r] # NoSend =>
                send[r] # NoSend /\ send'[r].at = send[r].at /\ send'[r].lead = send[r].lead
    BY <1>1, <2>1, AnsweredSends
  <2>4. /\ lead' \in [Companies -> LeadStatuses] /\ blocked' \subseteq Companies
        /\ reply' \in [Companies -> LeadStatuses]
        /\ outreaches' \in [Companies -> Seq(OutreachStatuses)]
        /\ \A k \in Companies : /\ Len(outreaches'[k]) = Len(outreaches[k])
                                /\ DOMAIN outreaches'[k] = DOMAIN outreaches[k]
        /\ UNCHANGED <<customers, projects>>
    BY <1>1, <2>1 DEF PipelineTypes
  <2>. QED
    BY <2>2, <2>3, <2>4, RowsInv
<1>3. CASE ExecuteSend(m) /\ Mailed(l, i) /\ Answered(m, "sent")
  <2>1. send[m].status = "granted" /\ send[m] # NoSend
    BY <1>3 DEF ExecuteSend, NoSend
  <2>2. l \in Companies /\ i \in DOMAIN outreaches[l]
    BY <1>1, <2>1 DEF PipelineTypes, Sends, SendsExist
  <2>3. /\ send' \in [Managers -> Sends]
        /\ \A r \in Managers : send'[r] # NoSend =>
                send[r] # NoSend /\ send'[r].at = send[r].at /\ send'[r].lead = send[r].lead
    BY <1>1, <1>3, <2>1, AnsweredSends
  <2>4. /\ outreaches' \in [Companies -> Seq(OutreachStatuses)]
        /\ \A k \in Companies : /\ Len(outreaches'[k]) = Len(outreaches[k])
                                /\ DOMAIN outreaches'[k] = DOMAIN outreaches[k]
    BY <1>1, <1>3, <2>2, RowKept DEF Mailed, OutreachStatuses
  <2>5. /\ lead' \in [Companies -> LeadStatuses]
        /\ UNCHANGED <<score, audited, manager, blocked, reply, customers, projects>>
    BY <1>1, <1>3 DEF Mailed, Answered, PipelineTypes, LeadStatuses
  <2>6. blocked' \subseteq Companies /\ reply' \in [Companies -> LeadStatuses]
    BY <1>1, <2>5 DEF PipelineTypes
  <2>. QED
    BY <2>3, <2>4, <2>5, <2>6, RowsInv
<1>. QED
  BY <1>2, <1>3 DEF ExecuteSend

LEMMA OthersInv ==
    ASSUME PipelineInv, NEW l \in Companies, AddLead(l) \/ Sale(l)
    PROVE  PipelineInv'
<1>. USE DEF others, companyRows, leadRows, saleRows
<1>1. PipelineTypes
  BY DEF PipelineInv
<1>2. UNCHANGED <<score, audited, manager, send, customers, projects>>
  BY DEF AddLead, Sale, RequestSendApproval, SendPending, Mailed, ReplyRead, ReplyCommit, Block,
         MarkCustomer
<1>3. /\ lead' \in [Companies -> LeadStatuses] /\ blocked' \subseteq Companies
      /\ reply' \in [Companies -> LeadStatuses]
  BY <1>1 DEF AddLead, Sale, RequestSendApproval, SendPending, Mailed, ReplyRead, ReplyCommit,
         Block, MarkCustomer, PipelineTypes, LeadStatuses
<1>4. /\ outreaches' \in [Companies -> Seq(OutreachStatuses)]
      /\ \A k \in Companies : /\ Len(outreaches'[k]) = Len(outreaches[k])
                              /\ DOMAIN outreaches'[k] = DOMAIN outreaches[k]
  <2>1. CASE UNCHANGED outreaches
    BY <1>1, <2>1 DEF PipelineTypes
  <2>2. ASSUME NEW i \in DOMAIN outreaches[l], RequestSendApproval(l, i) \/ SendPending(l, i)
        PROVE  /\ outreaches' \in [Companies -> Seq(OutreachStatuses)]
               /\ \A k \in Companies : /\ Len(outreaches'[k]) = Len(outreaches[k])
                                       /\ DOMAIN outreaches'[k] = DOMAIN outreaches[k]
    BY <1>1, <2>2, RowKept DEF RequestSendApproval, SendPending, Mailed, OutreachStatuses
  <2>. QED
    BY <2>1, <2>2 DEF AddLead, Sale, ReplyRead, ReplyCommit, Block, MarkCustomer
<1>5. /\ send' \in [Managers -> Sends]
      /\ \A r \in Managers : send'[r] # NoSend =>
              send[r] # NoSend /\ send'[r].at = send[r].at /\ send'[r].lead = send[r].lead
  BY <1>1, <1>2 DEF PipelineTypes
<1>. QED
  BY <1>2, <1>3, <1>4, <1>5, RowsInv

LEMMA PipelineInitInv == PipelineInit => PipelineInv
<1>. SUFFICES ASSUME PipelineInit PROVE PipelineInv
  OBVIOUS
<1>1. PipelineTypes
  <2>1. Known = {}
    BY DEF PipelineInit, Known
  <2>2. <<>> \in Seq(OutreachStatuses)
    BY EmptySeq
  <2>. QED
    BY <2>1, <2>2 DEF PipelineInit, PipelineTypes, ScoreStates, LeadStatuses, Sends, SendsExist
<1>2. PlansFit
  BY DEF PipelineInit, PlansFit
<1>3. DraftsCounted
  <2>. SUFFICES ASSUME NEW l \in Companies
                PROVE  Len(outreaches[l]) + Cardinality(Planned(l)) <= Cardinality(Managers)
    BY DEF DraftsCounted
  <2>1. Len(outreaches[l]) = 0
    BY DEF PipelineInit
  <2>. QED
    BY <2>1, PlannedFinite
<1>. QED
  BY <1>1, <1>2, <1>3 DEF PipelineInv

LEMMA PipelineNextInv == PipelineInv /\ [PipelineNext]_pipelineVars => PipelineInv'
<1>. SUFFICES ASSUME PipelineInv, [PipelineNext]_pipelineVars PROVE PipelineInv'
  OBVIOUS
<1>1. ASSUME NEW m \in Managers, NEW goal \in Goals, Plan(m, goal) PROVE PipelineInv'
  BY <1>1, PlanInv
<1>2. ASSUME NEW m \in Managers, Succeeds(m) PROVE PipelineInv'
  BY <1>2, TaskInv, DraftInv DEF Succeeds
<1>3. ASSUME NEW m \in Managers, NEW t \in manager[m], TaskFails(m, t) \/ Deliver(m, t, FALSE)
      PROVE  PipelineInv'
  BY <1>3, TaskInv
<1>4. ASSUME NEW m \in Managers,
             ExecuteSend(m) \/ \E answer \in {"granted", "refused"} : OwnerAnswers(m, answer)
      PROVE  PipelineInv'
  BY <1>4, AnswerInv
<1>5. ASSUME NEW l \in Companies, AddLead(l) PROVE PipelineInv'
  BY <1>5, OthersInv
<1>6. ASSUME NEW l \in Contacts, Sale(l) PROVE PipelineInv'
  BY <1>6, OthersInv, PipelineAssumption
<1>7. CASE UNCHANGED pipelineVars
  <2>1. UNCHANGED <<score, audited, lead, blocked, reply, outreaches, customers, projects,
                    manager, send>>
    BY <1>7 DEF pipelineVars
  <2>2. PipelineTypes'
    BY <2>1 DEF PipelineInv, PipelineTypes, Known, SendsExist
  <2>3. Known' = Known
    BY <2>1 DEF Known
  <2>. QED
    BY <2>1, <2>2, <2>3, PipelineQuiet
<1>. QED
  BY <1>1, <1>2, <1>3, <1>4, <1>5, <1>6, <1>7 DEF PipelineNext

LEMMA PipelineInductive == PipelineInit /\ [][PipelineNext]_pipelineVars => []PipelineInv
BY PipelineInitInv, PipelineNextInv, PTL

LEMMA PipelineTypesHold == PipelineInv => PipelineTypeOK
BY DEF PipelineInv, PipelineTypes, PipelineTypeOK, AuditRows, Sends, SendsExist

\* PipelineTypeOK: the rows of the funnel and the managers' plans have their types, only
\* a known company is audited, only a customer has a project, and a send that waits for
\* the owner names an outreach row there is.
THEOREM PipelineTypeCorrect == PipelineSpec => []PipelineTypeOK
BY PipelineInductive, PipelineTypesHold, PTL DEF PipelineSpec

\* DraftsBounded: a lead is drafted for at most once by each manager that planned before
\* the first draft (create_plan, sales_draft_fn).
THEOREM DraftsStayBounded == PipelineSpec => []DraftsBounded
<1>1. PipelineInv => DraftsBounded
  <2>. SUFFICES ASSUME PipelineInv, NEW l \in Companies
                PROVE  Len(outreaches[l]) <= Cardinality(Managers)
    BY DEF DraftsBounded
  <2>1. Len(outreaches[l]) + Cardinality(Planned(l)) <= Cardinality(Managers)
    BY DEF PipelineInv, DraftsCounted
  <2>2. Len(outreaches[l]) \in Nat
    BY OutreachLengths DEF PipelineInv
  <2>. QED
    BY <2>1, <2>2, PlannedFinite
<1>. QED
  BY <1>1, PipelineInductive, PTL DEF PipelineSpec

----------------------------------------------------------------------------
(* The score.  A contact form or a booking page takes two points at most   *)
(* from what automation promises, and adds at least four to lead capture;  *)
(* in every other category no fact costs a point.                          *)

\* No description, no keywords.
ScoringInv == ScoringTypeOK /\ (facts.length = 0 => ~facts.keywords)

More ==
    /\ facts.signals \subseteq facts'.signals
    /\ facts.sources <= facts'.sources
    /\ facts.length \in {0, facts'.length}
    /\ facts.keywords => facts'.keywords
    /\ facts.industry \in {"unknown", facts'.industry}

LEMMA FactTypes ==
    ASSUME ScoringTypeOK
    PROVE  /\ facts.length \in Int /\ facts.sources \in Int /\ facts.length >= 0
           /\ facts.keywords \in BOOLEAN
BY DEF ScoringTypeOK, Facts, Lengths

LEMMA LearningIsMore ==
    ASSUME ScoringInv, ScoringNext
    PROVE  ScoringInv' /\ More
<1>0. facts \in Facts
  BY DEF ScoringInv, ScoringTypeOK
<1>1. ASSUME NEW f \in Signals, FindSignal(f) PROVE ScoringInv' /\ More
  BY <1>0, <1>1 DEF FindSignal, ScoringInv, ScoringTypeOK, Facts, More
<1>2. CASE FindSource
  BY <1>0, <1>2 DEF FindSource, ScoringInv, ScoringTypeOK, Facts, More
<1>3. ASSUME NEW length \in Lengths \ {0}, NEW keywords \in BOOLEAN,
             FindDescription(length, keywords)
      PROVE  ScoringInv' /\ More
  <2>1. /\ facts.length = 0 /\ ~facts.keywords /\ facts.keywords \in BOOLEAN
        /\ facts' = [facts EXCEPT !.length = length, !.keywords = keywords]
    BY <1>0, <1>3 DEF FindDescription, ScoringInv, Facts
  <2>2. /\ facts' \in Facts
        /\ facts'.length = length /\ facts'.length # 0 /\ facts'.keywords = keywords
        /\ facts'.signals = facts.signals /\ facts'.sources = facts.sources
        /\ facts'.industry = facts.industry /\ facts.sources \in 0..4
    BY <1>0, <1>3, <2>1 DEF Facts
  <2>. QED
    BY <2>1, <2>2 DEF ScoringInv, ScoringTypeOK, More
<1>4. ASSUME NEW industry \in Industries \ {"unknown"}, FindIndustry(industry)
      PROVE  ScoringInv' /\ More
  BY <1>0, <1>4 DEF FindIndustry, HasIndustry, ScoringInv, ScoringTypeOK, Facts, More
<1>. QED
  BY <1>1, <1>2, <1>3, <1>4 DEF ScoringNext

LEMMA ScoresGrow ==
    ASSUME ScoringTypeOK, ScoringTypeOK', More
    PROVE  /\ WebsiteQuality \in Int /\ WebsiteQuality' >= WebsiteQuality /\ WebsiteQuality' \in Int
           /\ OnlinePresence \in Int /\ OnlinePresence' >= OnlinePresence /\ OnlinePresence' \in Int
           /\ CommercialPotential \in Int /\ CommercialPotential' \in Int
           /\ CommercialPotential' >= CommercialPotential
<1>0. /\ facts.length \in Lengths /\ facts'.length \in Lengths
      /\ facts.sources \in 0..4 /\ facts'.sources \in 0..4
      /\ facts.keywords \in BOOLEAN /\ facts'.keywords \in BOOLEAN
  BY DEF ScoringTypeOK, Facts
<1>1. /\ WebsiteQuality \in Int /\ WebsiteQuality' \in Int /\ WebsiteQuality' >= WebsiteQuality
  BY <1>0 DEF More, WebsiteQuality, Points, Has, Lengths
<1>2. /\ OnlinePresence \in Int /\ OnlinePresence' \in Int /\ OnlinePresence' >= OnlinePresence
  BY <1>0 DEF More, OnlinePresence, Points, Has, HasIndustry
<1>3. /\ CommercialPotential \in Int /\ CommercialPotential' \in Int
      /\ CommercialPotential' >= CommercialPotential
  BY <1>0 DEF More, CommercialPotential, Points, Has, HasIndustry
<1>. QED
  BY <1>1, <1>2, <1>3

\* A form or a booking page is there now, and was not.
NewContact == \E f \in {"contact_form", "booking"} : f \in facts'.signals /\ f \notin facts.signals

LEMMA CaptureGrows ==
    ASSUME More
    PROVE  /\ LeadCapture \in 0..20 /\ LeadCapture' \in 0..20
           /\ LeadCapture' >= LeadCapture
           /\ NewContact => LeadCapture' >= LeadCapture + 4
BY DEF More, LeadCapture, Points, Has, NewContact

LEMMA ReadinessGrows ==
    ASSUME ScoringTypeOK, ScoringTypeOK', More
    PROVE  /\ Readiness \in 0..20 /\ Readiness' \in 0..20
           /\ Readiness' >= Readiness - 2
           /\ ~NewContact => Readiness' >= Readiness
<1>0. /\ facts.length \in Lengths /\ facts'.length \in Lengths
      /\ facts.sources \in 0..4 /\ facts'.sources \in 0..4
  BY DEF ScoringTypeOK, Facts
<1>. QED
  BY <1>0 DEF More, Readiness, ReadinessWith, Points, Has, HasIndustry, NewContact, Lengths

\* The bonus of the industry, added to a category that is not over its maximum.
WithBonus(n, automation) == IF automation THEN IF n + 2 > 20 THEN 20 ELSE n + 2 ELSE n

LEMMA BonusFits ==
    ASSUME NEW n \in 0..20
    PROVE  n + (IF n >= 20 THEN 0 ELSE Min({2, 20 - n})) = WithBonus(n, TRUE)
<1>1. CASE n = 20
  BY <1>1 DEF WithBonus
<1>2. CASE n < 20
  <2>1. 20 - n \in Nat /\ 2 \in Nat /\ ~(n >= 20)
    BY <1>2
  <2>2. PICK m \in Nat : m = 20 - n
    BY <2>1
  <2>3. Min({2, m}) \in Nat /\ Min({2, m}) <= 2 /\ Min({2, m}) <= m
        /\ (Min({2, m}) = 2 \/ Min({2, m}) = m)
    BY MinOfTwo, <2>1, <2>2
  <2>4. PICK least \in Nat : least = Min({2, 20 - n})
    BY <2>2, <2>3
  <2>5. least <= 2 /\ least <= 20 - n /\ (least = 2 \/ least = 20 - n)
    BY <2>2, <2>3, <2>4
  <2>6. n + least = WithBonus(n, TRUE)
    BY <2>5, <1>2 DEF WithBonus
  <2>. QED
    BY <2>1, <2>4, <2>6
<1>3. n = 20 \/ n < 20
  OBVIOUS
<1>. QED
  BY ONLY <1>1, <1>2, <1>3

LEMMA AutomationIs ==
    ASSUME Readiness \in 0..20
    PROVE  AutomationPotential = WithBonus(Readiness, facts.industry = "automation")
<1>1. PICK n \in 0..20 : n = Readiness
  OBVIOUS
<1>2. AutomationPotential
        = n + (IF facts.industry # "automation" \/ n >= 20 THEN 0 ELSE Min({2, 20 - n}))
  BY <1>1 DEF AutomationPotential, IndustryBonus, CATEGORY_MAX
<1>3. CASE facts.industry = "automation"
  BY <1>1, <1>2, <1>3, BonusFits DEF WithBonus
<1>4. CASE facts.industry # "automation"
  BY <1>1, <1>2, <1>4 DEF WithBonus
<1>. QED
  BY <1>3, <1>4

LEMMA TotalGrows ==
    ASSUME ScoringTypeOK, ScoringTypeOK', More
    PROVE  TotalScore \in Int /\ TotalScore' \in Int /\ TotalScore' >= TotalScore
<1>1. /\ AutomationPotential \in Int /\ AutomationPotential' \in Int
      /\ AutomationPotential <= 20 /\ AutomationPotential' <= 20
      /\ AutomationPotential' >= AutomationPotential - 2
      /\ ~NewContact => AutomationPotential' >= AutomationPotential
  <2>1. PICK n \in 0..20 : n = Readiness'
    BY ReadinessGrows
  <2>2. AutomationPotential'
          = n + (IF facts'.industry # "automation" \/ n >= 20 THEN 0 ELSE Min({2, 20 - n}))
    BY <2>1 DEF AutomationPotential, IndustryBonus, CATEGORY_MAX
  <2>3. AutomationPotential' = WithBonus(n, facts'.industry = "automation")
    <3>1. CASE facts'.industry = "automation"
      BY <2>2, <3>1, BonusFits DEF WithBonus
    <3>2. CASE facts'.industry # "automation"
      BY <2>2, <3>2 DEF WithBonus
    <3>. QED
      BY <3>1, <3>2
  <2>4. PICK m \in 0..20 : m = Readiness
    BY ReadinessGrows
  <2>5. AutomationPotential = WithBonus(m, facts.industry = "automation")
    BY AutomationIs, <2>4
  <2>6. n >= m - 2 /\ (~NewContact => n >= m)
    BY ReadinessGrows, <2>1, <2>4
  <2>7. facts.industry = "automation" => facts'.industry = "automation"
    BY DEF More
  <2>. HIDE DEF NewContact
  <2>. QED
    BY <2>3, <2>5, <2>6, <2>7 DEF WithBonus
<1>2. /\ WebsiteQuality \in Int /\ WebsiteQuality' >= WebsiteQuality /\ WebsiteQuality' \in Int
      /\ OnlinePresence \in Int /\ OnlinePresence' >= OnlinePresence /\ OnlinePresence' \in Int
      /\ CommercialPotential \in Int /\ CommercialPotential' \in Int
      /\ CommercialPotential' >= CommercialPotential
  BY ScoresGrow
<1>3. \A x, y \in Int : x <= y => Clamp(x) \in Int /\ Clamp(y) \in Int /\ Clamp(x) <= Clamp(y)
  BY DEF Clamp, CATEGORY_MAX
<1>4. \A x \in Int : x <= 20 => Clamp(x) = x
  BY DEF Clamp, CATEGORY_MAX
<1>5. PICK w, w2, o, o2, c, c2 \in Int :
        /\ w = Clamp(WebsiteQuality) /\ w2 = Clamp(WebsiteQuality')
        /\ o = Clamp(OnlinePresence) /\ o2 = Clamp(OnlinePresence')
        /\ c = Clamp(CommercialPotential) /\ c2 = Clamp(CommercialPotential')
        /\ w <= w2 /\ o <= o2 /\ c <= c2
  BY <1>2, <1>3
<1>6. PICK a, a2, l, l2 \in Int :
        /\ a = Clamp(AutomationPotential) /\ a2 = Clamp(AutomationPotential')
        /\ l = Clamp(LeadCapture) /\ l2 = Clamp(LeadCapture')
        /\ a2 >= a - 2 /\ l2 >= l
        /\ a2 >= a \/ l2 >= l + 4
  <2>1. PICK l, l2 \in Int :
          /\ l = LeadCapture /\ l2 = LeadCapture' /\ l <= 20 /\ l2 <= 20 /\ l2 >= l
          /\ NewContact => l2 >= l + 4
    BY CaptureGrows
  <2>2. PICK a, a2 \in Int :
          /\ a = AutomationPotential /\ a2 = AutomationPotential' /\ a <= 20 /\ a2 <= 20
          /\ a2 >= a - 2 /\ (~NewContact => a2 >= a)
    BY <1>1
  <2>3. /\ Clamp(LeadCapture) = l /\ Clamp(LeadCapture') = l2
        /\ Clamp(AutomationPotential) = a /\ Clamp(AutomationPotential') = a2
    BY <1>4, <2>1, <2>2
  <2>. QED
    BY <2>1, <2>2, <2>3
<1>7. TotalScore = w + o + l + a + c
  BY <1>5, <1>6 DEF TotalScore
<1>8. TotalScore' = w2 + o2 + l2 + a2 + c2
  BY <1>5, <1>6 DEF TotalScore, Clamp
<1>. QED
  BY <1>5, <1>6, <1>7, <1>8

LEMMA ScoringInductive == ScoringSpec => []ScoringInv
<1>1. ScoringInit => ScoringInv
  BY DEF ScoringInit, ScoringInv, ScoringTypeOK, Facts, Lengths, Signals, Industries
<1>2. ScoringInv /\ [ScoringNext]_facts => ScoringInv'
  BY LearningIsMore DEF ScoringInv, ScoringTypeOK
<1>. QED
  BY <1>1, <1>2, PTL DEF ScoringSpec

\* EvidenceNeverLowersTheScore: no fact that research adds lowers the total or costs a
\* company its place among the qualified (scoring/engine.py, band_for_total).
THEOREM EvidenceHelps == ScoringSpec => EvidenceNeverLowersTheScore
<1>1. ScoringInv /\ [ScoringNext]_facts
        => [facts' # facts =>
              /\ TotalScore' >= TotalScore
              /\ Band \in {"good", "high"} => Band' \in {"good", "high"}]_facts
  <2>. SUFFICES ASSUME ScoringInv, ScoringNext
                PROVE  /\ TotalScore' >= TotalScore
                       /\ Band \in {"good", "high"} => Band' \in {"good", "high"}
    OBVIOUS
  <2>1. TotalScore \in Int /\ TotalScore' \in Int /\ TotalScore' >= TotalScore
    BY LearningIsMore, TotalGrows DEF ScoringInv
  <2>2. Band \in {"good", "high"} => TotalScore >= 70
    BY <2>1 DEF Band
  <2>3. TotalScore' >= 70 => Band' \in {"good", "high"}
    BY <2>1 DEF Band
  <2>. QED
    BY <2>1, <2>2, <2>3
<1>. QED
  BY <1>1, ScoringInductive, PTL DEF ScoringSpec, EvidenceNeverLowersTheScore

----------------------------------------------------------------------------
(* Sums of money and the rounding of a column.                             *)

Entries == Costs \cup Revenues

LEMMA RoundsByHalf ==
    ASSUME NEW x \in Int
    PROVE  /\ HalfUp(x) \in Int
           /\ -Cent < 2 * (HalfUp(x) - x) /\ 2 * (HalfUp(x) - x) <= Cent
<1>. PICK n \in Nat \ {0} : n = Cent
  BY FinanceAssumption
<1>. PICK q \in Int : q = (2 * x + n) \div (2 * n)
  OBVIOUS
<1>1. 2 * n * q <= 2 * x + n /\ 2 * x + n < 2 * n * q + 2 * n
  OBVIOUS
<1>. PICK h \in Int : h = q * n
  OBVIOUS
<1>2. 2 * n * q = 2 * h
  OBVIOUS
<1>3. HalfUp(x) = h
  BY DEF HalfUp
<1>4. 2 * h <= 2 * x + n /\ 2 * x + n < 2 * h + 2 * n
  BY <1>1, <1>2
<1>. QED
  BY <1>3, <1>4

LEMMA StoredIsNear ==
    ASSUME NEW x \in Int
    PROVE  /\ Stored(x) \in Int
           /\ -Cent <= 2 * (Stored(x) - x) /\ 2 * (Stored(x) - x) <= Cent
<1>1. -x \in Int /\ Cent \in Nat
  BY FinanceAssumption
<1>2. /\ HalfUp(x) \in Int /\ HalfUp(-x) \in Int
      /\ -Cent < 2 * (HalfUp(x) - x) /\ 2 * (HalfUp(x) - x) <= Cent
      /\ -Cent < 2 * (HalfUp(-x) + x) /\ 2 * (HalfUp(-x) + x) <= Cent
  <2>1. HalfUp(-x) - (-x) = HalfUp(-x) + x
    BY <1>1, RoundsByHalf
  <2>. QED
    BY <1>1, <2>1, RoundsByHalf
<1>. QED
  BY <1>1, <1>2 DEF Stored

LEMMA QuantizedIsNear ==
    ASSUME NEW x \in Int
    PROVE  /\ Quantized(x) \in Int
           /\ -Cent <= 2 * (Quantized(x) - x) /\ 2 * (Quantized(x) - x) <= Cent
<1>1. Cent \in Nat
  BY FinanceAssumption
<1>. DEFINE odd == (HalfUp(x) \div Cent) % 2 = 1
<1>. HIDE DEF odd
<1>2. Quantized(x) = IF 2 * x = 2 * HalfUp(x) - Cent /\ odd THEN HalfUp(x) - Cent ELSE HalfUp(x)
  BY DEF Quantized, odd
<1>. QED
  BY <1>1, <1>2, RoundsByHalf

LEMMA EntriesFinite ==
    ASSUME NEW S \in SUBSET Entries
    PROVE  IsFiniteSet(S)
BY FinanceAssumption, FS_Union, FS_Subset DEF Entries

LEMMA ProductCounts ==
    ASSUME NEW S, IsFiniteSet(S), NEW m \in Nat
    PROVE  /\ IsFiniteSet(S \X (1..m))
           /\ Cardinality(S \X (1..m)) = Cardinality(S) * m
<1>. DEFINE Slots == 1..m
<1>1. IsFiniteSet(Slots) /\ Cardinality(Slots) = m
  BY FS_Interval
<1>. HIDE DEF Slots
<1>2. IsFiniteSet(S \X Slots) /\ Cardinality(S \X Slots) = Cardinality(S) * Cardinality(Slots)
  BY <1>1, FS_Product, Zenon
<1>3. IsFiniteSet(S \X Slots) /\ Cardinality(S \X Slots) = Cardinality(S) * m
  BY <1>1, <1>2, Zenon
<1>. QED
  BY <1>3 DEF Slots

UnitsOf(n) == IF n > 0 THEN n ELSE 0

LEMMA UnitsOfOne ==
    ASSUME NEW k, NEW n \in Int
    PROVE  /\ IsFiniteSet({k} \X (1..n))
           /\ Cardinality({k} \X (1..n)) = UnitsOf(n)
<1>1. IsFiniteSet({k}) /\ Cardinality({k}) = 1
  BY FS_Singleton
<1>2. CASE n > 0
  <2>1. n \in Nat
    BY <1>2
  <2>2. IsFiniteSet({k} \X (1..n)) /\ Cardinality({k} \X (1..n)) = Cardinality({k}) * n
    BY <1>1, <2>1, ProductCounts, Zenon
  <2>3. Cardinality({k} \X (1..n)) = 1 * n
    BY <1>1, <2>2, Zenon
  <2>. QED
    BY <1>2, <2>2, <2>3 DEF UnitsOf
<1>3. CASE ~(n > 0)
  <2>1. {k} \X (1..n) = {}
    BY <1>3
  <2>. QED
    BY <1>3, <2>1, FS_EmptySet DEF UnitsOf
<1>. QED
  BY <1>2, <1>3

LEMMA UnitsAreCounted ==
    ASSUME NEW amount \in [Entries -> Int], NEW S \in SUBSET Entries
    PROVE  IsFiniteSet(Units(amount, S)) /\ Cardinality(Units(amount, S)) \in Nat
<1>. DEFINE Of(k) == {k} \X (1..amount[k])
            Family == {Of(k) : k \in S}
            f == [k \in S |-> Of(k)]
<1>1. f \in Surjection(S, Family)
  BY DEF Surjection
<1>2. IsFiniteSet(Family)
  BY <1>1, EntriesFinite, FS_Surjection
<1>3. \A units \in Family : IsFiniteSet(units)
  BY UnitsOfOne
<1>4. Units(amount, S) = UNION Family
  BY DEF Units
<1>5. IsFiniteSet(Units(amount, S))
  <2>. HIDE DEF Family
  <2>. QED
    BY <1>2, <1>3, <1>4, FS_UNION
<1>. QED
  BY <1>5, FS_CardinalityType

LEMMA UnitsGrow ==
    ASSUME NEW amount \in [Entries -> Int], NEW S \in SUBSET Entries, NEW T \in SUBSET S
    PROVE  Cardinality(Units(amount, T)) <= Cardinality(Units(amount, S))
<1>1. Units(amount, T) \subseteq Units(amount, S)
  BY DEF Units
<1>. QED
  BY <1>1, UnitsAreCounted, FS_Subset

LEMMA UnitsAdd ==
    ASSUME NEW amount \in [Entries -> Int], NEW S \in SUBSET Entries, NEW k \in Entries \ S
    PROVE  Cardinality(Units(amount, S \cup {k}))
              = Cardinality(Units(amount, S)) + UnitsOf(amount[k])
<1>. DEFINE One == {k} \X (1..amount[k])
<1>1. Units(amount, S \cup {k}) = Units(amount, S) \cup One
  BY DEF Units
<1>2. IsFiniteSet(Units(amount, S)) /\ Cardinality(Units(amount, S)) \in Nat
  BY UnitsAreCounted
<1>3. IsFiniteSet(One) /\ Cardinality(One) = UnitsOf(amount[k])
  BY UnitsOfOne
<1>4. Units(amount, S) \cap One = {}
  BY DEF Units
<1>5. Cardinality(Units(amount, S) \cup One)
        = Cardinality(Units(amount, S)) + Cardinality(One) - Cardinality(Units(amount, S) \cap One)
  BY <1>2, <1>3, FS_Union
<1>6. UnitsOf(amount[k]) \in Nat
  BY DEF UnitsOf
<1>7. Cardinality(Units(amount, S) \cap One) = 0
  BY <1>4, FS_EmptySet
<1>. HIDE DEF One
<1>. PICK u, a \in Nat : u = Cardinality(Units(amount, S)) /\ a = UnitsOf(amount[k])
  BY <1>2, <1>6
<1>8. Cardinality(Units(amount, S) \cup One) = u + a - 0
  BY <1>3, <1>5, <1>7, Zenon
<1>9. u + a - 0 = u + a
  OBVIOUS
<1>. QED
  BY <1>1, <1>8, <1>9, Zenon

LEMMA UnitsOfBoth ==
    ASSUME NEW amount \in [Entries -> Int], NEW S \in SUBSET Entries, NEW T \in SUBSET Entries
    PROVE  Cardinality(Units(amount, S \cup T))
              <= Cardinality(Units(amount, S)) + Cardinality(Units(amount, T))
<1>1. Units(amount, S \cup T) = Units(amount, S) \cup Units(amount, T)
  BY DEF Units
<1>2. /\ IsFiniteSet(Units(amount, S)) /\ Cardinality(Units(amount, S)) \in Nat
      /\ IsFiniteSet(Units(amount, T)) /\ Cardinality(Units(amount, T)) \in Nat
  BY UnitsAreCounted
<1>3. Cardinality(Units(amount, S) \cap Units(amount, T)) \in Nat
  BY <1>2, FS_Intersection, FS_CardinalityType
<1>4. Cardinality(Units(amount, S) \cup Units(amount, T))
        = Cardinality(Units(amount, S)) + Cardinality(Units(amount, T))
            - Cardinality(Units(amount, S) \cap Units(amount, T))
  BY <1>2, FS_Union
<1>. PICK s, t, both \in Nat :
        /\ s = Cardinality(Units(amount, S)) /\ t = Cardinality(Units(amount, T))
        /\ both = Cardinality(Units(amount, S) \cap Units(amount, T))
  BY <1>2, <1>3
<1>5. Cardinality(Units(amount, S \cup T)) = s + t - both
  BY <1>1, <1>4, Zenon
<1>6. s + t - both <= s + t
  OBVIOUS
<1>. QED
  BY <1>5, <1>6, Zenon

LEMMA AmountTypes ==
    Amount \in [Entries -> Int] /\ Credited \in [Entries -> Int]
    /\ \A k \in Entries : Credited[k] = -Amount[k]
BY FinanceAssumption DEF Entries, Credited

LEMMA TotalType == ASSUME NEW S \in SUBSET Entries PROVE Total(S) \in Int
BY AmountTypes, UnitsAreCounted DEF Total

LEMMA TotalAdds ==
    ASSUME NEW S \in SUBSET Entries, NEW k \in Entries \ S
    PROVE  Total(S \cup {k}) = Total(S) + Amount[k]
<1>1. Amount[k] \in Int /\ Credited[k] = -Amount[k]
  BY AmountTypes
<1>2. PICK p, c \in Nat : /\ p = Cardinality(Units(Amount, S))
                          /\ c = Cardinality(Units(Credited, S))
  BY AmountTypes, UnitsAreCounted
<1>3. /\ Cardinality(Units(Amount, S \cup {k})) = p + UnitsOf(Amount[k])
      /\ Cardinality(Units(Credited, S \cup {k})) = c + UnitsOf(-Amount[k])
  BY <1>1, <1>2, AmountTypes, UnitsAdd
<1>4. Total(S) = p - c
  BY <1>2 DEF Total
<1>5. Total(S \cup {k}) = (p + UnitsOf(Amount[k])) - (c + UnitsOf(-Amount[k]))
  BY <1>3 DEF Total
<1>. QED
  BY <1>1, <1>4, <1>5 DEF UnitsOf

LEMMA TotalOfNone == Total({}) = 0
<1>1. Units(Amount, {}) = {} /\ Units(Credited, {}) = {}
  BY DEF Units
<1>. QED
  BY <1>1, FS_EmptySet DEF Total

\* Entries that some sessions hold, one each.
LEMMA UnitsInHand ==
    ASSUME NEW People, IsFiniteSet(People), NEW keyOf \in [People -> Entries],
           NEW S \in SUBSET {keyOf[p] : p \in People},
           \A k \in S : Amount[k] <= MaxSingle
    PROVE  Cardinality(Units(Amount, S)) <= Cardinality(People) * MaxSingle
<1>. DEFINE Slots == People \X (1..MaxSingle)
            f == [slot \in Slots |-> <<keyOf[slot[1]], slot[2]>>]
            Filled == {f[slot] : slot \in Slots}
<1>0. MaxSingle \in Nat
  BY FinanceAssumption
<1>1. IsFiniteSet(Slots) /\ Cardinality(Slots) = Cardinality(People) * MaxSingle
  BY <1>0, ProductCounts, Zenon
<1>2. f \in Surjection(Slots, Filled)
  BY DEF Surjection
<1>3. IsFiniteSet(Filled) /\ Cardinality(Filled) <= Cardinality(Slots)
  BY <1>1, <1>2, FS_Surjection
<1>4. Units(Amount, S) \subseteq Filled
  <2>. SUFFICES ASSUME NEW k \in S, NEW i \in 1..Amount[k] PROVE <<k, i>> \in Filled
    BY DEF Units
  <2>1. PICK p \in People : k = keyOf[p]
    OBVIOUS
  <2>2. Amount[k] \in Int
    BY <2>1, AmountTypes
  <2>3. i \in 1..MaxSingle
    BY <1>0, <2>2
  <2>4. <<p, i>> \in Slots
    BY <2>3
  <2>5. f[<<p, i>>] = <<k, i>>
    BY <2>1, <2>4
  <2>. QED
    BY <2>4, <2>5
<1>5. Cardinality(Units(Amount, S)) <= Cardinality(Filled)
  BY <1>3, <1>4, FS_Subset
<1>6. /\ Cardinality(Filled) \in Nat /\ Cardinality(Slots) \in Nat
      /\ Cardinality(Units(Amount, S)) \in Nat
  BY <1>1, <1>3, <1>4, FS_Subset, FS_CardinalityType
<1>. HIDE DEF Slots, Filled
<1>. QED
  BY <1>1, <1>3, <1>5, <1>6

----------------------------------------------------------------------------
(* The books.  The unique key lets one session at a time be past the       *)
(* insert of an entry, and only while the entry is not committed: so what  *)
(* a session adds to the row of a day, as it read it, is an entry that the *)
(* row does not show yet and that its own commit puts in the ledger.       *)

\* The ways to sum what a column of a day shows.
LEMMA SumsAre ==
    ASSUME NEW d, NEW keys, NEW earlier, NEW c
    PROVE  c \in Sums(d, keys, earlier) <=>
             \E S \in SUBSET keys, base \in {0, earlier} :
                /\ c = [exact |-> base + Total(S), cents |-> Cardinality(S) + 1]
                /\ \/ base = 0 /\ \A k \in S : DayOf[k] = d
                   \/ base = earlier /\ d = "today"
<1>. DEFINE sum(base, S) == [exact |-> base + Total(S), cents |-> Cardinality(S) + 1]
<1>1. c \in Sums(d, keys, earlier) <=>
        \/ \E S \in SUBSET {k \in keys : DayOf[k] = d} : c = sum(0, S)
        \/ d = "today" /\ \E S \in SUBSET keys : c = sum(earlier, S)
  BY DEF Sums
<1>. HIDE DEF sum
<1>2. (\E S \in SUBSET {k \in keys : DayOf[k] = d} : c = sum(0, S))
        <=> \E S \in SUBSET keys : c = sum(0, S) /\ \A k \in S : DayOf[k] = d
  OBVIOUS
<1>3. c \in Sums(d, keys, earlier) <=>
        \E S \in SUBSET keys, base \in {0, earlier} :
           /\ c = sum(base, S)
           /\ \/ base = 0 /\ \A k \in S : DayOf[k] = d
              \/ base = earlier /\ d = "today"
  BY <1>1, <1>2
<1>. QED
  BY <1>3 DEF sum

LEMMA SumsTypes ==
    ASSUME NEW d, NEW keys \in SUBSET Entries, NEW earlier \in Int,
           NEW c \in Sums(d, keys, earlier)
    PROVE  c.exact \in Int /\ c.cents \in Nat \ {0}
<1>1. PICK S \in SUBSET keys, base \in {0, earlier} :
        c = [exact |-> base + Total(S), cents |-> Cardinality(S) + 1]
  BY SumsAre
<1>2. Total(S) \in Int /\ Cardinality(S) \in Nat
  BY TotalType, EntriesFinite, FS_CardinalityType
<1>. QED
  BY <1>1, <1>2

\* One more entry of the day in the column, and one more rounding.
LEMMA SumsAdd ==
    ASSUME NEW d, NEW keys \in SUBSET Entries, NEW earlier \in Int,
           NEW c \in Sums(d, keys, earlier), NEW k \in Entries \ keys, DayOf[k] = d
    PROVE  [exact |-> c.exact + Amount[k], cents |-> c.cents + 1]
              \in Sums(d, keys \cup {k}, earlier)
<1>1. PICK S \in SUBSET keys, base \in {0, earlier} :
        /\ c = [exact |-> base + Total(S), cents |-> Cardinality(S) + 1]
        /\ \/ base = 0 /\ \A j \in S : DayOf[j] = d
           \/ base = earlier /\ d = "today"
  BY SumsAre
<1>2. Total(S) \in Int /\ IsFiniteSet(S) /\ Cardinality(S) \in Nat /\ Amount[k] \in Int
  BY TotalType, EntriesFinite, FS_CardinalityType, AmountTypes
<1>3. Total(S \cup {k}) = Total(S) + Amount[k] /\ Cardinality(S \cup {k}) = Cardinality(S) + 1
  BY <1>2, TotalAdds, FS_AddElement
<1>4. (base + Total(S)) + Amount[k] = base + Total(S \cup {k})
  BY <1>2, <1>3
<1>5. [exact |-> c.exact + Amount[k], cents |-> c.cents + 1]
        = [exact |-> base + Total(S \cup {k}), cents |-> Cardinality(S \cup {k}) + 1]
  BY <1>1, <1>3, <1>4
<1>6. \/ base = 0 /\ \A j \in S \cup {k} : DayOf[j] = d
      \/ base = earlier /\ d = "today"
  BY <1>1
<1>7. S \cup {k} \in SUBSET (keys \cup {k})
  OBVIOUS
<1>. QED
  BY <1>5, <1>6, <1>7, SumsAre

LEMMA SumsGrow ==
    ASSUME NEW d, NEW more, NEW keys \in SUBSET more, NEW earlier
    PROVE  Sums(d, keys, earlier) \subseteq Sums(d, more, earlier)
<1>. SUFFICES ASSUME NEW c \in Sums(d, keys, earlier) PROVE c \in Sums(d, more, earlier)
  OBVIOUS
<1>1. PICK S \in SUBSET keys, base \in {0, earlier} :
        /\ c = [exact |-> base + Total(S), cents |-> Cardinality(S) + 1]
        /\ \/ base = 0 /\ \A j \in S : DayOf[j] = d
           \/ base = earlier /\ d = "today"
  BY SumsAre
<1>2. S \in SUBSET more
  OBVIOUS
<1>. QED
  BY <1>1, <1>2, SumsAre

\* A day without entries shows nothing.
LEMMA SumsOfNone ==
    ASSUME NEW d, NEW keys, NEW earlier
    PROVE  [exact |-> 0, cents |-> 1] \in Sums(d, keys, earlier)
<1>1. Total({}) = 0 /\ Cardinality({}) = 0
  BY TotalOfNone, FS_EmptySet
<1>2. [exact |-> 0, cents |-> 1] = [exact |-> 0 + Total({}), cents |-> Cardinality({}) + 1]
  BY <1>1
<1>. QED
  BY <1>2, SumsAre

\* Figures of the month so far may stand in today's row.
LEMMA SumsOfMonth ==
    ASSUME NEW keys \in SUBSET Entries, NEW earlier \in Int, NEW S \in SUBSET keys
    PROVE  \E c \in Sums("today", keys, earlier) : c.exact = earlier + Total(S)
<1>. DEFINE c == [exact |-> earlier + Total(S), cents |-> Cardinality(S) + 1]
<1>1. c \in Sums("today", keys, earlier)
  BY SumsAre
<1>. QED
  BY <1>1

\* What a column shows, within "cents" halves of a cent.
LEMMA ShowsAdd ==
    ASSUME NEW x \in Int, NEW exact \in Int, NEW cents \in Nat, NEW a \in Int, Shows(x, exact, cents)
    PROVE  Shows(Stored(x + a), exact + a, cents + 1)
<1>. PICK n \in Nat \ {0} : n = Cent
  BY FinanceAssumption
<1>. PICK m \in Int : m = n * cents
  OBVIOUS
<1>1. n * (cents + 1) = m + n
  OBVIOUS
<1>2. -m <= 2 * (x - exact) /\ 2 * (x - exact) <= m
  BY DEF Shows
<1>. PICK y \in Int : y = Stored(x + a)
  BY StoredIsNear
<1>3. -n <= 2 * (y - (x + a)) /\ 2 * (y - (x + a)) <= n
  BY StoredIsNear
<1>4. -(m + n) <= 2 * (y - (exact + a)) /\ 2 * (y - (exact + a)) <= m + n
  BY <1>2, <1>3
<1>. QED
  BY <1>1, <1>4 DEF Shows

LEMMA ShowsDifference ==
    ASSUME NEW x \in Int, NEW r \in Int, NEW i \in Nat, Shows(x, r, i),
           NEW y \in Int, NEW c \in Int, NEW j \in Nat, Shows(y, c, j)
    PROVE  Shows(x - y, r - c, i + j)
<1>. PICK n \in Nat : n = Cent
  BY FinanceAssumption
<1>. PICK m, k \in Int : m = n * i /\ k = n * j
  OBVIOUS
<1>1. n * (i + j) = m + k
  OBVIOUS
<1>2. /\ -m <= 2 * (x - r) /\ 2 * (x - r) <= m
      /\ -k <= 2 * (y - c) /\ 2 * (y - c) <= k
  BY DEF Shows
<1>3. -(m + k) <= 2 * ((x - y) - (r - c)) /\ 2 * ((x - y) - (r - c)) <= m + k
  BY <1>2
<1>. QED
  BY <1>1, <1>3 DEF Shows

LEMMA ShowsQuantized ==
    ASSUME NEW x \in Int, NEW cents \in Nat \ {0}
    PROVE  Shows(Quantized(x), x, cents)
<1>. PICK n \in Nat : n = Cent
  BY FinanceAssumption
<1>. PICK m \in Int : m = n * cents
  OBVIOUS
<1>1. n <= m
  OBVIOUS
<1>. PICK y \in Int : y = Quantized(x)
  BY QuantizedIsNear
<1>2. -n <= 2 * (y - x) /\ 2 * (y - x) <= n
  BY QuantizedIsNear
<1>3. -m <= 2 * (y - x) /\ 2 * (y - x) <= m
  BY <1>1, <1>2
<1>. QED
  BY <1>3 DEF Shows

Flushable == Entries \cup Metrics \cup {"alert"} \cup Days

Writes == {"daily", "new_day", "commit"}

EntryBookings ==
    [pc : {"budget", "status", "insert_alert", "update_alert", "lookup", "insert", "replay"}
          \cup Writes,
     key : Entries, seen : DailyRow, flushed : SUBSET Flushable]

SumBookings ==
    [pc : {"sum_costs"}, key : Metrics, seen : DailyRow, flushed : SUBSET Flushable]

SummedBookings ==
    [pc : {"sum_revenue"}, key : Metrics, seen : DailyRow, flushed : SUBSET Flushable, costs : Int]

FigureBookings ==
    [pc : {"insert_metric"} \cup Writes, key : Metrics, seen : DailyRow,
     flushed : SUBSET Flushable, figures : MoneyRow]

Bookings == {AtLeisure} \cup EntryBookings \cup SumBookings \cup SummedBookings \cup FigureBookings

\* The session has inserted its entry.
HasEntry(r) == r \in EntryBookings /\ r.pc \in Writes

\* The session was allowed an expense of today.
HasExpense(r) == r \in EntryBookings /\ r.key \in Costs /\ r.pc # "budget" /\ DayOf[r.key] = "today"

OfTheCosts(x) == \E C \in SUBSET (booked \cap Costs) : x = Earlier.costs + Total(C)

\* What a session in this state has ensured.
InOrder(r) ==
    /\ r \in Bookings
    /\ HasEntry(r) /\ r.pc = "commit" => r.seen \in MoneyRow /\ OfTheDay(DayOf[r.key], r.seen)
    /\ r \in SummedBookings => OfTheCosts(r.costs)
    /\ r \in FigureBookings => OfThePeriod(r.figures)
    /\ HasEntry(r) => r.key \in r.flushed /\ r.key \notin booked
    /\ HasExpense(r) => Amount[r.key] <= MaxSingle

OneEach ==
    \A b, other \in Bookers :
        b # other /\ HasEntry(booker[b]) /\ HasEntry(booker[other])
          => booker[b].key # booker[other].key

\* Expenses of today that are booked or may be.
Pledged == CostsToday \cup {booker[b].key : b \in {p \in Bookers : HasExpense(booker[p])}}

SpendLimit == DailyBudget + (Cardinality(Bookers) - 1) * MaxSingle

\* Credits count once they are booked.
WithinLimit ==
    Cardinality(Units(Amount, Pledged)) - Cardinality(Units(Credited, CostsToday)) <= SpendLimit

FinanceInv ==
    /\ booked \in SUBSET Entries /\ alert \in AlertRow
    /\ daily \in [Days -> DailyRow]
    /\ metric \in [Metrics -> DailyRow]
    /\ FiguresAreOfTheLedger
    /\ DOMAIN booker = Bookers /\ \A b \in Bookers : InOrder(booker[b])
    /\ booker = [b \in Bookers |-> booker[b]]
    /\ OneEach
    /\ WithinLimit

LEMMA SomeSession ==
    /\ Cardinality(Bookers) - 1 \in Nat
    /\ (Cardinality(Bookers) - 1) * MaxSingle \in Nat /\ SpendLimit \in Nat
    /\ \A b \in Bookers : /\ IsFiniteSet(Bookers \ {b})
                          /\ Cardinality(Bookers \ {b}) = Cardinality(Bookers) - 1
<1>1. PICK n \in Nat : n = Cardinality(Bookers) /\ n # 0
  BY FinanceAssumption, FS_CardinalityType, FS_EmptySet
<1>2. \A m, k \in Nat : m * k \in Nat
  OBVIOUS
<1>3. MaxSingle \in Nat /\ DailyBudget \in Nat
  BY FinanceAssumption
<1>4. PICK m \in Nat : m = n - 1
  BY <1>1
<1>5. m * MaxSingle \in Nat
  BY <1>2, <1>3
<1>6. \A b \in Bookers : /\ IsFiniteSet(Bookers \ {b})
                         /\ Cardinality(Bookers \ {b}) = Cardinality(Bookers) - 1
  BY FinanceAssumption, FS_RemoveElement
<1>7. (Cardinality(Bookers) - 1) * MaxSingle = m * MaxSingle
  BY <1>1, <1>4
<1>8. Cardinality(Bookers) - 1 \in Nat
  BY <1>1
<1>. QED
  BY <1>3, <1>5, <1>6, <1>7, <1>8 DEF SpendLimit

\* The kinds of work are told apart by the key.
LEMMA KindsOfWork ==
    /\ \A r \in Bookings : r.key \in Entries /\ r # AtLeisure => r \in EntryBookings
    /\ \A r \in Bookings : r.key \in Metrics /\ r.pc \in Writes \cup {"insert_metric"}
                             /\ r # AtLeisure => r \in FigureBookings
    /\ \A r \in EntryBookings : r \notin FigureBookings /\ r \notin SummedBookings
    /\ \A r \in FigureBookings : r \notin EntryBookings /\ r \notin SummedBookings
    /\ \A r \in SummedBookings : r \notin EntryBookings /\ r \notin FigureBookings
    /\ \A r \in SumBookings :
         r \notin EntryBookings /\ r \notin FigureBookings /\ r \notin SummedBookings
    /\ AtLeisure \notin EntryBookings \cup FigureBookings \cup SummedBookings
<1>1. Entries \cap Metrics = {}
  BY FinanceAssumption DEF Entries
<1>. QED
  BY <1>1 DEF Bookings, EntryBookings, FigureBookings, SummedBookings, SumBookings, AtLeisure, Writes

LEMMA WorkByStep ==
    ASSUME NEW r \in Bookings
    PROVE  /\ r.pc \in {"budget", "status", "insert_alert", "update_alert", "lookup", "insert",
                        "replay"} => r \in EntryBookings
           /\ r.pc = "sum_costs" => r \in SumBookings
           /\ r.pc = "sum_revenue" => r \in SummedBookings
           /\ r.pc = "insert_metric" => r \in FigureBookings
           /\ r.pc \in Writes => r \in EntryBookings \cup FigureBookings
           /\ r # AtLeisure => r.pc # "idle"
BY DEF Bookings, EntryBookings, FigureBookings, SummedBookings, SumBookings, AtLeisure, Writes

LEMMA LedgerTypes ==
    ASSUME booked \in SUBSET Entries
    PROVE  /\ booked \cap Costs \in SUBSET Entries /\ booked \cap Revenues \in SUBSET Entries
           /\ CostsToday \in SUBSET Entries
           /\ Earlier.costs \in Int /\ Earlier.revenue \in Int
BY FinanceAssumption DEF CostsToday

\* Entries are added to the ledger only: what was of it remains so.
LEMMA LedgerGrows ==
    ASSUME booked \subseteq booked'
    PROVE  /\ \A d, row : OfTheDay(d, row) => OfTheDay(d, row)'
           /\ \A figures : OfThePeriod(figures) => OfThePeriod(figures)'
           /\ \A x : OfTheCosts(x) => OfTheCosts(x)'
           /\ CostsToday \subseteq CostsToday'
<1>1. booked \cap Costs \in SUBSET (booked' \cap Costs)
      /\ booked \cap Revenues \in SUBSET (booked' \cap Revenues)
  OBVIOUS
<1>2. \A d : CostSums(d) \subseteq CostSums(d)' /\ RevenueSums(d) \subseteq RevenueSums(d)'
  <2>. TAKE d
  <2>1. Sums(d, booked \cap Costs, Earlier.costs) \subseteq Sums(d, booked' \cap Costs, Earlier.costs)
    BY <1>1, SumsGrow
  <2>2. Sums(d, booked \cap Revenues, Earlier.revenue)
          \subseteq Sums(d, booked' \cap Revenues, Earlier.revenue)
    BY <1>1, SumsGrow
  <2>. QED
    BY <2>1, <2>2 DEF CostSums, RevenueSums, Sums, Total, Units
<1>3. \A d, row : OfTheDay(d, row) => OfTheDay(d, row)'
  BY <1>2 DEF OfTheDay, Shows
<1>4. \A figures : OfThePeriod(figures) => OfThePeriod(figures)'
  <2>. TAKE figures
  <2>. HAVE OfThePeriod(figures)
  <2>1. PICK C \in SUBSET (booked \cap Costs), R \in SUBSET (booked \cap Revenues) :
          figures = Figures(Earlier.costs + Total(C), Earlier.revenue + Total(R))
    BY DEF OfThePeriod
  <2>2. C \in SUBSET (booked' \cap Costs) /\ R \in SUBSET (booked' \cap Revenues)
    OBVIOUS
  <2>. QED
    BY <2>1, <2>2 DEF OfThePeriod, Total, Units, Figures
<1>5. \A x : OfTheCosts(x) => OfTheCosts(x)'
  <2>. TAKE x
  <2>. HAVE OfTheCosts(x)
  <2>1. PICK C \in SUBSET (booked \cap Costs) : x = Earlier.costs + Total(C)
    BY DEF OfTheCosts
  <2>2. C \in SUBSET (booked' \cap Costs)
    OBVIOUS
  <2>. QED
    BY <2>1, <2>2 DEF OfTheCosts, Total, Units
<1>. QED
  BY <1>3, <1>4, <1>5 DEF CostsToday

\* The expenses that may be booked do not grow, and those booked do not get fewer.
LEMMA LimitKept ==
    ASSUME FinanceInv, Pledged' \subseteq Pledged, booked \subseteq booked',
           booked' \in SUBSET Entries
    PROVE  WithinLimit'
<1>. DEFINE today == CostsToday
            today2 == CostsToday'
            pledged == Pledged
            pledged2 == Pledged'
<1>1. /\ today2 \in SUBSET Entries /\ today \in SUBSET today2
      /\ pledged \in SUBSET Entries /\ pledged2 \in SUBSET pledged
  <2>1. today2 \in SUBSET Entries /\ today \in SUBSET today2
    BY DEF CostsToday
  <2>2. pledged \in SUBSET Entries
    <3>1. \A r : HasExpense(r) => r.key \in Entries
      BY DEF HasExpense, Entries
    <3>. QED
      BY <2>1, <3>1 DEF Pledged, Entries
  <2>. QED
    BY <2>1, <2>2
<1>2. Cardinality(Units(Amount, pledged)) - Cardinality(Units(Credited, today)) <= SpendLimit
  BY DEF FinanceInv, WithinLimit
<1>. HIDE DEF today, today2, pledged, pledged2
<1>3. /\ Cardinality(Units(Amount, pledged2)) <= Cardinality(Units(Amount, pledged))
      /\ Cardinality(Units(Credited, today)) <= Cardinality(Units(Credited, today2))
  BY <1>1, AmountTypes, UnitsGrow
<1>4. /\ Cardinality(Units(Amount, pledged2)) \in Nat /\ Cardinality(Units(Amount, pledged)) \in Nat
      /\ Cardinality(Units(Credited, today)) \in Nat /\ Cardinality(Units(Credited, today2)) \in Nat
  BY <1>1, AmountTypes, UnitsAreCounted
<1>5. Cardinality(Units(Amount, pledged2)) - Cardinality(Units(Credited, today2)) <= SpendLimit
  BY <1>2, <1>3, <1>4, SomeSession
<1>. QED
  BY <1>5 DEF WithinLimit, pledged2, today2, SpendLimit, Units, Credited

\* One session steps, and no row changes but the alert.
LEMMA SessionSteps ==
    ASSUME FinanceInv, NEW b \in Bookers, NEW r, booker' = [booker EXCEPT ![b] = r],
           UNCHANGED <<booked, daily, metric>>, alert' \in AlertRow, InOrder(r),
           HasEntry(r) => \A other \in Bookers \ {b} :
                            HasEntry(booker[other]) => booker[other].key # r.key,
           WithinLimit'
    PROVE  FinanceInv'
<1>0. UNCHANGED <<booked, daily, metric>> /\ booked \subseteq booked'
  OBVIOUS
<1>1. /\ \A d, row : OfTheDay(d, row) => OfTheDay(d, row)'
      /\ \A figures : OfThePeriod(figures) => OfThePeriod(figures)'
      /\ \A x : OfTheCosts(x) => OfTheCosts(x)'
  BY <1>0, LedgerGrows
<1>2. /\ booker'[b] = r
      /\ \A other \in Bookers \ {b} : booker'[other] = booker[other]
      /\ DOMAIN booker' = Bookers
      /\ booker' = [x \in Bookers |-> booker'[x]]
  BY DEF FinanceInv
<1>3. \A x \in Bookers : InOrder(booker'[x])
  BY <1>2 DEF FinanceInv
<1>4. OneEach'
  <2>. SUFFICES ASSUME NEW x \in Bookers, NEW y \in Bookers, x # y,
                       HasEntry(booker'[x]), HasEntry(booker'[y])
                PROVE  booker'[x].key # booker'[y].key
    BY DEF OneEach
  <2>. QED
    BY <1>2 DEF FinanceInv, OneEach
<1>5. \A x \in Bookers : InOrder(booker[x])'
  <2>. SUFFICES ASSUME NEW x \in Bookers PROVE InOrder(booker[x])'
    OBVIOUS
  <2>. PICK q : q = booker'[x]
    OBVIOUS
  <2>1. InOrder(q)
    BY <1>3
  <2>2. /\ HasEntry(q) /\ q.pc = "commit" => q.seen \in MoneyRow /\ OfTheDay(DayOf[q.key], q.seen)'
        /\ q \in SummedBookings => OfTheCosts(q.costs)'
        /\ q \in FigureBookings => OfThePeriod(q.figures)'
    BY <1>1, <2>1 DEF InOrder
  <2>. QED
    BY <1>0, <2>1, <2>2 DEF InOrder
<1>6. FiguresAreOfTheLedger'
  BY <1>0, <1>1 DEF FinanceInv, FiguresAreOfTheLedger
<1>. QED
  BY <1>0, <1>2, <1>4, <1>5, <1>6 DEF FinanceInv

\* No session has an expense that it did not have.
LEMMA PledgesKept ==
    ASSUME FinanceInv, NEW b \in Bookers, NEW r, booker' = [booker EXCEPT ![b] = r],
           booked' = booked,
           HasExpense(r) => HasExpense(booker[b]) /\ r.key = booker[b].key
    PROVE  WithinLimit'
<1>1. /\ booker'[b] = r
      /\ \A other \in Bookers \ {b} : booker'[other] = booker[other]
  BY DEF FinanceInv
<1>2. CostsToday' = CostsToday
  BY DEF CostsToday
<1>3. Pledged' \subseteq Pledged
  BY <1>1, <1>2 DEF Pledged
<1>. QED
  BY <1>3, LimitKept DEF FinanceInv

\* A session that is done, or lost.
LEMMA Leaves ==
    ASSUME FinanceInv, NEW b \in Bookers, Books(b, AtLeisure),
           UNCHANGED <<booked, daily, metric>>, alert' \in AlertRow
    PROVE  FinanceInv'
<1>1. ~HasEntry(AtLeisure) /\ ~HasExpense(AtLeisure)
  BY KindsOfWork DEF HasEntry, HasExpense
<1>2. InOrder(AtLeisure)
  BY <1>1, KindsOfWork DEF InOrder, Bookings, AtLeisure
<1>3. booker' = [booker EXCEPT ![b] = AtLeisure]
  BY DEF Books
<1>4. WithinLimit'
  BY <1>1, <1>3, PledgesKept
<1>. QED
  BY <1>1, <1>2, <1>3, <1>4, SessionSteps

\* Steps of a session before it inserts its entry.
LEMMA BeforeEntry ==
    ASSUME FinanceInv, NEW b \in Bookers, NEW r \in EntryBookings, Books(b, r),
           UNCHANGED moneyRows, r.pc \notin Writes,
           HasExpense(r) => HasExpense(booker[b]) /\ r.key = booker[b].key
    PROVE  FinanceInv'
<1>0. UNCHANGED <<booked, daily, metric>> /\ alert' \in AlertRow
  BY DEF moneyRows, FinanceInv
<1>1. ~HasEntry(r) /\ r \notin SummedBookings /\ r \notin FigureBookings
  BY KindsOfWork DEF HasEntry
<1>2. InOrder(r)
  BY <1>1 DEF InOrder, Bookings, FinanceInv
<1>3. booker' = [booker EXCEPT ![b] = r]
  BY DEF Books
<1>4. WithinLimit'
  BY <1>0, <1>3, PledgesKept
<1>. QED
  BY <1>0, <1>1, <1>2, <1>3, <1>4, SessionSteps

LEMMA RequestsInv ==
    ASSUME FinanceInv, NEW b \in Bookers, NEW k \in Costs \cup Revenues, RequestEntry(b, k)
    PROVE  FinanceInv'
<1>. DEFINE r == [pc |-> IF k \in Costs THEN "budget" ELSE "lookup", key |-> k,
                  seen |-> NoFigures, flushed |-> {}]
<1>1. r \in EntryBookings /\ r.pc \notin Writes /\ ~HasExpense(r)
  BY DEF EntryBookings, Entries, Writes, HasExpense, DailyRow, NoFigures
<1>2. Books(b, r) /\ UNCHANGED moneyRows
  BY DEF RequestEntry
<1>. HIDE DEF r
<1>. QED
  BY <1>1, <1>2, BeforeEntry

LEMMA EarlyStepsInv ==
    ASSUME FinanceInv, NEW b \in Bookers, ReadStatus(b) \/ FlushAlert(b) \/ LookUpEntry(b)
    PROVE  FinanceInv'
<1>. PICK old \in Bookings : old = booker[b]
  BY DEF FinanceInv, InOrder
<1>0. /\ old \in EntryBookings /\ old.pc # "budget" /\ UNCHANGED moneyRows
  BY WorkByStep DEF ReadStatus, FlushAlert, LookUpEntry
<1>1. ASSUME NEW pc \in {"lookup", "insert_alert", "update_alert", "replay", "insert"},
             NEW nowFlushed \in SUBSET Flushable,
             Books(b, [old EXCEPT !.pc = pc, !.flushed = nowFlushed])
      PROVE  FinanceInv'
  <2>. DEFINE r == [old EXCEPT !.pc = pc, !.flushed = nowFlushed]
  <2>1. r \in EntryBookings /\ r.pc \notin Writes /\ r.key = old.key
    BY <1>0 DEF EntryBookings, Writes
  <2>2. HasExpense(r) => HasExpense(old)
    BY <1>0, <2>1 DEF HasExpense
  <2>3. Books(b, r)
    BY <1>1
  <2>. HIDE DEF r
  <2>. QED
    BY <1>0, <2>1, <2>2, <2>3, BeforeEntry
<1>2. old.flushed \in SUBSET Flushable /\ "alert" \in Flushable
  BY <1>0 DEF EntryBookings, Flushable
<1>3. \A pc : [old EXCEPT !.pc = pc] = [old EXCEPT !.pc = pc, !.flushed = old.flushed]
  BY <1>0 DEF EntryBookings
<1>4. CASE ReadStatus(b)
  BY <1>1, <1>2, <1>3, <1>4 DEF ReadStatus, Proceeds
<1>5. CASE FlushAlert(b)
  <2>1. CASE Books(b, AtLeisure)
    BY <1>0, <2>1, Leaves DEF moneyRows, FinanceInv
  <2>2. CASE Books(b, [old EXCEPT !.pc = "lookup", !.flushed = @ \cup {"alert"}])
    <3>1. PICK nowFlushed \in SUBSET Flushable : nowFlushed = old.flushed \cup {"alert"}
      BY <1>2
    <3>2. Books(b, [old EXCEPT !.pc = "lookup", !.flushed = nowFlushed])
      BY <2>2, <3>1
    <3>. QED
      BY <1>1, <3>2
  <2>. QED
    BY <1>5, <2>1, <2>2 DEF FlushAlert
<1>6. CASE LookUpEntry(b)
  BY <1>1, <1>2, <1>3, <1>6 DEF LookUpEntry, Proceeds
<1>. QED
  BY <1>4, <1>5, <1>6

\* The budget is checked: with this expense the ledger is within it, and every other
\* session holds one expense at most.
LEMMA BudgetInv ==
    ASSUME FinanceInv, NEW b \in Bookers, CheckBudget(b)
    PROVE  FinanceInv'
<1>. PICK old \in Bookings : old = booker[b]
  BY DEF FinanceInv, InOrder
<1>0. old \in EntryBookings /\ UNCHANGED <<booked, daily, metric>> /\ alert' \in AlertRow
      /\ ~HasExpense(old)
  BY WorkByStep DEF CheckBudget, moneyRows, FinanceInv, HasExpense
<1>1. CASE ~ExpenseAllowed(old.key)
  BY <1>0, <1>1, Leaves DEF CheckBudget
<1>2. CASE ExpenseAllowed(old.key)
  <2>. DEFINE r == [old EXCEPT !.pc = "status"]
              Peers == Bookers \ {b}
              PeersKeys == {booker[p].key : p \in {q \in Peers : HasExpense(booker[q])}}
  <2>1. r \in EntryBookings /\ r.pc = "status" /\ r.key = old.key
    BY <1>0 DEF EntryBookings
  <2>2. booker' = [booker EXCEPT ![b] = r]
    BY <1>2 DEF CheckBudget, Proceeds, Books
  <2>3. InOrder(r) /\ ~HasEntry(r)
    <3>1. r \notin SummedBookings /\ r \notin FigureBookings /\ ~HasEntry(r)
      BY <2>1, KindsOfWork DEF HasEntry, Writes
    <3>2. HasExpense(r) => Amount[r.key] <= MaxSingle
      BY <1>2, <2>1 DEF ExpenseAllowed
    <3>. QED
      BY <2>1, <3>1, <3>2 DEF InOrder, Bookings
  <2>4. PeersKeys \in SUBSET Entries /\ \A k \in PeersKeys : Amount[k] <= MaxSingle
    BY DEF HasExpense, FinanceInv, InOrder, Entries
  <2>5. Cardinality(Units(Amount, PeersKeys)) <= (Cardinality(Bookers) - 1) * MaxSingle
    <3>. DEFINE Holders == {q \in Peers : HasExpense(booker[q])}
                keyOf == [p \in Holders |-> booker[p].key]
    <3>1. IsFiniteSet(Holders) /\ Cardinality(Holders) <= Cardinality(Bookers) - 1
          /\ Cardinality(Holders) \in Nat
      <4>. HIDE DEF Holders
      <4>1. Holders \in SUBSET Peers
        BY DEF Holders
      <4>2. IsFiniteSet(Peers) /\ Cardinality(Peers) = Cardinality(Bookers) - 1
        BY SomeSession
      <4>3. IsFiniteSet(Holders) /\ Cardinality(Holders) <= Cardinality(Peers)
        BY <4>1, <4>2, FS_Subset
      <4>. QED
        BY <4>2, <4>3, FS_CardinalityType
    <3>2. keyOf \in [Holders -> Entries]
      BY DEF HasExpense, EntryBookings
    <3>3. PeersKeys = {keyOf[p] : p \in Holders}
      OBVIOUS
    <3>. HIDE DEF keyOf, Holders, PeersKeys
    <3>4. Cardinality(Units(Amount, PeersKeys)) <= Cardinality(Holders) * MaxSingle
      BY <2>4, <3>1, <3>2, <3>3, UnitsInHand
    <3>5. Cardinality(Units(Amount, PeersKeys)) \in Nat
      BY <2>4, AmountTypes, UnitsAreCounted
    <3>6. PICK n, m, total \in Nat :
            n = Cardinality(Holders) /\ m = Cardinality(Bookers) - 1
            /\ total = Cardinality(Units(Amount, PeersKeys))
      BY <3>1, <3>5, SomeSession
    <3>7. n <= m /\ total <= n * MaxSingle /\ MaxSingle \in Nat
      BY <3>1, <3>4, <3>6, FinanceAssumption
    <3>8. n * MaxSingle <= m * MaxSingle
      BY <3>7
    <3>9. n * MaxSingle \in Int /\ m * MaxSingle \in Int
      BY <3>7
    <3>10. total <= m * MaxSingle
      BY <3>7, <3>8, <3>9
    <3>. QED
      BY <3>6, <3>10
  <2>6. WithinLimit'
    <3>. DEFINE Now == CostsToday
                Pledged2 == Pledged'
    <3>1. /\ booker'[b] = r
          /\ \A other \in Peers : booker'[other] = booker[other]
      BY <2>2 DEF FinanceInv
    <3>2. CostsToday' = Now
      BY <1>0 DEF CostsToday
    <3>3. Pledged2 \subseteq (Now \cup PeersKeys) \cup {old.key}
      BY <2>1, <3>1, <3>2 DEF Pledged
    <3>4. Now \cup PeersKeys \subseteq Pledged
      BY DEF Pledged
    <3>5. Now \in SUBSET Entries /\ old.key \in Entries
      BY <1>0, LedgerTypes DEF EntryBookings, FinanceInv
    <3>6. CASE old.key \in Pledged
      <4>1. Pledged2 \subseteq Pledged
        BY <3>3, <3>4, <3>6
      <4>. QED
        BY <1>0, <4>1, LimitKept DEF FinanceInv
    <3>7. CASE old.key \notin Pledged
      <4>1. old.key \in Entries \ (Now \cup PeersKeys)
        BY <3>4, <3>5, <3>7
      <4>. HIDE DEF Now, PeersKeys, Pledged2
      <4>2. /\ Cardinality(Units(Amount, Pledged2))
                 <= Cardinality(Units(Amount, (Now \cup PeersKeys) \cup {old.key}))
            /\ Cardinality(Units(Amount, (Now \cup PeersKeys) \cup {old.key}))
                 = Cardinality(Units(Amount, Now \cup PeersKeys)) + UnitsOf(Amount[old.key])
            /\ Cardinality(Units(Amount, Now \cup PeersKeys))
                 <= Cardinality(Units(Amount, Now)) + Cardinality(Units(Amount, PeersKeys))
            /\ Now \cup PeersKeys \in SUBSET Entries /\ Pledged2 \in SUBSET Entries
        <5>1. Now \cup PeersKeys \in SUBSET Entries
          BY <2>4, <3>5
        <5>2. (Now \cup PeersKeys) \cup {old.key} \in SUBSET Entries
          BY <5>1, <4>1
        <5>3. Pledged2 \in SUBSET ((Now \cup PeersKeys) \cup {old.key})
          BY <3>3
        <5>4. Cardinality(Units(Amount, Pledged2))
                 <= Cardinality(Units(Amount, (Now \cup PeersKeys) \cup {old.key}))
          BY <5>2, <5>3, AmountTypes, UnitsGrow
        <5>5. Cardinality(Units(Amount, (Now \cup PeersKeys) \cup {old.key}))
                 = Cardinality(Units(Amount, Now \cup PeersKeys)) + UnitsOf(Amount[old.key])
          BY <4>1, <5>1, AmountTypes, UnitsAdd
        <5>6. Cardinality(Units(Amount, Now \cup PeersKeys))
                 <= Cardinality(Units(Amount, Now)) + Cardinality(Units(Amount, PeersKeys))
          BY <2>4, <3>5, AmountTypes, UnitsOfBoth
        <5>. QED
          BY <5>1, <5>2, <5>3, <5>4, <5>5, <5>6
      <4>3. PICK p2, np, n, p, c \in Nat :
              /\ p2 = Cardinality(Units(Amount, Pledged2))
              /\ np = Cardinality(Units(Amount, Now \cup PeersKeys))
              /\ n = Cardinality(Units(Amount, Now))
              /\ p = Cardinality(Units(Amount, PeersKeys))
              /\ c = Cardinality(Units(Credited, Now))
        BY <2>4, <3>5, <4>2, AmountTypes, UnitsAreCounted
      <4>4. PICK a, room, extra \in Int :
              /\ a = Amount[old.key] /\ room = DailyBudget
              /\ extra = (Cardinality(Bookers) - 1) * MaxSingle
        BY <4>1, AmountTypes, SomeSession, FinanceAssumption
      <4>5. p2 <= np + UnitsOf(a) /\ np <= n + p /\ p <= extra
        BY <2>5, <4>2, <4>3, <4>4
      <4>6. (n - c) + a <= room
        BY <1>2, <4>3, <4>4 DEF ExpenseAllowed, SpentToday, Total, Now
      <4>7. np - c <= room + extra
        <5>1. Now \cup PeersKeys \in SUBSET Pledged /\ Pledged \in SUBSET Entries
          <6>1. \A q : HasExpense(q) => q.key \in Entries
            BY DEF HasExpense, Entries
          <6>. QED
            BY <3>4, <3>5, <6>1 DEF Pledged, Now
        <5>2. Cardinality(Units(Amount, Now \cup PeersKeys)) <= Cardinality(Units(Amount, Pledged))
              /\ Cardinality(Units(Amount, Pledged)) \in Nat
          BY <5>1, AmountTypes, UnitsGrow, UnitsAreCounted
        <5>3. Cardinality(Units(Amount, Pledged)) - c <= room + extra
          BY <4>3, <4>4 DEF FinanceInv, WithinLimit, SpendLimit, Now
        <5>. QED
          BY <4>3, <5>2, <5>3
      <4>8. p2 - c <= room + extra
        BY <4>5, <4>6, <4>7 DEF UnitsOf
      <4>. QED
        BY <3>2, <4>3, <4>4, <4>8 DEF WithinLimit, SpendLimit, Pledged2, Units, Credited
    <3>. QED
      BY <3>6, <3>7
  <2>. HIDE DEF r
  <2>. QED
    BY <1>0, <2>2, <2>3, <2>6, SessionSteps
<1>. QED
  BY <1>1, <1>2

\* The entry is inserted: no other session has it, and it is not committed.
LEMMA EntryInsertInv ==
    ASSUME FinanceInv, NEW b \in Bookers, InsertEntry(b)
    PROVE  FinanceInv'
<1>. PICK old \in Bookings : old = booker[b]
  BY DEF FinanceInv, InOrder
<1>0. /\ old \in EntryBookings /\ old.pc = "insert" /\ UNCHANGED moneyRows
      /\ UNCHANGED <<booked, daily, metric>> /\ alert' \in AlertRow
  BY WorkByStep DEF InsertEntry, moneyRows, FinanceInv
<1>1. CASE old.key \in booked
  <2>. DEFINE r == [old EXCEPT !.pc = "replay"]
  <2>1. r \in EntryBookings /\ r.pc \notin Writes /\ r.key = old.key
    BY <1>0 DEF EntryBookings, Writes
  <2>2. HasExpense(r) => HasExpense(old)
    BY <1>0, <2>1 DEF HasExpense
  <2>3. Books(b, r)
    BY <1>1 DEF InsertEntry
  <2>. HIDE DEF r
  <2>. QED
    BY <1>0, <2>1, <2>2, <2>3, BeforeEntry
<1>2. CASE old.key \notin booked
  <2>. PICK nowFlushed : nowFlushed = old.flushed \cup {old.key}
    OBVIOUS
  <2>. DEFINE r == [old EXCEPT !.pc = "daily", !.flushed = nowFlushed]
  <2>0. nowFlushed \in SUBSET Flushable /\ old.key \in nowFlushed
    BY <1>0 DEF EntryBookings, Flushable, Entries
  <2>1. /\ r \in EntryBookings /\ r.pc = "daily" /\ r.key = old.key /\ r.flushed = nowFlushed
        /\ r \notin SummedBookings /\ r \notin FigureBookings
    <3>1. r \in EntryBookings /\ r.pc = "daily" /\ r.key = old.key /\ r.flushed = nowFlushed
      BY <1>0, <2>0 DEF EntryBookings, Writes
    <3>. QED
      BY <3>1, KindsOfWork
  <2>2. HasExpense(r) => HasExpense(old)
    BY <1>0, <2>1 DEF HasExpense
  <2>3. Books(b, r)
    BY <1>2 DEF InsertEntry
  <2>. HIDE DEF r
  <2>4. booker' = [booker EXCEPT ![b] = r]
    BY <2>3 DEF Books
  <2>5. InOrder(r)
    BY <1>2, <2>0, <2>1, <2>2 DEF InOrder, Bookings, FinanceInv
  <2>6. \A other \in Bookers \ {b} : HasEntry(booker[other]) => booker[other].key # r.key
    <3>. SUFFICES ASSUME NEW other \in Bookers \ {b}, HasEntry(booker[other]),
                         booker[other].key = old.key
                  PROVE  FALSE
      BY <2>1
    <3>1. booker[other].key \in booker[other].flushed /\ booker[other].pc # "idle"
      BY DEF FinanceInv, InOrder, HasEntry, Writes
    <3>2. Free(b, old.key)
      BY DEF InsertEntry
    <3>. QED
      BY <3>1, <3>2 DEF Free, Flushes
  <2>7. WithinLimit'
    BY <1>0, <2>1, <2>2, <2>4, PledgesKept
  <2>. QED
    BY <1>0, <2>4, <2>5, <2>6, <2>7, SessionSteps
<1>. QED
  BY <1>1, <1>2

\* The empty row of a day shows no entry.
LEMMA NoMoneyShown == NoMoney \in MoneyRow /\ \A d : OfTheDay(d, NoMoney)
<1>1. NoMoney \in MoneyRow
  BY DEF NoMoney, MoneyRow
<1>2. ASSUME NEW d PROVE OfTheDay(d, NoMoney)
  <2>. DEFINE none == [exact |-> 0, cents |-> 1]
  <2>1. none \in CostSums(d) /\ none \in RevenueSums(d)
    BY SumsOfNone DEF CostSums, RevenueSums
  <2>2. Shows(0, 0, 1) /\ Shows(0, 0 - 0, 1 + 1)
    BY FinanceAssumption DEF Shows
  <2>3. /\ Shows(NoMoney.costs, none.exact, none.cents)
        /\ Shows(NoMoney.revenue, none.exact, none.cents)
        /\ Shows(NoMoney.profit, none.exact - none.exact, none.cents + none.cents)
    BY <2>2 DEF NoMoney
  <2>. HIDE DEF none
  <2>. QED
    BY <2>1, <2>3 DEF OfTheDay
<1>. QED
  BY <1>1, <1>2

\* The row of the day is read or inserted; the session keeps its entry or its figures.
LEMMA DailyStepsInv ==
    ASSUME FinanceInv, NEW b \in Bookers, ReadDaily(b) \/ InsertDaily(b)
    PROVE  FinanceInv'
<1>. PICK old \in Bookings : old = booker[b]
  BY DEF FinanceInv, InOrder
<1>0. /\ old \in EntryBookings \cup FigureBookings /\ old.pc \in {"daily", "new_day"}
      /\ UNCHANGED moneyRows /\ UNCHANGED <<booked, daily, metric>> /\ alert' \in AlertRow
  BY WorkByStep DEF ReadDaily, InsertDaily, moneyRows, FinanceInv, Writes
<1>. DEFINE Right(seen) == old \in EntryBookings =>
                             seen \in MoneyRow /\ OfTheDay(DayOf[old.key], seen)
<1>1. ASSUME NEW pc \in {"new_day", "commit"}, NEW seen \in DailyRow,
             NEW nowFlushed \in SUBSET Flushable, old.flushed \subseteq nowFlushed,
             pc = "commit" => Right(seen),
             Books(b, [old EXCEPT !.pc = pc, !.seen = seen, !.flushed = nowFlushed])
      PROVE  FinanceInv'
  <2>. DEFINE r == [old EXCEPT !.pc = pc, !.seen = seen, !.flushed = nowFlushed]
  <2>1. /\ r \in EntryBookings \cup FigureBookings
        /\ r.pc = pc /\ r.key = old.key /\ r.flushed = nowFlushed /\ r.seen = seen
        /\ r \in EntryBookings <=> old \in EntryBookings
        /\ r \in FigureBookings => old \in FigureBookings /\ r.figures = old.figures
    <3>1. CASE old \in EntryBookings
      <4>1. r \in EntryBookings /\ r.pc = pc /\ r.key = old.key /\ r.flushed = nowFlushed
            /\ r.seen = seen
        BY <3>1 DEF EntryBookings, Writes
      <4>. QED
        BY <3>1, <4>1, KindsOfWork
    <3>2. CASE old \in FigureBookings
      <4>1. r \in FigureBookings /\ r.pc = pc /\ r.key = old.key /\ r.flushed = nowFlushed
            /\ r.seen = seen /\ r.figures = old.figures
        BY <3>2 DEF FigureBookings, Writes
      <4>. QED
        BY <3>2, <4>1, KindsOfWork
    <3>. QED
      BY <1>0, <3>1, <3>2
  <2>2. /\ HasExpense(r) => HasExpense(old)
        /\ HasEntry(r) => HasEntry(old)
    BY <1>0, <2>1 DEF HasExpense, HasEntry, Writes
  <2>3. booker' = [booker EXCEPT ![b] = r]
    BY <1>1 DEF Books
  <2>. HIDE DEF r
  <2>4. InOrder(old)
    BY DEF FinanceInv
  <2>5. InOrder(r)
    <3>1. r \notin SummedBookings
      BY <2>1, KindsOfWork
    <3>2. HasEntry(r) /\ r.pc = "commit" => r.seen \in MoneyRow /\ OfTheDay(DayOf[r.key], r.seen)
      BY <1>1, <2>1 DEF HasEntry
    <3>. QED
      BY <1>1, <2>1, <2>2, <2>4, <3>1, <3>2 DEF InOrder, Bookings
  <2>6. HasEntry(r) => \A other \in Bookers \ {b} :
                         HasEntry(booker[other]) => booker[other].key # r.key
    BY <2>1, <2>2 DEF FinanceInv, OneEach
  <2>7. WithinLimit'
    BY <1>0, <2>1, <2>2, <2>3, PledgesKept
  <2>. QED
    BY <1>0, <2>3, <2>5, <2>6, <2>7, SessionSteps
<1>2. /\ old.flushed \in SUBSET Flushable
      /\ RowOf(b) \in Days /\ RowOf(b) \in Flushable
      /\ old \in EntryBookings => RowOf(b) = DayOf[old.key]
  <2>1. old.flushed \in SUBSET Flushable /\ (old \in EntryBookings => old.key \in Entries)
        /\ (old \notin EntryBookings => old.key \in Metrics)
    BY <1>0 DEF EntryBookings, FigureBookings
  <2>2. \A k \in Entries : k \notin Metrics /\ DayOf[k] \in Days
    BY FinanceAssumption DEF Entries, Days
  <2>. QED
    BY <2>1, <2>2 DEF RowOf, Flushable, Days
<1>3. daily[RowOf(b)] \in DailyRow /\ NoMoney \in DailyRow
  BY <1>2, NoMoneyShown DEF FinanceInv, DailyRow
<1>. HIDE DEF Right
<1>4. CASE ReadDaily(b)
  <2>. PICK seen \in DailyRow : seen = daily[RowOf(b)]
    BY <1>3
  <2>. PICK pc \in {"new_day", "commit"} : pc = IF seen = NoFigures THEN "new_day" ELSE "commit"
    OBVIOUS
  <2>1. Books(b, [old EXCEPT !.pc = pc, !.seen = seen])
    BY <1>4 DEF ReadDaily
  <2>2. [old EXCEPT !.pc = pc, !.seen = seen]
          = [old EXCEPT !.pc = pc, !.seen = seen, !.flushed = old.flushed]
    BY <1>0 DEF EntryBookings, FigureBookings
  <2>3. Books(b, [old EXCEPT !.pc = pc, !.seen = seen, !.flushed = old.flushed])
    BY <2>1, <2>2
  <2>4. pc = "commit" => Right(seen)
    <3>1. seen # NoFigures => seen \in MoneyRow /\ OfTheDay(RowOf(b), seen)
      BY <1>2, <1>3 DEF FinanceInv, FiguresAreOfTheLedger, DailyRow
    <3>. QED
      BY <1>2, <3>1 DEF Right
  <2>. QED
    BY <1>1, <1>2, <2>3, <2>4
<1>5. CASE InsertDaily(b)
  <2>1. CASE Books(b, AtLeisure)
    BY <1>0, <2>1, Leaves
  <2>2. CASE Books(b, [old EXCEPT !.pc = "commit", !.seen = NoMoney,
                                  !.flushed = @ \cup {RowOf(b)}])
    <3>. PICK nowFlushed \in SUBSET Flushable : nowFlushed = old.flushed \cup {RowOf(b)}
      BY <1>2
    <3>1. Books(b, [old EXCEPT !.pc = "commit", !.seen = NoMoney, !.flushed = nowFlushed])
      BY <2>2
    <3>2. Right(NoMoney)
      BY NoMoneyShown DEF Right
    <3>. QED
      BY <1>1, <1>3, <3>1, <3>2
  <2>. QED
    BY <1>5, <2>1, <2>2 DEF InsertDaily
<1>. QED
  BY <1>4, <1>5

\* The figures of a period are summed over what is booked by then, and inserted.
LEMMA FiguresInv ==
    ASSUME FinanceInv, NEW b \in Bookers,
           \/ \E m \in Metrics : RequestFigures(b, m)
           \/ SumCosts(b) \/ SumRevenue(b) \/ InsertMetric(b)
    PROVE  FinanceInv'
<1>. PICK old \in Bookings : old = booker[b]
  BY DEF FinanceInv, InOrder
<1>0. UNCHANGED moneyRows /\ UNCHANGED <<booked, daily, metric>> /\ alert' \in AlertRow
  BY DEF RequestFigures, SumCosts, SumRevenue, InsertMetric, moneyRows, FinanceInv
<1>1. ASSUME NEW r \in SumBookings \cup SummedBookings \cup FigureBookings, Books(b, r),
             r \in SummedBookings => OfTheCosts(r.costs),
             r \in FigureBookings => OfThePeriod(r.figures)
      PROVE  FinanceInv'
  <2>1. ~HasEntry(r) /\ ~HasExpense(r)
    BY KindsOfWork DEF HasEntry, HasExpense
  <2>2. InOrder(r)
    BY <1>1, <2>1 DEF InOrder, Bookings
  <2>3. booker' = [booker EXCEPT ![b] = r]
    BY <1>1 DEF Books
  <2>4. WithinLimit'
    BY <1>0, <2>1, <2>3, PledgesKept
  <2>. QED
    BY <1>0, <2>1, <2>2, <2>3, <2>4, SessionSteps
<1>2. NoFigures \in DailyRow
  BY DEF DailyRow
<1>3. /\ Total(booked \cap Costs) \in Int /\ Total(booked \cap Revenues) \in Int
      /\ Earlier.costs \in Int /\ Earlier.revenue \in Int
  BY LedgerTypes, TotalType DEF FinanceInv
<1>4. ASSUME NEW m \in Metrics, RequestFigures(b, m) PROVE FinanceInv'
  <2>. DEFINE r == [pc |-> "sum_costs", key |-> m, seen |-> NoFigures, flushed |-> {}]
  <2>1. r \in SumBookings
    BY <1>2 DEF SumBookings
  <2>2. Books(b, r)
    BY <1>4 DEF RequestFigures
  <2>3. r \notin SummedBookings /\ r \notin FigureBookings
    BY <2>1, KindsOfWork
  <2>. HIDE DEF r
  <2>. QED
    BY <1>1, <2>1, <2>2, <2>3
<1>5. CASE SumCosts(b)
  <2>. PICK sum \in Int : sum = Earlier.costs + Total(booked \cap Costs)
    BY <1>3
  <2>. DEFINE r == [pc |-> "sum_revenue", key |-> old.key, seen |-> NoFigures, flushed |-> {},
                    costs |-> sum]
  <2>0. old \in SumBookings
    BY <1>5, WorkByStep DEF SumCosts
  <2>1. r \in SummedBookings /\ r.costs = sum
    BY <1>2, <2>0 DEF SumBookings, SummedBookings
  <2>2. Books(b, r)
    BY <1>5 DEF SumCosts
  <2>3. r \notin FigureBookings
    BY <2>1, KindsOfWork
  <2>4. OfTheCosts(sum)
    BY DEF OfTheCosts
  <2>. HIDE DEF r
  <2>. QED
    BY <1>1, <2>1, <2>2, <2>3, <2>4
<1>6. CASE SumRevenue(b)
  <2>. PICK figures : figures = Figures(old.costs, Earlier.revenue + Total(booked \cap Revenues))
    OBVIOUS
  <2>. DEFINE r == [pc |-> "insert_metric", key |-> old.key, seen |-> NoFigures, flushed |-> {},
                    figures |-> figures]
  <2>0. old \in SummedBookings /\ OfTheCosts(old.costs) /\ old.costs \in Int /\ old.key \in Metrics
    BY <1>6, WorkByStep DEF SumRevenue, SummedBookings, FinanceInv, InOrder
  <2>1. figures \in MoneyRow
    BY <1>3, <2>0 DEF Figures, MoneyRow
  <2>2. OfThePeriod(figures)
    BY <2>0 DEF OfThePeriod, OfTheCosts
  <2>3. Books(b, r)
    BY <1>6 DEF SumRevenue
  <2>4. r \in FigureBookings /\ r.figures = figures
    BY <1>2, <2>0, <2>1 DEF FigureBookings
  <2>5. r \notin SummedBookings
    BY <2>4, KindsOfWork
  <2>. HIDE DEF r
  <2>. QED
    BY <1>1, <2>2, <2>3, <2>4, <2>5
<1>7. CASE InsertMetric(b)
  <2>1. CASE Books(b, AtLeisure)
    BY <1>0, <2>1, Leaves
  <2>2. CASE Books(b, [old EXCEPT !.pc = "daily", !.flushed = {old.key}])
    <3>. DEFINE r == [old EXCEPT !.pc = "daily", !.flushed = {old.key}]
    <3>0. old \in FigureBookings /\ OfThePeriod(old.figures)
      BY <1>7, WorkByStep DEF InsertMetric, FinanceInv, InOrder
    <3>1. r \in FigureBookings /\ r.figures = old.figures
      BY <3>0 DEF FigureBookings, Writes, Flushable
    <3>2. Books(b, r)
      BY <2>2
    <3>3. r \notin SummedBookings
      BY <3>1, KindsOfWork
    <3>. HIDE DEF r
    <3>. QED
      BY <1>1, <3>0, <3>1, <3>2, <3>3
  <2>. QED
    BY <1>7, <2>1, <2>2 DEF InsertMetric
<1>. QED
  BY <1>4, <1>5, <1>6, <1>7

\* SQL sets the columns that changed.
LEMMA UpdateMixes ==
    ASSUME NEW stored \in MoneyRow, NEW seen \in MoneyRow, NEW new \in MoneyRow,
           NEW kept \in MoneyRow
    PROVE  LET row == Update(stored, seen, new, kept)
           IN  /\ row \in MoneyRow
               /\ row.costs = IF new.costs = seen.costs THEN stored.costs ELSE kept.costs
               /\ row.revenue = IF new.revenue = seen.revenue THEN stored.revenue ELSE kept.revenue
               /\ row.profit = IF new.profit = seen.profit THEN stored.profit ELSE kept.profit
<1>1. DOMAIN stored = {"costs", "revenue", "profit"}
  BY DEF MoneyRow
<1>. QED
  BY <1>1 DEF Update, MoneyRow

LEMMA RoundedRows ==
    ASSUME NEW row \in MoneyRow
    PROVE  /\ StoredRow(row) \in MoneyRow /\ QuantizedRow(row) \in MoneyRow
           /\ StoredRow(row).costs = Stored(row.costs)
           /\ StoredRow(row).revenue = Stored(row.revenue)
           /\ StoredRow(row).profit = Stored(row.profit)
           /\ QuantizedRow(row).costs = Quantized(row.costs)
           /\ QuantizedRow(row).revenue = Quantized(row.revenue)
           /\ QuantizedRow(row).profit = Quantized(row.profit)
<1>1. DOMAIN row = {"costs", "revenue", "profit"}
  BY DEF MoneyRow
<1>2. \A x \in Int : Stored(x) \in Int /\ Quantized(x) \in Int
  BY StoredIsNear, QuantizedIsNear
<1>3. row.costs \in Int /\ row.revenue \in Int /\ row.profit \in Int
  BY DEF MoneyRow
<1>. QED
  BY <1>1, <1>2, <1>3 DEF StoredRow, QuantizedRow, MoneyRow

LEMMA SumsOfLedgerGrow ==
    ASSUME booked \subseteq booked', NEW d
    PROVE  CostSums(d) \subseteq CostSums(d)' /\ RevenueSums(d) \subseteq RevenueSums(d)'
<1>1. Sums(d, booked \cap Costs, Earlier.costs) \subseteq Sums(d, booked' \cap Costs, Earlier.costs)
  BY SumsGrow
<1>2. Sums(d, booked \cap Revenues, Earlier.revenue)
        \subseteq Sums(d, booked' \cap Revenues, Earlier.revenue)
  BY SumsGrow
<1>. QED
  BY <1>1, <1>2 DEF CostSums, RevenueSums, Sums, Total, Units

\* The sums of a day with the entry that is committed.
LEMMA SumsWithEntry ==
    ASSUME booked \in SUBSET Entries, NEW k \in Entries \ booked, booked' = booked \cup {k}
    PROVE  /\ k \in Costs => \A c \in CostSums(DayOf[k]) :
                [exact |-> c.exact + Amount[k], cents |-> c.cents + 1] \in CostSums(DayOf[k])'
           /\ k \in Revenues => \A r \in RevenueSums(DayOf[k]) :
                [exact |-> r.exact + Amount[k], cents |-> r.cents + 1] \in RevenueSums(DayOf[k])'
<1>. DEFINE costs == booked \cap Costs
            revenues == booked \cap Revenues
<1>1. /\ costs \in SUBSET Entries /\ k \in Entries \ costs /\ Earlier.costs \in Int
      /\ revenues \in SUBSET Entries /\ k \in Entries \ revenues /\ Earlier.revenue \in Int
  BY LedgerTypes
<1>2. /\ k \in Costs => booked' \cap Costs = costs \cup {k}
      /\ k \in Revenues => booked' \cap Revenues = revenues \cup {k}
  OBVIOUS
<1>3. ASSUME k \in Costs, NEW c \in CostSums(DayOf[k])
      PROVE  [exact |-> c.exact + Amount[k], cents |-> c.cents + 1] \in CostSums(DayOf[k])'
  <2>1. c \in Sums(DayOf[k], costs, Earlier.costs)
    BY <1>3 DEF CostSums
  <2>. HIDE DEF costs
  <2>2. [exact |-> c.exact + Amount[k], cents |-> c.cents + 1]
          \in Sums(DayOf[k], costs \cup {k}, Earlier.costs)
    BY <1>1, <2>1, SumsAdd
  <2>. QED
    BY <1>2, <1>3, <2>2 DEF CostSums, Sums, Total, Units
<1>4. ASSUME k \in Revenues, NEW r \in RevenueSums(DayOf[k])
      PROVE  [exact |-> r.exact + Amount[k], cents |-> r.cents + 1] \in RevenueSums(DayOf[k])'
  <2>1. r \in Sums(DayOf[k], revenues, Earlier.revenue)
    BY <1>4 DEF RevenueSums
  <2>. HIDE DEF revenues
  <2>2. [exact |-> r.exact + Amount[k], cents |-> r.cents + 1]
          \in Sums(DayOf[k], revenues \cup {k}, Earlier.revenue)
    BY <1>1, <2>1, SumsAdd
  <2>. QED
    BY <1>2, <1>4, <2>2 DEF RevenueSums, Sums, Total, Units
<1>. QED
  BY <1>3, <1>4

\* A session commits: its entry may be booked.
LEMMA CommitKeeps ==
    ASSUME FinanceInv, NEW b \in Bookers, Books(b, AtLeisure),
           booked' \in SUBSET Entries, booked \subseteq booked',
           \A other \in Bookers \ {b} :
              HasEntry(booker[other]) => booker[other].key \notin booked',
           CostsToday' \subseteq Pledged,
           alert' \in AlertRow,
           daily' \in [Days -> DailyRow], metric' \in [Metrics -> DailyRow],
           FiguresAreOfTheLedger'
    PROVE  FinanceInv'
<1>1. /\ booker'[b] = AtLeisure
      /\ \A other \in Bookers \ {b} : booker'[other] = booker[other]
      /\ DOMAIN booker' = Bookers
      /\ booker' = [x \in Bookers |-> booker'[x]]
  BY DEF FinanceInv, Books
<1>2. /\ \A d, row : OfTheDay(d, row) => OfTheDay(d, row)'
      /\ \A figures : OfThePeriod(figures) => OfThePeriod(figures)'
      /\ \A x : OfTheCosts(x) => OfTheCosts(x)'
  BY LedgerGrows
<1>3. ~HasEntry(AtLeisure) /\ ~HasExpense(AtLeisure)
  BY KindsOfWork DEF HasEntry, HasExpense
<1>4. \A x \in Bookers : InOrder(booker[x])'
  <2>. SUFFICES ASSUME NEW x \in Bookers PROVE InOrder(booker[x])'
    OBVIOUS
  <2>1. CASE x = b
    BY <1>1, <1>3, <2>1, KindsOfWork DEF InOrder, Bookings, AtLeisure
  <2>2. CASE x # b
    <3>. PICK q : q = booker[x]
      OBVIOUS
    <3>1. InOrder(q) /\ booker'[x] = q /\ (HasEntry(q) => q.key \notin booked')
      BY <1>1, <2>2 DEF FinanceInv
    <3>2. /\ HasEntry(q) /\ q.pc = "commit" => q.seen \in MoneyRow /\ OfTheDay(DayOf[q.key], q.seen)'
          /\ q \in SummedBookings => OfTheCosts(q.costs)'
          /\ q \in FigureBookings => OfThePeriod(q.figures)'
      BY <1>2, <3>1 DEF InOrder
    <3>. QED
      BY <3>1, <3>2 DEF InOrder
  <2>. QED
    BY <2>1, <2>2
<1>5. OneEach'
  BY <1>1, <1>3 DEF OneEach, FinanceInv
<1>6. WithinLimit'
  <2>1. Pledged' \subseteq Pledged
    BY <1>1, <1>3 DEF Pledged
  <2>. QED
    BY <2>1, LimitKept
<1>. QED
  BY <1>1, <1>4, <1>5, <1>6 DEF FinanceInv

\* What the row of a day holds, or the empty one.
LEMMA StoredDailyFits ==
    ASSUME FinanceInv, NEW d \in Days
    PROVE  StoredDaily(d) \in MoneyRow /\ OfTheDay(d, StoredDaily(d))
<1>1. daily[d] \in DailyRow /\ (daily[d] # NoFigures => OfTheDay(d, daily[d]))
  BY DEF FinanceInv, FiguresAreOfTheLedger
<1>. QED
  BY <1>1, NoMoneyShown DEF StoredDaily, DailyRow

\* The row of a day after its update: what it held, and the entry, each once.
LEMMA BumpedFits ==
    ASSUME booked \in SUBSET Entries, NEW k \in Entries \ booked, booked' = booked \cup {k},
           NEW stored \in MoneyRow, OfTheDay(DayOf[k], stored),
           NEW seen \in MoneyRow, OfTheDay(DayOf[k], seen),
           NEW row, row = Update(stored, seen, Bumped(seen, k), StoredRow(Bumped(seen, k)))
    PROVE  row \in MoneyRow /\ OfTheDay(DayOf[k], row)'
<1>. PICK d \in Days : d = DayOf[k]
  BY FinanceAssumption DEF Entries, Days
<1>. PICK a \in Int : a = Amount[k]
  BY AmountTypes
<1>. PICK costs, revenue \in Int : costs = seen.costs /\ revenue = seen.revenue
  BY DEF MoneyRow
<1>. PICK c \in CostSums(d), r \in RevenueSums(d) :
        Shows(costs, c.exact, c.cents) /\ Shows(revenue, r.exact, r.cents)
  BY DEF OfTheDay
<1>1. /\ c.exact \in Int /\ c.cents \in Nat \ {0} /\ r.exact \in Int /\ r.cents \in Nat \ {0}
  BY LedgerTypes, SumsTypes DEF CostSums, RevenueSums
<1>2. CostSums(d) \subseteq CostSums(d)' /\ RevenueSums(d) \subseteq RevenueSums(d)'
  BY SumsOfLedgerGrow
<1>3. OfTheDay(d, stored)'
  BY <1>2 DEF OfTheDay, Shows
<1>. PICK new : new = Bumped(seen, k)
  OBVIOUS
<1>4. new \in MoneyRow /\ new.profit = new.revenue - new.costs
      /\ new.costs = (IF k \in Costs THEN costs + a ELSE costs)
      /\ new.revenue = (IF k \in Costs THEN revenue ELSE revenue + a)
  BY DEF Bumped, Figures, MoneyRow
<1>5. /\ row \in MoneyRow
      /\ row.costs = IF new.costs = costs THEN stored.costs ELSE Stored(new.costs)
      /\ row.revenue = IF new.revenue = revenue THEN stored.revenue ELSE Stored(new.revenue)
      /\ row.profit \in {stored.profit, Stored(new.profit)}
  BY <1>4, UpdateMixes, RoundedRows
<1>6. Shows(revenue - costs, r.exact - c.exact, r.cents + c.cents)
  BY <1>1, ShowsDifference
<1>7. CASE k \in Costs
  <2>. DEFINE c2 == [exact |-> c.exact + a, cents |-> c.cents + 1]
  <2>1. c2 \in CostSums(d)' /\ r \in RevenueSums(d)'
    BY <1>2, <1>7, SumsWithEntry
  <2>2. Shows(Stored(new.costs), c2.exact, c2.cents)
    BY <1>1, <1>4, <1>7, ShowsAdd
  <2>3. Shows(Stored(new.profit), r.exact - c2.exact, r.cents + c2.cents)
    <3>1. Shows(Stored((revenue - costs) + (-a)), (r.exact - c.exact) + (-a), (r.cents + c.cents) + 1)
      <4>1. -a \in Int /\ revenue - costs \in Int /\ r.exact - c.exact \in Int
            /\ r.cents + c.cents \in Nat
        BY <1>1
      <4>. QED
        BY <1>6, <4>1, ShowsAdd
    <3>2. /\ (revenue - costs) + (-a) = new.profit
          /\ (r.exact - c.exact) + (-a) = r.exact - c2.exact
          /\ (r.cents + c.cents) + 1 = r.cents + c2.cents
      BY <1>1, <1>4, <1>7
    <3>. QED
      BY <3>1, <3>2
  <2>4. row.revenue = stored.revenue
    BY <1>4, <1>5, <1>7
  <2>. HIDE DEF c2
  <2>5. \E x \in CostSums(d)' : Shows(row.costs, x.exact, x.cents)
    BY <1>3, <1>5, <2>1, <2>2 DEF OfTheDay, Shows
  <2>6. \E x \in RevenueSums(d)' : Shows(row.revenue, x.exact, x.cents)
    BY <1>3, <2>4 DEF OfTheDay, Shows
  <2>7. \E x \in CostSums(d)', y \in RevenueSums(d)' :
           Shows(row.profit, y.exact - x.exact, y.cents + x.cents)
    BY <1>3, <1>5, <2>1, <2>3 DEF OfTheDay, Shows
  <2>. QED
    BY <1>5, <2>5, <2>6, <2>7 DEF OfTheDay, Shows
<1>8. CASE k \notin Costs
  <2>. DEFINE r2 == [exact |-> r.exact + a, cents |-> r.cents + 1]
  <2>1. r2 \in RevenueSums(d)' /\ c \in CostSums(d)'
    BY <1>2, <1>8, SumsWithEntry DEF Entries
  <2>2. Shows(Stored(new.revenue), r2.exact, r2.cents)
    BY <1>1, <1>4, <1>8, ShowsAdd
  <2>3. Shows(Stored(new.profit), r2.exact - c.exact, r2.cents + c.cents)
    <3>1. Shows(Stored((revenue - costs) + a), (r.exact - c.exact) + a, (r.cents + c.cents) + 1)
      <4>1. revenue - costs \in Int /\ r.exact - c.exact \in Int /\ r.cents + c.cents \in Nat
        BY <1>1
      <4>. QED
        BY <1>6, <4>1, ShowsAdd
    <3>2. (revenue - costs) + a = new.profit
      BY <1>4, <1>8
    <3>3. r2.exact = r.exact + a /\ r2.cents = r.cents + 1
      OBVIOUS
    <3>. HIDE DEF r2
    <3>4. /\ (r.exact - c.exact) + a = r2.exact - c.exact
          /\ (r.cents + c.cents) + 1 = r2.cents + c.cents
      BY <1>1, <3>3
    <3>. QED
      BY <3>1, <3>2, <3>4
  <2>4. row.costs = stored.costs
    BY <1>4, <1>5, <1>8
  <2>. HIDE DEF r2
  <2>5. \E x \in CostSums(d)' : Shows(row.costs, x.exact, x.cents)
    BY <1>3, <2>4 DEF OfTheDay, Shows
  <2>6. \E x \in RevenueSums(d)' : Shows(row.revenue, x.exact, x.cents)
    BY <1>3, <1>5, <2>1, <2>2 DEF OfTheDay, Shows
  <2>7. \E x \in CostSums(d)', y \in RevenueSums(d)' :
           Shows(row.profit, y.exact - x.exact, y.cents + x.cents)
    BY <1>3, <1>5, <2>1, <2>3 DEF OfTheDay, Shows
  <2>. QED
    BY <1>5, <2>5, <2>6, <2>7 DEF OfTheDay, Shows
<1>. QED
  BY <1>7, <1>8

LEMMA CommitInv ==
    ASSUME FinanceInv, NEW b \in Bookers, CommitEntry(b)
    PROVE  FinanceInv'
<1>. PICK old \in Bookings : old = booker[b]
  BY DEF FinanceInv, InOrder
<1>0. /\ old \in EntryBookings /\ old.key \in Entries \ booked /\ old.pc = "commit"
      /\ HasEntry(old) /\ old.seen \in MoneyRow /\ OfTheDay(DayOf[old.key], old.seen)
  <2>1. old.pc = "commit" /\ old.key \notin Metrics /\ InOrder(old)
    BY DEF CommitEntry, FinanceInv
  <2>2. old \in EntryBookings \cup FigureBookings
    BY <2>1, WorkByStep DEF Writes
  <2>3. old \in EntryBookings
    BY <2>1, <2>2 DEF FigureBookings
  <2>. QED
    BY <2>1, <2>3 DEF EntryBookings, HasEntry, Writes, InOrder
<1>. PICK k \in Entries \ booked : k = old.key
  BY <1>0
<1>. PICK d \in Days : d = DayOf[k]
  BY FinanceAssumption DEF Entries, Days
<1>. PICK row : row = Update(StoredDaily(d), old.seen, Bumped(old.seen, k),
                             StoredRow(Bumped(old.seen, k)))
  OBVIOUS
<1>1. /\ booked' = booked \cup {k} /\ metric' = metric /\ Books(b, AtLeisure)
      /\ daily' = [daily EXCEPT ![d] = row]
      /\ alert' \in AlertRow
  <2>1. RowOf(b) = d
    BY FinanceAssumption DEF RowOf, Entries
  <2>. QED
    BY <2>1 DEF CommitEntry, Raised, AlertRow, FinanceInv
<1>2. row \in MoneyRow /\ OfTheDay(d, row)'
  BY <1>0, <1>1, BumpedFits, StoredDailyFits DEF FinanceInv
<1>3. booked' \in SUBSET Entries /\ booked \subseteq booked'
  BY <1>1 DEF FinanceInv
<1>4. FiguresAreOfTheLedger'
  <2>1. ASSUME NEW x \in Days, daily'[x] # NoFigures PROVE OfTheDay(x, daily[x])'
    <3>. PICK y : y = daily'[x]
      OBVIOUS
    <3>1. CASE x = d
      BY <1>1, <1>2, <3>1 DEF FinanceInv
    <3>2. CASE x # d
      <4>1. y = daily[x] /\ OfTheDay(x, y)
        BY <1>1, <2>1, <3>2 DEF FinanceInv, FiguresAreOfTheLedger
      <4>2. OfTheDay(x, y)'
        BY <1>3, <4>1, LedgerGrows
      <4>. QED
        BY <4>2 DEF OfTheDay, Shows
    <3>. QED
      BY <3>1, <3>2
  <2>2. ASSUME NEW m \in Metrics, metric'[m] # NoFigures PROVE OfThePeriod(metric[m])'
    <3>. PICK y : y = metric'[m]
      OBVIOUS
    <3>1. OfThePeriod(y)
      BY <1>1, <2>2 DEF FinanceInv, FiguresAreOfTheLedger
    <3>2. OfThePeriod(y)'
      BY <1>3, <3>1, LedgerGrows
    <3>. QED
      BY <3>2 DEF OfThePeriod
  <2>. QED
    BY <2>1, <2>2 DEF FiguresAreOfTheLedger
<1>5. daily' \in [Days -> DailyRow] /\ metric' \in [Metrics -> DailyRow]
  BY <1>1, <1>2 DEF FinanceInv, DailyRow
<1>6. CostsToday' \subseteq Pledged
  <2>1. k \in Costs /\ DayOf[k] = "today" => HasExpense(old)
    BY <1>0 DEF HasExpense
  <2>2. CostsToday' \subseteq CostsToday \cup {j \in {k} : j \in Costs /\ DayOf[j] = "today"}
    BY <1>1 DEF CostsToday
  <2>. QED
    BY <2>1, <2>2 DEF Pledged
<1>7. \A other \in Bookers \ {b} : HasEntry(booker[other]) => booker[other].key \notin booked'
  BY <1>0, <1>1 DEF FinanceInv, OneEach, InOrder
<1>. QED
  BY <1>1, <1>3, <1>4, <1>5, <1>6, <1>7, CommitKeeps

LEMMA CommitFiguresInv ==
    ASSUME FinanceInv, NEW b \in Bookers, CommitFigures(b)
    PROVE  FinanceInv'
<1>. PICK old \in Bookings : old = booker[b]
  BY DEF FinanceInv, InOrder
<1>0. /\ old \in FigureBookings /\ old.key \in Metrics
      /\ OfThePeriod(old.figures) /\ old.figures \in MoneyRow /\ old.seen \in DailyRow
  <2>1. old.pc = "commit" /\ old.key \in Metrics /\ InOrder(old)
    BY DEF CommitFigures, FinanceInv
  <2>2. old \in FigureBookings
    BY <2>1, WorkByStep, KindsOfWork, FinanceAssumption DEF Writes, EntryBookings, Entries
  <2>. QED
    BY <2>1, <2>2 DEF FigureBookings, InOrder
<1>. PICK f \in MoneyRow : f = old.figures
  BY <1>0
<1>. PICK kept \in MoneyRow : kept = QuantizedRow(f)
  BY RoundedRows
<1>. PICK row : row = Update(StoredDaily("today"), old.seen, kept, kept)
  OBVIOUS
<1>1. /\ UNCHANGED <<booked, alert>> /\ Books(b, AtLeisure)
      /\ metric' = [metric EXCEPT ![old.key] = f]
      /\ daily' = [daily EXCEPT !["today"] = row]
  BY DEF CommitFigures
<1>2. "today" \in Days
  BY DEF Days
<1>. PICK stored \in MoneyRow : stored = StoredDaily("today") /\ OfTheDay("today", stored)
  BY <1>2, StoredDailyFits
<1>3. /\ row \in MoneyRow
      /\ row.costs \in {stored.costs, Quantized(f.costs)}
      /\ row.revenue \in {stored.revenue, Quantized(f.revenue)}
      /\ row.profit \in {stored.profit, Quantized(f.profit)}
  <2>1. DOMAIN stored = {"costs", "revenue", "profit"}
    BY DEF MoneyRow
  <2>2. row \in MoneyRow
    BY <2>1 DEF Update, MoneyRow
  <2>3. /\ row.costs \in {stored.costs, kept.costs}
        /\ row.revenue \in {stored.revenue, kept.revenue}
        /\ row.profit \in {stored.profit, kept.profit}
    BY <2>1 DEF Update
  <2>. QED
    BY <2>2, <2>3, RoundedRows
<1>4. OfTheDay("today", row)
  <2>. PICK C \in SUBSET (booked \cap Costs), R \in SUBSET (booked \cap Revenues) :
         f = Figures(Earlier.costs + Total(C), Earlier.revenue + Total(R))
    BY <1>0 DEF OfThePeriod
  <2>0. /\ booked \cap Costs \in SUBSET Entries /\ booked \cap Revenues \in SUBSET Entries
        /\ Earlier.costs \in Int /\ Earlier.revenue \in Int
    BY LedgerTypes DEF FinanceInv
  <2>1. PICK c \in CostSums("today") : c.exact = Earlier.costs + Total(C)
    BY <2>0, SumsOfMonth DEF CostSums
  <2>2. PICK r \in RevenueSums("today") : r.exact = Earlier.revenue + Total(R)
    BY <2>0, SumsOfMonth DEF RevenueSums
  <2>3. /\ c.exact \in Int /\ c.cents \in Nat \ {0} /\ r.exact \in Int /\ r.cents \in Nat \ {0}
    BY <2>0, SumsTypes DEF CostSums, RevenueSums
  <2>4. f.costs = c.exact /\ f.revenue = r.exact /\ f.profit = r.exact - c.exact
    BY <2>1, <2>2 DEF Figures
  <2>5. r.exact - c.exact \in Int /\ r.cents + c.cents \in Nat \ {0}
    BY <2>3
  <2>6. /\ Shows(Quantized(f.costs), c.exact, c.cents)
        /\ Shows(Quantized(f.revenue), r.exact, r.cents)
        /\ Shows(Quantized(f.profit), r.exact - c.exact, r.cents + c.cents)
    BY <2>3, <2>4, <2>5, ShowsQuantized
  <2>. QED
    BY <1>3, <2>6 DEF OfTheDay
<1>5. /\ \A d, x : OfTheDay(d, x) => OfTheDay(d, x)'
      /\ \A x : OfThePeriod(x) => OfThePeriod(x)'
  BY <1>1, LedgerGrows
<1>6. FiguresAreOfTheLedger'
  <2>1. ASSUME NEW x \in Days, daily'[x] # NoFigures PROVE OfTheDay(x, daily[x])'
    <3>. PICK y : y = daily'[x]
      OBVIOUS
    <3>1. OfTheDay(x, y)
      BY <1>1, <1>4, <2>1 DEF FinanceInv, FiguresAreOfTheLedger
    <3>2. OfTheDay(x, y)'
      BY <1>5, <3>1
    <3>. QED
      BY <3>2 DEF OfTheDay, Shows
  <2>2. ASSUME NEW m \in Metrics, metric'[m] # NoFigures PROVE OfThePeriod(metric[m])'
    <3>. PICK y : y = metric'[m]
      OBVIOUS
    <3>1. OfThePeriod(y)
      BY <1>0, <1>1, <2>2 DEF FinanceInv, FiguresAreOfTheLedger
    <3>2. OfThePeriod(y)'
      BY <1>5, <3>1
    <3>. QED
      BY <3>2 DEF OfThePeriod
  <2>. QED
    BY <2>1, <2>2 DEF FiguresAreOfTheLedger
<1>7. daily' \in [Days -> DailyRow] /\ metric' \in [Metrics -> DailyRow]
  BY <1>1, <1>3 DEF FinanceInv, DailyRow
<1>8. /\ booked' \in SUBSET Entries /\ booked \subseteq booked' /\ CostsToday' \subseteq Pledged
      /\ alert' \in AlertRow
  BY <1>1 DEF FinanceInv, Pledged, CostsToday
<1>9. \A other \in Bookers \ {b} : HasEntry(booker[other]) => booker[other].key \notin booked'
  BY <1>1 DEF FinanceInv, InOrder
<1>. QED
  BY <1>1, <1>6, <1>7, <1>8, <1>9, CommitKeeps

LEMMA FinanceInitInv == FinanceInit => FinanceInv
<1>. SUFFICES ASSUME FinanceInit PROVE FinanceInv
  OBVIOUS
<1>1. booked \in SUBSET Entries /\ alert \in AlertRow
  BY DEF FinanceInit, AlertRow
<1>2. NoFigures \in DailyRow
  BY DEF DailyRow
<1>3. ~HasEntry(AtLeisure) /\ ~HasExpense(AtLeisure)
  BY KindsOfWork DEF HasEntry, HasExpense
<1>4. InOrder(AtLeisure)
  BY <1>3, KindsOfWork DEF InOrder, Bookings, AtLeisure
<1>5. \A b \in Bookers : booker[b] = AtLeisure
  BY DEF FinanceInit
<1>6. WithinLimit
  <2>1. Pledged = {} /\ CostsToday = {}
    BY <1>3, <1>5 DEF Pledged, CostsToday, FinanceInit
  <2>2. Units(Amount, {}) = {} /\ Units(Credited, {}) = {}
    BY DEF Units
  <2>3. Cardinality(Units(Amount, {})) = 0 /\ Cardinality(Units(Credited, {})) = 0
    BY <2>2, FS_EmptySet
  <2>4. 0 - 0 <= SpendLimit
    BY SomeSession
  <2>. QED
    BY <2>1, <2>3, <2>4 DEF WithinLimit
<1>7. /\ daily \in [Days -> DailyRow] /\ metric \in [Metrics -> DailyRow]
      /\ FiguresAreOfTheLedger
  BY <1>2 DEF FinanceInit, FiguresAreOfTheLedger
<1>8. DOMAIN booker = Bookers /\ booker = [b \in Bookers |-> booker[b]]
  BY DEF FinanceInit
<1>9. OneEach
  BY <1>3, <1>5 DEF OneEach
<1>. QED
  BY <1>1, <1>4, <1>5, <1>6, <1>7, <1>8, <1>9 DEF FinanceInv

LEMMA FinanceNextInv == FinanceInv /\ [FinanceNext]_financeVars => FinanceInv'
<1>. SUFFICES ASSUME FinanceInv, [FinanceNext]_financeVars PROVE FinanceInv'
  OBVIOUS
<1>1. ASSUME NEW b \in Bookers, NEW k \in Costs \cup Revenues, RequestEntry(b, k)
      PROVE  FinanceInv'
  BY <1>1, RequestsInv
<1>2. ASSUME NEW b \in Bookers, CheckBudget(b) PROVE FinanceInv'
  BY <1>2, BudgetInv
<1>3. ASSUME NEW b \in Bookers, ReadStatus(b) \/ FlushAlert(b) \/ LookUpEntry(b)
      PROVE  FinanceInv'
  BY <1>3, EarlyStepsInv
<1>4. ASSUME NEW b \in Bookers, InsertEntry(b) PROVE FinanceInv'
  BY <1>4, EntryInsertInv
<1>5. ASSUME NEW b \in Bookers, ReadDaily(b) \/ InsertDaily(b) PROVE FinanceInv'
  BY <1>5, DailyStepsInv
<1>6. ASSUME NEW b \in Bookers,
             \/ \E m \in Metrics : RequestFigures(b, m)
             \/ SumCosts(b) \/ SumRevenue(b) \/ InsertMetric(b)
      PROVE  FinanceInv'
  BY <1>6, FiguresInv
<1>7. ASSUME NEW b \in Bookers, CommitEntry(b) PROVE FinanceInv'
  BY <1>7, CommitInv
<1>8. ASSUME NEW b \in Bookers, CommitFigures(b) PROVE FinanceInv'
  BY <1>8, CommitFiguresInv
<1>9. ASSUME NEW b \in Bookers, Replay(b) \/ BookingLost(b) PROVE FinanceInv'
  <2>1. alert' \in AlertRow
    BY <1>9 DEF Replay, BookingLost, Raised, AlertRow, FinanceInv, moneyRows
  <2>2. Books(b, AtLeisure) /\ UNCHANGED <<booked, daily, metric>>
    BY <1>9 DEF Replay, BookingLost, moneyRows
  <2>. QED
    BY <2>1, <2>2, Leaves
<1>10. CASE UNCHANGED financeVars
  <2>1. UNCHANGED <<booked, daily, metric, alert, booker>>
    BY <1>10 DEF financeVars
  <2>2. /\ \A d, row : OfTheDay(d, row) => OfTheDay(d, row)'
        /\ \A figures : OfThePeriod(figures) => OfThePeriod(figures)'
        /\ \A x : OfTheCosts(x) => OfTheCosts(x)'
    BY <2>1, LedgerGrows
  <2>3. \A b \in Bookers : InOrder(booker[b])'
    <3>. SUFFICES ASSUME NEW b \in Bookers PROVE InOrder(booker[b])'
      OBVIOUS
    <3>. PICK q : q = booker[b]
      OBVIOUS
    <3>1. InOrder(q)
      BY DEF FinanceInv
    <3>2. /\ HasEntry(q) /\ q.pc = "commit" => q.seen \in MoneyRow /\ OfTheDay(DayOf[q.key], q.seen)'
          /\ q \in SummedBookings => OfTheCosts(q.costs)'
          /\ q \in FigureBookings => OfThePeriod(q.figures)'
      BY <2>2, <3>1 DEF InOrder
    <3>. QED
      BY <2>1, <3>1, <3>2 DEF InOrder
  <2>4. FiguresAreOfTheLedger'
    BY <2>1, <2>2 DEF FinanceInv, FiguresAreOfTheLedger
  <2>5. Pledged' = Pledged /\ OneEach'
    BY <2>1 DEF FinanceInv, Pledged, CostsToday, OneEach
  <2>6. WithinLimit'
    BY <2>1, <2>5, LimitKept DEF FinanceInv
  <2>. QED
    BY <2>1, <2>3, <2>4, <2>5, <2>6 DEF FinanceInv
<1>. QED
  BY <1>1, <1>2, <1>3, <1>4, <1>5, <1>6, <1>7, <1>8, <1>9, <1>10 DEF FinanceNext

LEMMA FinanceInductive == FinanceSpec => []FinanceInv
BY FinanceInitInv, FinanceNextInv, PTL DEF FinanceSpec

LEMMA FinanceTypesHold == FinanceInv => FinanceTypeOK
<1>. SUFFICES ASSUME FinanceInv PROVE FinanceTypeOK
  OBVIOUS
<1>1. /\ booked \in LedgerRows /\ daily \in [Days -> DailyRow] /\ metric \in MetricRows
      /\ alert \in AlertRow
  BY DEF FinanceInv, Entries, LedgerRows, MetricRows
<1>2. \A r \in Bookings : r # AtLeisure =>
        /\ r.pc \in {"budget", "status", "insert_alert", "update_alert", "lookup", "insert",
                     "replay", "daily", "new_day", "commit", "sum_costs", "sum_revenue",
                     "insert_metric"}
        /\ r.key \in Costs \cup Revenues \cup Metrics
        /\ r.seen \in DailyRow
        /\ r.flushed \subseteq Costs \cup Revenues \cup Metrics \cup {"alert"} \cup Days
  BY DEF Bookings, EntryBookings, FigureBookings, SummedBookings, SumBookings, Writes, Entries,
     Flushable
<1>3. \A b \in Bookers : booker[b] \in Bookings
  BY DEF FinanceInv, InOrder
<1>. QED
  BY <1>1, <1>2, <1>3 DEF FinanceTypeOK

\* FinanceTypeOK: the ledger, the rows of the days, the figures and the sessions have
\* their types (agents/finance/agent.py).
THEOREM FinanceTypeCorrect == FinanceSpec => []FinanceTypeOK
BY FinanceInductive, FinanceTypesHold, PTL

LEMMA SpendHolds == FinanceInv => SpendOvershootBounded
<1>. SUFFICES ASSUME FinanceInv PROVE SpendOvershootBounded
  OBVIOUS
<1>. PICK now : now = CostsToday
  OBVIOUS
<1>. PICK pledged : pledged = Pledged
  OBVIOUS
<1>1. now \in SUBSET pledged /\ pledged \in SUBSET Entries
  <2>1. \A r : HasExpense(r) => r.key \in Entries
    BY DEF HasExpense, Entries
  <2>. QED
    BY <2>1, LedgerTypes DEF Pledged, FinanceInv
<1>2. PICK n, p, c \in Nat :
        /\ n = Cardinality(Units(Amount, now)) /\ p = Cardinality(Units(Amount, pledged))
        /\ c = Cardinality(Units(Credited, now))
  BY <1>1, AmountTypes, UnitsAreCounted
<1>3. n <= p
  BY <1>1, <1>2, AmountTypes, UnitsGrow
<1>4. p - c <= SpendLimit
  BY <1>2 DEF FinanceInv, WithinLimit
<1>5. SpentToday = n - c
  BY <1>2 DEF SpentToday, Total
<1>6. SpentToday <= SpendLimit
  BY <1>3, <1>4, <1>5, SomeSession
<1>. QED
  BY <1>6 DEF SpendOvershootBounded, SpendLimit

\* SpendOvershootBounded: the sessions that pass the budget of the day at once overshoot
\* it by no more than the largest single expense each, not counting the one that is
\* within it, whatever credits are booked between (assert_daily_budget reads committed
\* expenses only).
THEOREM SpendOvershoot == FinanceSpec => []SpendOvershootBounded
BY FinanceInductive, SpendHolds, PTL

\* FiguresAreOfTheLedger: whatever updates of the row of a day overwrite each other, and
\* whatever is repeated or lost, the row shows booked entries, each once, to within the
\* rounding of its updates, and the figures of a period show them exactly
\* (_bump_daily_costs, _bump_daily_revenue, _sync_daily_metric_money, calculate_metrics).
THEOREM FiguresAreOfEntries == FinanceSpec => []FiguresAreOfTheLedger
<1>1. FinanceInv => FiguresAreOfTheLedger
  BY DEF FinanceInv
<1>. QED
  BY <1>1, FinanceInductive, PTL

----------------------------------------------------------------------------
(* The business: each part takes its own steps only, whatever part is at   *)
(* work, so what is proved of the parts holds of the whole.                *)

LEMMA PartsStart ==
    BusinessInit => /\ Init /\ NoticeInit /\ AgentRunsInit /\ FinanceInit /\ DeliveryInit
                    /\ ScoringInit /\ PipelineInit
BY DEF BusinessInit

LEMMA PartsStep ==
    [BusinessNext]_BusinessVars =>
        /\ [Next]_vars /\ [NoticeNext]_noticeVars /\ [AgentRunsNext]_agentRunsVars
        /\ [FinanceNext]_financeVars /\ [DeliveryNext]_deliveryVars
        /\ [ScoringNext]_facts /\ [PipelineNext]_pipelineVars
<1>. SUFFICES ASSUME [BusinessNext]_BusinessVars
              PROVE  /\ [Next]_vars /\ [NoticeNext]_noticeVars /\ [AgentRunsNext]_agentRunsVars
                     /\ [FinanceNext]_financeVars /\ [DeliveryNext]_deliveryVars
                     /\ [ScoringNext]_facts /\ [PipelineNext]_pipelineVars
  OBVIOUS
<1>1. CASE UNCHANGED BusinessVars
  BY <1>1 DEF BusinessVars
<1>2. CASE Mails
  BY <1>2 DEF Mails
<1>3. CASE Notifies
  BY <1>3 DEF Notifies
<1>4. CASE RunsAgents
  BY <1>4 DEF RunsAgents
<1>5. CASE KeepsBooks
  BY <1>5 DEF KeepsBooks
<1>6. CASE Delivers
  BY <1>6 DEF Delivers
<1>7. CASE Scores
  BY <1>7 DEF Scores
<1>8. CASE Manages
  BY <1>8 DEF Manages
<1>. QED
  BY <1>1, <1>2, <1>3, <1>4, <1>5, <1>6, <1>7, <1>8 DEF BusinessNext

LEMMA PartsImplemented ==
    BusinessSpec => /\ Spec /\ NoticeSpec /\ AgentRunsSpec /\ FinanceSpec /\ DeliverySpec
                    /\ ScoringSpec /\ PipelineInit /\ [][PipelineNext]_pipelineVars
BY PartsStart, PartsStep, PTL
   DEF BusinessSpec, Spec, NoticeSpec, AgentRunsSpec, FinanceSpec, DeliverySpec, ScoringSpec

\* BusinessTypeOK: every part of the business that is at work has rows and sessions of
\* their types.
THEOREM BusinessTypeCorrect == BusinessSpec => []BusinessTypeOK
<1>1. ScoringInv => ScoringTypeOK
  BY DEF ScoringInv
<1>2. BusinessSpec => /\ []TypeOK /\ []NoticeTypeOK /\ []AgentRunsTypeOK /\ []FinanceTypeOK
                      /\ []DeliveryTypeOK /\ []ScoringTypeOK /\ []PipelineTypeOK
  BY <1>1, PartsImplemented, ScoringInductive, TypeCorrect, NoticeTypeCorrect, RunsTypeCorrect,
     FinanceTypeCorrect, DeliveryTypeCorrect, PipelineInductive, PipelineTypesHold, PTL
<1>3. TypeOK /\ NoticeTypeOK /\ AgentRunsTypeOK /\ FinanceTypeOK /\ DeliveryTypeOK
      /\ ScoringTypeOK /\ PipelineTypeOK => BusinessTypeOK
  BY Zenon DEF BusinessTypeOK
<1>. QED
  BY <1>2, <1>3, PTL

\* LimitsOvershootBounded: the caps on the runs of a day and the budget, each read before
\* the work and counted after it, are passed by no more than the sessions had in hand.
THEOREM LimitsOvershoot == BusinessSpec => []LimitsOvershootBounded
<1>1. DayOvershootBounded /\ SpendOvershootBounded => LimitsOvershootBounded
  BY DEF LimitsOvershootBounded
<1>. QED
  BY <1>1, PartsImplemented, DayOvershoot, SpendOvershoot, PTL
=============================================================================
