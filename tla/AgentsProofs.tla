----------------------------- MODULE AgentsProofs -----------------------------
(***************************************************************************)
(* Proofs about the agents' transactions, for any number of sessions, keys *)
(* and companies and any limits: the runs of research, audit and report,   *)
(* and the delivery of a project, whatever its tasks depend on.            *)
(***************************************************************************)
EXTENDS AgentRuns, Delivery, FiniteSetTheorems, TLAPS

----------------------------------------------------------------------------
(* A set grows by at most the elements it takes in.                        *)
LEMMA GrowsByOne ==
    ASSUME NEW S, IsFiniteSet(S), NEW x
    PROVE  /\ IsFiniteSet(S \cup {x})
           /\ Cardinality(S) \in Nat /\ Cardinality(S \cup {x}) \in Nat
           /\ Cardinality(S \cup {x}) <= Cardinality(S) + 1
<1>1. /\ IsFiniteSet(S \cup {x})
      /\ Cardinality(S \cup {x}) = IF x \in S THEN Cardinality(S) ELSE Cardinality(S) + 1
  BY FS_AddElement
<1>2. Cardinality(S) \in Nat /\ Cardinality(S \cup {x}) \in Nat
  BY <1>1, FS_CardinalityType
<1>. QED
  BY <1>1, <1>2

LEMMA GrowsByUnion ==
    ASSUME NEW S, IsFiniteSet(S), NEW T, IsFiniteSet(T)
    PROVE  /\ IsFiniteSet(S \cup T)
           /\ Cardinality(S) \in Nat /\ Cardinality(T) \in Nat
           /\ Cardinality(S \cup T) \in Nat
           /\ Cardinality(S \cup T) <= Cardinality(S) + Cardinality(T)
<1>1. /\ IsFiniteSet(S \cup T)
      /\ Cardinality(S \cup T) = Cardinality(S) + Cardinality(T) - Cardinality(S \cap T)
  BY FS_Union
<1>2. IsFiniteSet(S \cap T)
  BY FS_Intersection
<1>3. /\ Cardinality(S) \in Nat /\ Cardinality(T) \in Nat
      /\ Cardinality(S \cup T) \in Nat /\ Cardinality(S \cap T) \in Nat
  BY <1>1, <1>2, FS_CardinalityType
<1>. QED
  BY <1>1, <1>3

(* The least of two numbers is one of them and not above the other.        *)
LEMMA MinOfTwo ==
    ASSUME NEW a \in Nat, NEW b \in Nat
    PROVE  /\ Min({a, b}) \in Nat
           /\ Min({a, b}) <= a /\ Min({a, b}) <= b
           /\ Min({a, b}) = a \/ Min({a, b}) = b
<1>1. \E x \in {a, b} : \A y \in {a, b} : x <= y
  <2>1. CASE a <= b
    BY <2>1
  <2>2. CASE b <= a
    BY <2>2
  <2>. QED
    BY <2>1, <2>2
<1>2. Min({a, b}) \in {a, b} /\ \A y \in {a, b} : Min({a, b}) <= y
  BY <1>1 DEF Min
<1>. QED
  BY <1>2

----------------------------------------------------------------------------
(* Runs of the research, audit and report agents.                          *)

Holding == {"begin", "work", "flush", "broken"}

Waiting == [pc : {"lookup", "insert"}, agent : RunAgents, key : RunKeys, cap : 0..RunLimit]
Marking == [pc : {"mark"}, agent : {"research"}, key : RunKeys]
Running == [pc : Holding, agent : RunAgents, key : RunKeys, cap : 0..RunLimit,
            left : SUBSET Domains, next : SUBSET Domains, made : SUBSET Domains,
            stored : 0..RunLimit]

Sessions == {Unoccupied} \cup Waiting \cup Marking \cup Running

\* One session at a time has flushed a row under a key, and while it does no row of that
\* key is committed.
HeldOnce ==
    \A q, r \in Runners : HasRow(q) /\ HasRow(r) /\ runner[q].key = runner[r].key => q = r

HeldIsFree == \A r \in Runners : HasRow(r) => runOf[runner[r].key] = NoRow

\* A session that has begun to use paid services for a key.
Spends(r, k) ==
    /\ runner[r].pc \in Holding \ {"begin"}
    /\ runner[r].agent # "report"
    /\ runner[r].key = k

\* What is paid for a key is being worked on, or the key has its row.
PaidIsHeld ==
    \A k \in RunKeys :
        /\ paid[k] <= 1
        /\ runOf[k] = NoRow => (paid[k] = 1 <=> \E r \in Runners : Spends(r, k))

\* A run keeps to its share: what it made, and what an audit has left to make.
InShare(w) ==
    /\ w.pc = "begin" => w.made = {} /\ w.left = {}
    /\ w.agent = "research" => Cardinality(w.made) <= w.stored /\ w.stored <= w.cap
    /\ w.agent = "audit" => Cardinality(w.made) + Cardinality(w.left) <= w.cap
    /\ w.pc = "flush" =>
        w.agent = "research" /\ w.stored < w.cap /\ \E d \in Domains : w.next = {d}

AtWork == {"begin", "work", "flush"}

SharesKept == \A r \in Runners : runner[r].pc \in AtWork => InShare(runner[r])

RunsInv ==
    /\ AgentRunsTypeOK
    /\ SharesKept
    /\ HeldOnce
    /\ HeldIsFree
    /\ PaidIsHeld

LEMMA SessionTypes ==
    ASSUME AgentRunsTypeOK, NEW r \in Runners
    PROVE  /\ runner[r] \in Sessions
           /\ runner[r].pc \in {"lookup", "insert"} <=> runner[r] \in Waiting
           /\ runner[r].pc = "mark" <=> runner[r] \in Marking
           /\ HasRow(r) <=> runner[r] \in Running
           /\ runner[r].pc = "idle" <=> runner[r] = Unoccupied
<1>1. runner[r] \in Sessions
  BY DEF AgentRunsTypeOK, Sessions, Waiting, Marking, Running, Holding
<1>. QED
  BY <1>1 DEF Sessions, Waiting, Marking, Running, Holding, Unoccupied, HasRow

\* A session moves and the others stay.
LEMMA OneMoves ==
    ASSUME AgentRunsTypeOK, NEW r \in Runners, NEW step, Goes(r, step)
    PROVE  /\ runner'[r] = step
           /\ \A q \in Runners : q # r => runner'[q] = runner[q]
           /\ step \in Sessions => runner' \in [Runners -> Sessions]
BY DEF AgentRunsTypeOK, Goes, Sessions, Waiting, Marking, Running, Holding

LEMMA TypeFromSessions ==
    (AgentRunsTypeOK <=> /\ runOf \in [RunKeys -> RunRows]
                         /\ companies \in CompanyRows
                         /\ audits \in Nat
                         /\ reports \in ReportRows
                         /\ runner \in [Runners -> Sessions]
                         /\ paid \in [RunKeys -> Nat])
BY DEF AgentRunsTypeOK, Sessions, Waiting, Marking, Running, Holding

\* A session that moves without its database rows.
LEMMA QuietInv ==
    ASSUME RunsInv, NEW r \in Runners, NEW step \in Sessions, Goes(r, step),
           UNCHANGED <<databaseRows, paid>>,
           step.pc \in AtWork => InShare(step),
           step.pc \in Holding =>
                \/ HasRow(r) /\ runner[r].key = step.key
                \/ HoldersOfKey(r, step.key) = {} /\ runOf[step.key] = NoRow,
           \A k \in RunKeys : Spends(r, k)' <=> Spends(r, k)
    PROVE  RunsInv'
<1>. USE DEF RunsInv, databaseRows
<1>1. runner'[r] = step /\ \A q \in Runners : q # r => runner'[q] = runner[q]
  BY OneMoves
<1>2. AgentRunsTypeOK'
  <2>1. runner' \in [Runners -> Sessions]
    BY OneMoves
  <2>. QED
    BY <2>1, TypeFromSessions DEF AgentRunsTypeOK, Sessions, Waiting, Marking, Running, Holding
<1>3. HeldOnce'
  BY <1>1 DEF HeldOnce, HasRow, HoldersOfKey, Holding
<1>4. HeldIsFree'
  BY <1>1 DEF HeldIsFree, HasRow, Holding
<1>5. \A k \in RunKeys, q \in Runners : Spends(q, k)' <=> Spends(q, k)
  BY <1>1 DEF Spends
<1>6. PaidIsHeld'
  BY <1>5 DEF PaidIsHeld
<1>7. SharesKept'
  BY <1>1 DEF SharesKept
<1>. QED
  BY <1>2, <1>3, <1>4, <1>6, <1>7

\* What the day leaves is a number, and a run's share of it no more than its limit.
LEMMA RoomType ==
    ASSUME AgentRunsTypeOK, NEW kind \in {"research", "audit"}
    PROVE  /\ Remaining(kind) \in Nat
           /\ Min({RunLimit, Remaining(kind)}) \in 0..RunLimit
           /\ Min({RunLimit, Remaining(kind)}) <= Remaining(kind)
<1>1. Cardinality(companies) \in Nat
  BY AgentRunsAssumption, FS_Subset, FS_CardinalityType DEF AgentRunsTypeOK, CompanyRows
<1>2. Remaining(kind) \in Nat /\ RunLimit \in Nat
  BY <1>1, AgentRunsAssumption DEF Remaining, AgentRunsTypeOK
<1>. QED
  BY <1>2, MinOfTwo

LEMMA ReadCapacityInv ==
    ASSUME RunsInv, NEW r \in Runners, NEW kind \in {"research", "audit"}, NEW k \in RunKeys,
           ReadCapacity(r, kind, k)
    PROVE  RunsInv'
<1>. DEFINE step == [pc |-> "lookup", agent |-> kind, key |-> k,
                     cap |-> Min({RunLimit, Remaining(kind)})]
<1>1. step \in Sessions
  BY RoomType DEF Sessions, Waiting, RunAgents, RunsInv
<1>2. Goes(r, step) /\ UNCHANGED <<databaseRows, paid>> /\ runner[r].pc = "idle"
  BY DEF ReadCapacity, Unoccupied
<1>3. runner'[r] = step
  BY <1>2, OneMoves DEF RunsInv
<1>. QED
  BY <1>1, <1>2, <1>3, QuietInv DEF Spends, Holding, AtWork

LEMMA StartReportInv ==
    ASSUME RunsInv, NEW r \in Runners, NEW k \in RunKeys, StartReport(r, k)
    PROVE  RunsInv'
<1>. DEFINE step == [pc |-> "lookup", agent |-> "report", key |-> k, cap |-> 0]
<1>1. step \in Sessions
  BY AgentRunsAssumption DEF Sessions, Waiting, RunAgents
<1>2. Goes(r, step) /\ UNCHANGED <<databaseRows, paid>> /\ runner[r].pc = "idle"
  BY DEF StartReport, Unoccupied
<1>3. runner'[r] = step
  BY <1>2, OneMoves DEF RunsInv
<1>. QED
  BY <1>1, <1>2, <1>3, QuietInv DEF Spends, Holding, AtWork

LEMMA LookUpRunInv ==
    ASSUME RunsInv, NEW r \in Runners, LookUpRun(r)
    PROVE  RunsInv'
<1>. DEFINE step == IF RunAnswered(r) THEN Unoccupied ELSE [runner[r] EXCEPT !.pc = "insert"]
<1>1. runner[r] \in Waiting /\ runner[r].pc = "lookup"
  BY SessionTypes DEF LookUpRun, RunsInv
<1>2. step \in Sessions /\ step.pc \in {"idle", "insert"}
  BY <1>1 DEF Sessions, Waiting, Unoccupied
<1>3. Goes(r, step) /\ UNCHANGED <<databaseRows, paid>>
  BY DEF LookUpRun
<1>4. runner'[r] = step
  BY <1>3, OneMoves DEF RunsInv
<1>. QED
  BY <1>1, <1>2, <1>3, <1>4, QuietInv DEF Spends, Holding, AtWork

LEMMA InsertRunInv ==
    ASSUME RunsInv, NEW r \in Runners, InsertRun(r)
    PROVE  RunsInv'
<1>. DEFINE row == [pc |-> "begin", agent |-> runner[r].agent, key |-> runner[r].key,
                    cap |-> runner[r].cap, left |-> {}, next |-> {}, made |-> {}, stored |-> 0]
            step == IF runOf[runner[r].key] # NoRow THEN Unoccupied ELSE row
<1>1. runner[r] \in Waiting /\ runner[r].pc = "insert"
  BY SessionTypes DEF InsertRun, RunsInv
<1>2. row \in Sessions
  BY <1>1, AgentRunsAssumption DEF Sessions, Waiting, Running, Holding
<1>3. Goes(r, step) /\ UNCHANGED <<databaseRows, paid>>
      /\ HoldersOfKey(r, runner[r].key) = {}
  BY DEF InsertRun
<1>4. runner'[r] = step
  BY <1>3, OneMoves DEF RunsInv
<1>5. CASE runOf[runner[r].key] # NoRow
  BY <1>1, <1>3, <1>4, <1>5, QuietInv DEF Sessions, Spends, Holding, AtWork, Unoccupied
<1>6. CASE runOf[runner[r].key] = NoRow
  <2>1. InShare(row)
    BY <1>1, AgentRunsAssumption, FS_EmptySet DEF InShare, Waiting
  <2>. QED
    BY <1>1, <1>2, <1>3, <1>4, <1>6, <2>1, QuietInv DEF Spends, Holding
<1>. QED
  BY <1>5, <1>6

LEMMA MadeIsFinite ==
    ASSUME NEW w \in Running
    PROVE  /\ IsFiniteSet(w.made) /\ Cardinality(w.made) \in Nat
           /\ IsFiniteSet(w.left) /\ Cardinality(w.left) \in Nat
<1>1. w.made \in SUBSET Domains /\ w.left \in SUBSET Domains
  BY DEF Running
<1>. QED
  BY <1>1, AgentRunsAssumption, FS_Subset, FS_CardinalityType

\* A session at work that stays at work.
LEMMA WorkInv ==
    ASSUME RunsInv, NEW r \in Runners, NEW step \in Running, Goes(r, step),
           UNCHANGED <<databaseRows, paid>>,
           runner[r].pc \in {"work", "flush"}, step.pc # "begin",
           step.key = runner[r].key, step.agent = runner[r].agent,
           step.pc \in AtWork => InShare(step)
    PROVE  RunsInv'
<1>1. HasRow(r) /\ step \in Sessions
  BY DEF HasRow, Sessions
<1>2. runner'[r] = step
  BY <1>1, OneMoves DEF RunsInv
<1>3. \A k \in RunKeys : Spends(r, k)' <=> Spends(r, k)
  BY <1>2 DEF Spends, Running, Holding
<1>. QED
  BY <1>1, <1>3, QuietInv

LEMMA PersistInv ==
    ASSUME RunsInv, NEW r \in Runners, NEW d \in Domains, Persist(r, d)
    PROVE  RunsInv'
<1>. DEFINE step == IF d \in companies
                    THEN [runner[r] EXCEPT !.left = @ \ {d}, !.stored = @ + 1]
                    ELSE [runner[r] EXCEPT !.pc = "flush", !.left = @ \ {d}, !.next = {d}]
<1>1. runner[r] \in Running /\ runner[r].pc = "work"
  BY SessionTypes DEF Persist, RunsInv, HasRow
<1>2. Goes(r, step) /\ UNCHANGED <<databaseRows, paid>> /\ InRoom(r)
  BY DEF Persist
<1>3. runner[r].stored + 1 \in 0..RunLimit
  BY <1>1, <1>2, AgentRunsAssumption DEF InRoom, Running
<1>4. /\ step \in Running /\ step.pc # "begin"
      /\ step.key = runner[r].key /\ step.agent = runner[r].agent
  BY <1>1, <1>3 DEF Running, Holding
<1>5. InShare(runner[r])
  BY <1>1 DEF RunsInv, SharesKept, AtWork
<1>6. Cardinality(runner[r].made) \in Nat /\ runner[r].agent = "research"
  BY <1>1, MadeIsFinite DEF Persist
<1>7. InShare(step)
  <2>1. runner[r].stored \in Nat /\ runner[r].cap \in Nat /\ RunLimit \in Nat
    BY <1>1, AgentRunsAssumption DEF Running
  <2>2. step.made = runner[r].made /\ step.cap = runner[r].cap /\ step.agent = "research"
    BY <1>1, <1>6 DEF Running
  <2>3. CASE d \in companies
    <3>1. step.stored = runner[r].stored + 1 /\ step.pc = "work"
      BY <1>1, <2>3 DEF Running
    <3>. QED
      BY <1>2, <1>5, <1>6, <2>1, <2>2, <3>1 DEF InShare, InRoom
  <2>4. CASE d \notin companies
    <3>1. step.stored = runner[r].stored /\ step.next = {d} /\ step.pc = "flush"
      BY <1>1, <2>4 DEF Running
    <3>. QED
      BY <1>2, <1>5, <1>6, <2>1, <2>2, <3>1 DEF InShare, InRoom
  <2>. QED
    BY <2>3, <2>4
<1>. QED
  BY <1>1, <1>2, <1>4, <1>7, WorkInv

LEMMA AuditCompanyInv ==
    ASSUME RunsInv, NEW r \in Runners, NEW d \in Domains, AuditCompany(r, d)
    PROVE  RunsInv'
<1>. DEFINE step == [runner[r] EXCEPT !.left = @ \ {d}, !.made = @ \cup {d}]
<1>1. runner[r] \in Running /\ runner[r].pc = "work"
  BY SessionTypes DEF AuditCompany, RunsInv, HasRow
<1>2. Goes(r, step) /\ UNCHANGED <<databaseRows, paid>>
  BY DEF AuditCompany
<1>3. /\ step \in Running /\ step.pc # "begin"
      /\ step.key = runner[r].key /\ step.agent = runner[r].agent
  BY <1>1 DEF Running, Holding
<1>4. InShare(runner[r]) /\ runner[r].agent = "audit" /\ d \in runner[r].left
  BY <1>1 DEF RunsInv, SharesKept, AtWork, AuditCompany
<1>5. /\ IsFiniteSet(runner[r].made) /\ Cardinality(runner[r].made) \in Nat
      /\ IsFiniteSet(runner[r].left) /\ Cardinality(runner[r].left) \in Nat
      /\ runner[r].cap \in Nat
  BY <1>1, MadeIsFinite DEF Running
<1>6. Cardinality(runner[r].made \cup {d}) \in Nat
      /\ Cardinality(runner[r].made \cup {d}) <= Cardinality(runner[r].made) + 1
  BY <1>5, GrowsByOne
<1>7. Cardinality(runner[r].left \ {d}) = Cardinality(runner[r].left) - 1
  BY <1>4, <1>5, FS_RemoveElement
<1>8. /\ step.made = runner[r].made \cup {d} /\ step.left = runner[r].left \ {d}
      /\ step.agent = "audit" /\ step.pc = "work" /\ step.cap = runner[r].cap
  BY <1>1, <1>4 DEF Running
<1>9. InShare(step)
  BY <1>4, <1>5, <1>6, <1>7, <1>8 DEF InShare
<1>. QED
  BY <1>1, <1>2, <1>3, <1>9, WorkInv

LEMMA FlushCompanyInv ==
    ASSUME RunsInv, NEW r \in Runners, FlushCompany(r)
    PROVE  RunsInv'
<1>. DEFINE step == IF runner[r].next \subseteq companies
                    THEN [runner[r] EXCEPT !.pc = "broken"]
                    ELSE [runner[r] EXCEPT !.pc = "work", !.made = @ \cup runner[r].next,
                                           !.next = {}, !.stored = @ + 1]
<1>1. runner[r] \in Running /\ runner[r].pc = "flush"
  BY SessionTypes DEF FlushCompany, RunsInv, HasRow
<1>2. Goes(r, step) /\ UNCHANGED <<databaseRows, paid>>
  BY DEF FlushCompany
<1>3. InShare(runner[r])
  BY <1>1 DEF RunsInv, SharesKept, AtWork
<1>4. PICK d \in Domains : runner[r].next = {d}
  BY <1>1, <1>3 DEF InShare
<1>5. /\ runner[r].agent = "research" /\ runner[r].stored < runner[r].cap
      /\ Cardinality(runner[r].made) <= runner[r].stored
      /\ runner[r].stored \in Nat /\ runner[r].cap \in 0..RunLimit /\ RunLimit \in Nat
  BY <1>1, <1>3, AgentRunsAssumption DEF InShare, Running
<1>6. runner[r].stored + 1 \in 0..RunLimit
  BY <1>5
<1>7. /\ step \in Running /\ step.pc # "begin"
      /\ step.key = runner[r].key /\ step.agent = runner[r].agent
  BY <1>1, <1>6 DEF Running, Holding
<1>8. step.pc \in AtWork => InShare(step)
  <2>1. CASE runner[r].next \subseteq companies
    BY <1>1, <2>1 DEF Running, AtWork
  <2>2. CASE ~(runner[r].next \subseteq companies)
    <3>1. /\ step.made = runner[r].made \cup {d} /\ step.stored = runner[r].stored + 1
          /\ step.agent = "research" /\ step.pc = "work" /\ step.cap = runner[r].cap
      BY <1>1, <1>4, <1>5, <2>2 DEF Running
    <3>2. Cardinality(runner[r].made) \in Nat /\ Cardinality(step.made) \in Nat
          /\ Cardinality(step.made) <= Cardinality(runner[r].made) + 1
      BY <1>1, <3>1, MadeIsFinite, GrowsByOne
    <3>. QED
      BY <1>5, <3>1, <3>2 DEF InShare
  <2>. QED
    BY <2>1, <2>2
<1>. QED
  BY <1>1, <1>2, <1>7, <1>8, WorkInv

LEMMA DatabaseFailsInv ==
    ASSUME RunsInv, NEW r \in Runners, DatabaseFails(r)
    PROVE  RunsInv'
<1>. DEFINE step == [runner[r] EXCEPT !.pc = "broken"]
<1>1. runner[r] \in Running /\ runner[r].pc \in {"work", "flush"}
  BY SessionTypes DEF DatabaseFails, RunsInv, HasRow
<1>2. Goes(r, step) /\ UNCHANGED <<databaseRows, paid>>
  BY DEF DatabaseFails
<1>3. /\ step \in Running /\ step.pc = "broken"
      /\ step.key = runner[r].key /\ step.agent = runner[r].agent
  BY <1>1 DEF Running, Holding
<1>. QED
  BY <1>1, <1>2, <1>3, WorkInv DEF AtWork

\* The first use of paid services: the row under the key is this session's, so nothing
\* was paid for it before, or it was undone.
LEMMA BeginInv ==
    ASSUME RunsInv, NEW r \in Runners, Begin(r)
    PROVE  RunsInv'
<1>. USE DEF RunsInv, databaseRows
<1>1. runner[r] \in Running /\ runner[r].pc = "begin" /\ HasRow(r)
  BY SessionTypes DEF Begin, HasRow
<1>. PICK k \in RunKeys : k = runner[r].key
  BY <1>1 DEF Running
<1>2. PICK found \in Found(r) : Goes(r, [runner[r] EXCEPT !.pc = "work", !.left = found])
  BY DEF Begin
<1>. DEFINE step == [runner[r] EXCEPT !.pc = "work", !.left = found]
<1>3. /\ paid' = [paid EXCEPT ![k] = IF runner[r].agent = "report" THEN @ ELSE @ + 1]
      /\ UNCHANGED <<runOf, companies, audits, reports>>
  BY DEF Begin
<1>4. InShare(runner[r]) /\ runner[r].made = {} /\ runner[r].agent \in RunAgents
      /\ runner[r].cap \in Nat /\ runner[r].stored \in Nat
  BY <1>1, AgentRunsAssumption DEF SharesKept, AtWork, InShare, Running
<1>5. /\ found \in SUBSET Domains
      /\ runner[r].agent = "audit" => Cardinality(found) <= runner[r].cap
  <2>1. companies \subseteq Domains
    BY DEF AgentRunsTypeOK, CompanyRows
  <2>2. CASE runner[r].agent = "research"
    BY <1>2, <2>2 DEF Found
  <2>3. CASE runner[r].agent = "audit"
    BY <1>2, <2>1, <2>3 DEF Found
  <2>4. CASE runner[r].agent = "report"
    BY <1>2, <2>4 DEF Found
  <2>. QED
    BY <1>4, <2>2, <2>3, <2>4 DEF RunAgents
<1>6. step \in Running /\ step \in Sessions
  BY <1>1, <1>5 DEF Running, Holding, Sessions
<1>7. /\ step.made = {} /\ step.left = found /\ step.agent = runner[r].agent
      /\ step.pc = "work" /\ step.cap = runner[r].cap /\ step.stored = runner[r].stored
      /\ step.key = k
  BY <1>1, <1>4 DEF Running
<1>8. runner'[r] = step /\ \A q \in Runners : q # r => runner'[q] = runner[q]
  BY <1>2, OneMoves
<1>9. AgentRunsTypeOK'
  <2>1. runner' \in [Runners -> Sessions]
    BY <1>2, <1>6, OneMoves
  <2>2. paid' \in [RunKeys -> Nat]
    BY <1>3, <1>4 DEF AgentRunsTypeOK
  <2>. QED
    BY <1>3, <2>1, <2>2 DEF AgentRunsTypeOK, Sessions, Waiting, Marking, Running, Holding
<1>10. InShare(step)
  <2>1. Cardinality(found) \in Nat
    BY <1>5, AgentRunsAssumption, FS_Subset, FS_CardinalityType
  <2>2. Cardinality(step.made) = 0
    BY <1>7, FS_EmptySet
  <2>3. runner[r].agent = "research" => runner[r].stored <= runner[r].cap
    BY <1>4 DEF InShare
  <2>4. runner[r].agent = "research" => Cardinality(step.made) <= step.stored
                                        /\ step.stored <= step.cap
    BY <1>4, <1>7, <2>2, <2>3
  <2>5. runner[r].agent = "audit" => Cardinality(step.made) + Cardinality(step.left) <= step.cap
    BY <1>4, <1>5, <1>7, <2>1, <2>2
  <2>. QED
    BY <1>7, <2>4, <2>5 DEF InShare
<1>11. SharesKept'
  BY <1>8, <1>10 DEF SharesKept
<1>12. HeldOnce' /\ HeldIsFree'
  <2>1. \A q \in Runners : (HasRow(q)' <=> HasRow(q)) /\ runner'[q].key = runner[q].key
    BY <1>1, <1>7, <1>8 DEF HasRow
  <2>. QED
    BY <1>3, <2>1 DEF HeldOnce, HeldIsFree
<1>13. runOf[k] = NoRow /\ \A q \in Runners : ~Spends(q, k)
  BY <1>1, <1>4 DEF HeldIsFree, HeldOnce, Spends, HasRow, Holding
<1>14. ASSUME NEW x \in RunKeys
       PROVE  /\ paid'[x] <= 1
              /\ runOf'[x] = NoRow => (paid'[x] = 1 <=> \E q \in Runners : Spends(q, x)')
  <2>1. CASE x = k
    <3>1. paid[k] = 0
      BY <1>4, <1>13 DEF PaidIsHeld, AgentRunsTypeOK
    <3>2. Spends(r, k)' <=> runner[r].agent # "report"
      BY <1>7, <1>8 DEF Spends, Holding
    <3>3. \A q \in Runners : q # r => ~Spends(q, k)'
      BY <1>8, <1>13 DEF Spends
    <3>4. paid'[k] = IF runner[r].agent = "report" THEN 0 ELSE 1
      BY <1>3, <1>4, <3>1 DEF AgentRunsTypeOK
    <3>5. runner[r].agent = "report" => paid'[k] = 0 /\ ~\E q \in Runners : Spends(q, k)'
      BY <3>2, <3>3, <3>4
    <3>6. runner[r].agent # "report" => paid'[k] = 1 /\ \E q \in Runners : Spends(q, k)'
      BY <3>2, <3>4
    <3>. QED
      BY <2>1, <3>5, <3>6
  <2>2. CASE x # k
    <3>1. \A q \in Runners : Spends(q, x)' <=> Spends(q, x)
      BY <1>1, <1>7, <1>8, <2>2 DEF Spends, Holding
    <3>2. paid'[x] = paid[x] /\ runOf'[x] = runOf[x]
      BY <1>3, <2>2 DEF AgentRunsTypeOK
    <3>. QED
      BY <3>1, <3>2 DEF PaidIsHeld
  <2>. QED
    BY <2>1, <2>2
<1>. QED
  BY <1>9, <1>11, <1>12, <1>14 DEF PaidIsHeld

\* A session that ends, or goes on to mark its failure, takes back what it had begun.
LEMMA UndoneInv ==
    ASSUME RunsInv, NEW r \in Runners, NEW step \in {Unoccupied} \cup Marking, Goes(r, step),
           Undone(r), UNCHANGED databaseRows
    PROVE  RunsInv'
<1>. USE DEF RunsInv, databaseRows
<1>1. step \in Sessions /\ step.pc \in {"idle", "mark"}
  BY DEF Sessions, Marking, Unoccupied
<1>2. runner'[r] = step /\ \A q \in Runners : q # r => runner'[q] = runner[q]
  BY OneMoves
<1>3. ASSUME NEW x \in RunKeys PROVE ~Spends(r, x)'
  BY <1>1, <1>2 DEF Spends, Holding
<1>4. ASSUME NEW x \in RunKeys, ~Spends(r, x) PROVE paid'[x] = paid[x]
  BY <1>4 DEF Undone, Spends, Holding, AgentRunsTypeOK
<1>5. ASSUME NEW x \in RunKeys, Spends(r, x)
      PROVE  paid[x] = 1 /\ paid'[x] = 0 /\ \A q \in Runners : ~Spends(q, x)'
  <2>1. HasRow(r) /\ runner[r].key = x /\ runOf[x] = NoRow
    BY <1>5 DEF Spends, HasRow, Holding, HeldIsFree
  <2>2. paid[x] = 1
    BY <1>5, <2>1 DEF PaidIsHeld
  <2>3. paid'[x] = 0
    BY <1>5, <2>2 DEF Undone, Spends, Holding, AgentRunsTypeOK
  <2>4. \A q \in Runners : q # r => ~Spends(q, x)'
    BY <1>2, <2>1 DEF HeldOnce, Spends, HasRow, Holding
  <2>. QED
    BY <1>3, <2>2, <2>3, <2>4
<1>6. AgentRunsTypeOK'
  <2>1. runner' \in [Runners -> Sessions]
    BY <1>1, OneMoves
  <2>2. \A x \in RunKeys : paid'[x] \in Nat
    BY <1>4, <1>5 DEF AgentRunsTypeOK
  <2>3. paid' \in [RunKeys -> Nat]
    BY <2>2 DEF Undone, AgentRunsTypeOK
  <2>. QED
    BY <2>1, <2>3 DEF AgentRunsTypeOK, Sessions, Waiting, Marking, Running, Holding
<1>7. SharesKept'
  BY <1>1, <1>2 DEF SharesKept, AtWork
<1>8. HeldOnce' /\ HeldIsFree'
  <2>1. ~HasRow(r)' /\ \A q \in Runners : HasRow(q)' => HasRow(q) /\ runner'[q] = runner[q]
    BY <1>1, <1>2 DEF HasRow
  <2>. QED
    BY <2>1 DEF HeldOnce, HeldIsFree
<1>9. ASSUME NEW x \in RunKeys
      PROVE  /\ paid'[x] <= 1
             /\ runOf'[x] = NoRow => (paid'[x] = 1 <=> \E q \in Runners : Spends(q, x)')
  <2>1. CASE Spends(r, x)
    BY <1>5, <2>1
  <2>2. CASE ~Spends(r, x)
    <3>1. \A q \in Runners : Spends(q, x)' <=> Spends(q, x)
      BY <1>2, <1>3, <2>2 DEF Spends
    <3>. QED
      BY <1>4, <2>2, <3>1 DEF PaidIsHeld
  <2>. QED
    BY <2>1, <2>2
<1>. QED
  BY <1>6, <1>7, <1>8, <1>9 DEF PaidIsHeld

\* A row is committed: by the session that holds its key, or for a key nobody holds.
LEMMA CommittedInv ==
    ASSUME RunsInv, NEW r \in Runners, NEW k \in RunKeys, NEW row \in RunRows \ {NoRow},
           runner[r].key = k, Goes(r, Unoccupied), HoldersOfKey(r, k) = {},
           runOf' = [runOf EXCEPT ![k] = row],
           companies' \in CompanyRows, audits' \in Nat, reports' \in ReportRows,
           UNCHANGED paid
    PROVE  RunsInv'
<1>. USE DEF RunsInv
<1>1. runner'[r] = Unoccupied /\ \A q \in Runners : q # r => runner'[q] = runner[q]
  BY OneMoves
<1>2. AgentRunsTypeOK'
  <2>1. runner' \in [Runners -> Sessions]
    BY OneMoves DEF Sessions
  <2>2. runOf' \in [RunKeys -> RunRows]
    BY DEF AgentRunsTypeOK
  <2>. QED
    BY <2>1, <2>2 DEF AgentRunsTypeOK, Sessions, Waiting, Marking, Running, Holding
<1>3. SharesKept'
  BY <1>1 DEF SharesKept, AtWork, Unoccupied
<1>4. /\ ~HasRow(r)'
      /\ \A q \in Runners : HasRow(q)' =>
            HasRow(q) /\ runner'[q] = runner[q] /\ runner[q].key # k
  BY <1>1 DEF HasRow, HoldersOfKey, Unoccupied
<1>5. HeldOnce' /\ HeldIsFree'
  <2>1. HeldOnce'
    BY <1>4 DEF HeldOnce
  <2>2. ASSUME NEW q \in Runners, HasRow(q)' PROVE runOf'[runner'[q].key] = NoRow
    <3>1. runner[q].key \in RunKeys
      BY <1>4, <2>2, SessionTypes DEF Running
    <3>. QED
      BY <1>4, <2>2, <3>1 DEF HeldIsFree, AgentRunsTypeOK
  <2>. QED
    BY <2>1, <2>2 DEF HeldIsFree
<1>6. ASSUME NEW x \in RunKeys
      PROVE  /\ paid'[x] <= 1
             /\ runOf'[x] = NoRow => (paid'[x] = 1 <=> \E q \in Runners : Spends(q, x)')
  <2>1. CASE x = k
    BY <2>1 DEF PaidIsHeld, AgentRunsTypeOK
  <2>2. CASE x # k
    <3>1. \A q \in Runners : Spends(q, x)' <=> Spends(q, x)
      BY <1>1, <2>2 DEF Spends, Unoccupied, Holding
    <3>2. runOf'[x] = runOf[x]
      BY <2>2 DEF AgentRunsTypeOK
    <3>. QED
      BY <3>1, <3>2 DEF PaidIsHeld
  <2>. QED
    BY <2>1, <2>2
<1>. QED
  BY <1>2, <1>3, <1>5, <1>6 DEF PaidIsHeld

\* The key of a run that commits has no row yet, and no other session holds it.
LEMMA CommitRunInv ==
    ASSUME RunsInv, NEW r \in Runners, NEW status \in {"succeeded", "failed"},
           runner[r].pc = "work", CommitRun(r, status), reports' \in ReportRows
    PROVE  RunsInv' /\ runOf[runner[r].key] = NoRow
<1>. USE DEF RunsInv
<1>1. runner[r] \in Running /\ HasRow(r)
  BY SessionTypes DEF HasRow
<1>. DEFINE row == [agent |-> runner[r].agent, status |-> status]
<1>2. row \in RunRows \ {NoRow} /\ runner[r].key \in RunKeys
  BY <1>1 DEF Running, RunRows, RunAgents, NoRow
<1>3. HoldersOfKey(r, runner[r].key) = {} /\ runOf[runner[r].key] = NoRow
  BY <1>1 DEF HeldOnce, HeldIsFree, HoldersOfKey
<1>4. companies' \in CompanyRows
  BY <1>1 DEF CommitRun, AgentRunsTypeOK, CompanyRows, Running
<1>5. audits' \in Nat
  BY <1>1, MadeIsFinite DEF CommitRun, AgentRunsTypeOK
<1>. QED
  BY <1>2, <1>3, <1>4, <1>5, CommittedInv DEF CommitRun

LEMMA MarkInv ==
    ASSUME RunsInv, NEW r \in Runners, Mark(r)
    PROVE  RunsInv'
<1>. USE DEF RunsInv
<1>1. runner[r] \in Marking /\ runner[r].key \in RunKeys
  BY SessionTypes DEF Mark, Marking
<1>2. CASE runOf[runner[r].key] = NoRow
  <2>1. [agent |-> "research", status |-> "failed"] \in RunRows \ {NoRow}
    BY DEF RunRows, RunAgents, NoRow
  <2>2. companies' \in CompanyRows /\ audits' \in Nat /\ reports' \in ReportRows
    BY DEF Mark, AgentRunsTypeOK
  <2>. QED
    BY <1>1, <1>2, <2>1, <2>2, CommittedInv DEF Mark
<1>3. CASE runOf[runner[r].key] # NoRow
  <2>1. UNCHANGED <<databaseRows, paid>> /\ Goes(r, Unoccupied) /\ Unoccupied \in Sessions
    BY <1>3 DEF Mark, databaseRows, Sessions
  <2>2. runner'[r] = Unoccupied
    BY <2>1, OneMoves
  <2>. QED
    BY <1>1, <2>1, <2>2, QuietInv DEF Spends, Holding, AtWork, Unoccupied, Marking
<1>. QED
  BY <1>2, <1>3

LEMMA RunsInitInv == AgentRunsInit => RunsInv
<1>. SUFFICES ASSUME AgentRunsInit PROVE RunsInv
  OBVIOUS
<1>. USE DEF AgentRunsInit
<1>1. AgentRunsTypeOK
  BY DEF AgentRunsTypeOK, RunRows, CompanyRows, ReportRows
<1>2. \A r \in Runners : runner[r].pc = "idle"
  BY DEF Unoccupied
<1>3. SharesKept /\ HeldOnce /\ HeldIsFree
  BY <1>2 DEF SharesKept, HeldOnce, HeldIsFree, HasRow, AtWork
<1>4. PaidIsHeld
  BY <1>2 DEF PaidIsHeld, Spends, Holding
<1>. QED
  BY <1>1, <1>3, <1>4 DEF RunsInv

\* Whatever any session does keeps the invariant, and what is committed for a key.
LEMMA RunsNextInv ==
    ASSUME RunsInv, [AgentRunsNext]_agentRunsVars
    PROVE  RunsInv' /\ \A k \in RunKeys : runOf[k] # NoRow => runOf'[k] = runOf[k]
<1>. USE DEF RunsInv
<1>1. ASSUME NEW r \in Runners, NEW k \in RunKeys,
             \/ \E kind \in {"research", "audit"} : ReadCapacity(r, kind, k)
             \/ StartReport(r, k)
      PROVE  RunsInv' /\ UNCHANGED runOf
  BY <1>1, ReadCapacityInv, StartReportInv DEF ReadCapacity, StartReport, databaseRows
<1>2. ASSUME NEW r \in Runners, LookUpRun(r) \/ InsertRun(r)
      PROVE  RunsInv' /\ UNCHANGED runOf
  BY <1>2, LookUpRunInv, InsertRunInv DEF LookUpRun, InsertRun, databaseRows
<1>3. ASSUME NEW r \in Runners, NEW d \in Domains, Persist(r, d) \/ AuditCompany(r, d)
      PROVE  RunsInv' /\ UNCHANGED runOf
  BY <1>3, PersistInv, AuditCompanyInv DEF Persist, AuditCompany, databaseRows
<1>4. ASSUME NEW r \in Runners, Begin(r) \/ FlushCompany(r) \/ DatabaseFails(r)
      PROVE  RunsInv' /\ UNCHANGED runOf
  BY <1>4, BeginInv, FlushCompanyInv, DatabaseFailsInv
     DEF Begin, FlushCompany, DatabaseFails, databaseRows
<1>5. ASSUME NEW r \in Runners, FinishRun(r) \/ FailRun(r)
      PROVE  RunsInv' /\ \A k \in RunKeys : runOf[k] # NoRow => runOf'[k] = runOf[k]
  <2>1. runner[r] \in Running /\ runner[r].pc = "work"
    BY <1>5, SessionTypes DEF FinishRun, FailRun, HasRow
  <2>2. reports' \in ReportRows
    BY <1>5, <2>1 DEF FinishRun, FailRun, AgentRunsTypeOK, ReportRows, Running
  <2>3. PICK status \in {"succeeded", "failed"} : CommitRun(r, status)
    BY <1>5 DEF FinishRun, FailRun
  <2>4. RunsInv' /\ runOf[runner[r].key] = NoRow
    BY <2>1, <2>2, <2>3, CommitRunInv
  <2>. QED
    BY <2>3, <2>4 DEF CommitRun, AgentRunsTypeOK
<1>6. ASSUME NEW r \in Runners, RollBack(r)
      PROVE  RunsInv' /\ UNCHANGED runOf
  <2>. DEFINE step == IF runner[r].agent = "research"
                      THEN [pc |-> "mark", agent |-> "research", key |-> runner[r].key]
                      ELSE Unoccupied
  <2>1. runner[r] \in Running
    BY <1>6, SessionTypes DEF RollBack, HasRow
  <2>2. step \in {Unoccupied} \cup Marking
    BY <2>1 DEF Running, Marking
  <2>. QED
    BY <1>6, <2>2, UndoneInv DEF RollBack, databaseRows
<1>7. ASSUME NEW r \in Runners, Mark(r)
      PROVE  RunsInv' /\ \A k \in RunKeys : runOf[k] # NoRow => runOf'[k] = runOf[k]
  BY <1>7, MarkInv DEF Mark, AgentRunsTypeOK
<1>8. ASSUME NEW r \in Runners, RunLost(r)
      PROVE  RunsInv' /\ UNCHANGED runOf
  BY <1>8, UndoneInv DEF RunLost, databaseRows
<1>9. CASE UNCHANGED agentRunsVars
  <2>1. UNCHANGED <<runOf, companies, audits, reports, runner, paid>>
    BY <1>9 DEF agentRunsVars, databaseRows
  <2>2. AgentRunsTypeOK' /\ SharesKept' /\ HeldOnce' /\ HeldIsFree'
    BY <2>1 DEF AgentRunsTypeOK, SharesKept, HeldOnce, HeldIsFree, HasRow
  <2>3. PaidIsHeld'
    BY <2>1 DEF PaidIsHeld, Spends
  <2>. QED
    BY <2>1, <2>2, <2>3
<1>. QED
  BY <1>1, <1>2, <1>3, <1>4, <1>5, <1>6, <1>7, <1>8, <1>9 DEF AgentRunsNext

LEMMA RunsInductive == AgentRunsSpec => []RunsInv
<1>1. RunsInv /\ [AgentRunsNext]_agentRunsVars => RunsInv'
  BY RunsNextInv
<1>. QED
  BY <1>1, RunsInitInv, PTL DEF AgentRunsSpec

\* The rows and the sessions of the agents' runs keep their types; in particular no run
\* stores more than its share.
THEOREM RunsTypeCorrect == AgentRunsSpec => []AgentRunsTypeOK
<1>1. RunsInv => AgentRunsTypeOK
  BY DEF RunsInv
<1>. QED
  BY <1>1, RunsInductive, PTL

\* Requests that race for a key pay for search, browser and AI at most once, unless what
\* they had begun was rolled back.
THEOREM PaidOnce == AgentRunsSpec => []PaidOncePerKey
<1>1. RunsInv => PaidOncePerKey
  BY DEF RunsInv, PaidIsHeld, PaidOncePerKey
<1>. QED
  BY <1>1, RunsInductive, PTL

\* The outcome committed for a key stays, whatever failures are recorded later.
THEOREM OutcomesStay == AgentRunsSpec => OutcomeIsFinal
<1>1. RunsInv /\ [AgentRunsNext]_agentRunsVars
        => [\A k \in RunKeys : runOf[k] # NoRow => runOf'[k] = runOf[k]]_agentRunsVars
  BY RunsNextInv
<1>. QED
  BY <1>1, RunsInductive, PTL DEF AgentRunsSpec, OutcomeIsFinal

----------------------------------------------------------------------------
(* The room of the day.  The session that read the room last found that    *)
(* what is stored leaves its share; all the others have at most a run's    *)
(* limit each in hand.                                                     *)

\* Sessions of an agent that may still store something.
ActiveOf(kind) ==
    {r \in Runners : /\ runner[r].pc \in {"lookup", "insert"} \cup AtWork
                     /\ runner[r].agent = kind}

Most == RunsPerDay + (Cardinality(Runners) - 1) * RunLimit

\* What is stored, the share of one session and a run's limit for every other active one.
InHand(total, active, at, last) ==
    total + (IF last \in active THEN at[last].cap ELSE 0)
          + RunLimit * Cardinality(active \ {last})

Shares(total, active, at) == \E last \in Runners : InHand(total, active, at, last) <= Most

LEMMA LimitTimes ==
    ASSUME NEW m \in Nat, NEW n \in Nat, m <= n
    PROVE  /\ RunLimit * m \in Nat /\ RunLimit * n \in Nat
           /\ RunLimit * m <= RunLimit * n
           /\ m + 1 <= n => RunLimit * m + RunLimit <= RunLimit * n
<1>1. RunLimit \in Nat
  BY AgentRunsAssumption
<1>2. PICK d \in Nat : n = m + d
  <2>1. n - m \in Nat /\ n = m + (n - m)
    OBVIOUS
  <2>. QED
    BY <2>1
<1>3. RunLimit * n = RunLimit * m + RunLimit * d
  BY <1>1, <1>2
<1>4. RunLimit * m \in Nat /\ RunLimit * n \in Nat /\ RunLimit * d \in Nat
  BY <1>1, <1>2
<1>5. CASE d = 0
  BY <1>1, <1>2, <1>5
<1>6. CASE d # 0
  <2>1. d - 1 \in Nat /\ RunLimit * d = RunLimit * (d - 1) + RunLimit
    BY <1>1, <1>2, <1>6
  <2>2. RunLimit * (d - 1) \in Nat
    BY <1>1, <2>1
  <2>. QED
    BY <1>1, <1>3, <1>4, <2>1, <2>2
<1>. QED
  BY <1>5, <1>6

LEMMA ActiveFinite ==
    ASSUME NEW active \in SUBSET Runners
    PROVE  /\ IsFiniteSet(active) /\ Cardinality(active) \in Nat
           /\ Cardinality(active) <= Cardinality(Runners)
           /\ Cardinality(Runners) \in Nat
BY AgentRunsAssumption, FS_Subset, FS_CardinalityType

Caps(active, at) == \A r \in active : at[r].cap \in 0..RunLimit

\* Nothing more is stored, and no session becomes active.
LEMMA SharesLess ==
    ASSUME NEW total \in Nat, NEW active \in SUBSET Runners, NEW at, Caps(active, at),
           Shares(total, active, at),
           NEW total2 \in Nat, total2 <= total, NEW active2 \in SUBSET active, NEW at2,
           \A r \in active2 : at2[r].cap = at[r].cap
    PROVE  Shares(total2, active2, at2)
<1>. PICK last \in Runners : InHand(total, active, at, last) <= Most
  BY DEF Shares
<1>. DEFINE more == IF last \in active THEN at[last].cap ELSE 0
            less == IF last \in active2 THEN at2[last].cap ELSE 0
            m == Cardinality(active2 \ {last})
            n == Cardinality(active \ {last})
<1>0. RunLimit \in Nat /\ Most \in Int
  BY AgentRunsAssumption, ActiveFinite DEF Most
<1>1. more \in Nat /\ less \in Nat /\ less <= more
  BY <1>0 DEF Caps
<1>2. m \in Nat /\ n \in Nat /\ m <= n
  <2>1. active2 \ {last} \in SUBSET (active \ {last}) /\ active \ {last} \in SUBSET Runners
    OBVIOUS
  <2>2. IsFiniteSet(active \ {last})
    BY <2>1, ActiveFinite
  <2>. QED
    BY <2>1, <2>2, FS_Subset, FS_CardinalityType
<1>3. RunLimit * m \in Nat /\ RunLimit * n \in Nat /\ RunLimit * m <= RunLimit * n
  BY <1>2, LimitTimes
<1>4. total + more + RunLimit * n <= Most
  BY DEF InHand
<1>. HIDE DEF more, less, m, n
<1>5. total2 + less + RunLimit * m <= Most
  BY <1>0, <1>1, <1>3, <1>4
<1>. QED
  BY <1>5 DEF Shares, InHand, less, m

\* A session stores within its share, and is done.
LEMMA SharesSpent ==
    ASSUME NEW total \in Nat, NEW active \in SUBSET Runners, NEW at, Caps(active, at),
           Shares(total, active, at),
           NEW r \in active, NEW total2 \in Nat, total2 <= total + at[r].cap,
           NEW active2 \in SUBSET (active \ {r}), NEW at2,
           \A q \in active2 : at2[q].cap = at[q].cap
    PROVE  Shares(total2, active2, at2)
<1>. PICK last \in Runners : InHand(total, active, at, last) <= Most
  BY DEF Shares
<1>. DEFINE more == IF last \in active THEN at[last].cap ELSE 0
            less == IF last \in active2 THEN at2[last].cap ELSE 0
            m == Cardinality(active2 \ {last})
            n == Cardinality(active \ {last})
<1>0. RunLimit \in Nat /\ Most \in Int
  BY AgentRunsAssumption, ActiveFinite DEF Most
<1>1. more \in Nat /\ less \in Nat /\ at[r].cap \in Nat /\ at[r].cap <= RunLimit
  BY <1>0 DEF Caps
<1>2. m \in Nat /\ n \in Nat /\ m <= n
  <2>1. active2 \ {last} \in SUBSET (active \ {last}) /\ active \ {last} \in SUBSET Runners
    OBVIOUS
  <2>2. IsFiniteSet(active \ {last})
    BY <2>1, ActiveFinite
  <2>. QED
    BY <2>1, <2>2, FS_Subset, FS_CardinalityType
<1>3. total + more + RunLimit * n <= Most
  BY DEF InHand
<1>4. CASE r = last
  <2>1. more = at[r].cap /\ less = 0
    BY <1>4
  <2>2. RunLimit * m \in Nat /\ RunLimit * n \in Nat /\ RunLimit * m <= RunLimit * n
    BY <1>2, LimitTimes
  <2>. HIDE DEF more, less, m, n
  <2>3. total2 + less + RunLimit * m <= Most
    BY <1>0, <1>1, <1>3, <2>1, <2>2
  <2>. QED
    BY <2>3 DEF Shares, InHand, less, m
<1>5. CASE r # last
  <2>1. less <= more
    BY <1>1
  <2>2. m + 1 <= n
    <3>1. IsFiniteSet(active \ {last}) /\ r \in active \ {last}
      BY <1>5, ActiveFinite
    <3>2. IsFiniteSet((active \ {last}) \ {r})
          /\ Cardinality((active \ {last}) \ {r}) = n - 1
      BY <3>1, FS_RemoveElement
    <3>3. active2 \ {last} \in SUBSET ((active \ {last}) \ {r})
      OBVIOUS
    <3>4. m <= n - 1
      BY <3>2, <3>3, FS_Subset
    <3>. QED
      BY <1>2, <3>4
  <2>3. /\ RunLimit * m \in Nat /\ RunLimit * n \in Nat
        /\ RunLimit * m + RunLimit <= RunLimit * n
    BY <1>2, <2>2, LimitTimes
  <2>. HIDE DEF more, less, m, n
  <2>4. total2 + less + RunLimit * m <= Most
    BY <1>0, <1>1, <1>3, <2>1, <2>3
  <2>. QED
    BY <2>4 DEF Shares, InHand, less, m
<1>. QED
  BY <1>4, <1>5

\* A session reads the room: its share is within what the day leaves.
LEMMA SharesRead ==
    ASSUME NEW r \in Runners, NEW total \in Nat, NEW active \in SUBSET Runners, NEW at,
           at[r].cap \in Nat, total + at[r].cap <= RunsPerDay
    PROVE  Shares(total, active, at)
<1>. DEFINE share == IF r \in active THEN at[r].cap ELSE 0
            n == Cardinality(active \ {r})
            all == Cardinality(Runners) - 1
<1>1. n \in Nat /\ all \in Nat /\ n <= all
  <2>1. /\ IsFiniteSet(Runners \ {r})
        /\ Cardinality(Runners \ {r}) = all
    BY AgentRunsAssumption, FS_RemoveElement
  <2>2. active \ {r} \in SUBSET (Runners \ {r})
    OBVIOUS
  <2>. QED
    BY <2>1, <2>2, FS_Subset, FS_CardinalityType
<1>2. RunLimit * n \in Nat /\ RunLimit * all \in Nat /\ RunLimit * n <= RunLimit * all
  BY <1>1, LimitTimes
<1>3. Most = RunsPerDay + RunLimit * all /\ RunsPerDay \in Nat
  <2>1. RunLimit \in Nat
    BY AgentRunsAssumption
  <2>. QED
    BY <1>1, <2>1, AgentRunsAssumption DEF Most
<1>4. share \in Nat /\ share <= at[r].cap
  OBVIOUS
<1>. HIDE DEF share, n, all
<1>5. total + share + RunLimit * n <= Most
  BY <1>2, <1>3, <1>4
<1>. QED
  BY <1>5 DEF Shares, InHand, share, n

LEMMA SharesBound ==
    ASSUME NEW total \in Nat, NEW active \in SUBSET Runners, NEW at, Caps(active, at),
           Shares(total, active, at)
    PROVE  total <= Most
<1>. PICK last \in Runners : InHand(total, active, at, last) <= Most
  BY DEF Shares
<1>. DEFINE more == IF last \in active THEN at[last].cap ELSE 0
            n == Cardinality(active \ {last})
<1>1. more \in Nat /\ n \in Nat /\ RunLimit \in Nat /\ Most \in Int
  BY AgentRunsAssumption, ActiveFinite DEF Caps, Most
<1>2. RunLimit * n \in Nat
  BY <1>1, LimitTimes
<1>3. total + more + RunLimit * n <= Most
  BY DEF InHand
<1>. HIDE DEF more, n
<1>. QED
  BY <1>1, <1>2, <1>3

StoredInv ==
    /\ Shares(Cardinality(companies), ActiveOf("research"), runner)
    /\ Shares(audits, ActiveOf("audit"), runner)

Active == {"lookup", "insert"} \cup AtWork

LEMMA ActiveCaps ==
    ASSUME AgentRunsTypeOK, NEW kind
    PROVE  /\ ActiveOf(kind) \in SUBSET Runners
           /\ Caps(ActiveOf(kind), runner)
           /\ Cardinality(companies) \in Nat /\ audits \in Nat
<1>1. \A r \in ActiveOf(kind) : runner[r].cap \in 0..RunLimit
  BY SessionTypes DEF ActiveOf, AtWork, HasRow, Waiting, Running
<1>2. Cardinality(companies) \in Nat /\ audits \in Nat
  BY AgentRunsAssumption, FS_Subset, FS_CardinalityType DEF AgentRunsTypeOK, CompanyRows
<1>. QED
  BY <1>1, <1>2 DEF Caps, ActiveOf

\* Nothing is stored, and no session becomes active or takes a larger share.
LEMMA StoredLess ==
    ASSUME RunsInv, NEW kind, NEW total \in Nat, Shares(total, ActiveOf(kind), runner),
           \A q \in Runners : runner'[q].pc \in Active /\ runner'[q].agent = kind =>
                runner[q].pc \in Active /\ runner[q].agent = kind
                    /\ runner'[q].cap = runner[q].cap
    PROVE  Shares(total, ActiveOf(kind)', runner')
<1>1. ActiveOf(kind)' \in SUBSET ActiveOf(kind)
      /\ \A q \in ActiveOf(kind)' : runner'[q].cap = runner[q].cap
  BY DEF ActiveOf, Active
<1>2. ActiveOf(kind) \in SUBSET Runners /\ Caps(ActiveOf(kind), runner)
  BY ActiveCaps DEF RunsInv
<1>3. total <= total
  OBVIOUS
<1>. QED
  BY <1>1, <1>2, <1>3, SharesLess

\* A session moves, and is no more active than it was.
LEMMA StoredQuiet ==
    ASSUME RunsInv, StoredInv, NEW r \in Runners, NEW step, Goes(r, step),
           step.pc \in Active =>
                runner[r].pc \in Active /\ step.agent = runner[r].agent
                    /\ step.cap = runner[r].cap,
           UNCHANGED <<companies, audits>>
    PROVE  StoredInv'
<1>1. runner'[r] = step /\ \A q \in Runners : q # r => runner'[q] = runner[q]
  BY OneMoves DEF RunsInv
<1>2. Cardinality(companies) \in Nat /\ audits \in Nat
  BY ActiveCaps DEF RunsInv
<1>3. ASSUME NEW kind, NEW q \in Runners, runner'[q].pc \in Active, runner'[q].agent = kind
      PROVE  /\ runner[q].pc \in Active /\ runner[q].agent = kind
             /\ runner'[q].cap = runner[q].cap
  BY <1>1, <1>3
<1>4. Shares(Cardinality(companies), ActiveOf("research")', runner')
  BY <1>2, <1>3, StoredLess DEF StoredInv
<1>5. Shares(audits, ActiveOf("audit")', runner')
  BY <1>2, <1>3, StoredLess DEF StoredInv
<1>. QED
  BY <1>4, <1>5 DEF StoredInv

LEMMA StoredRead ==
    ASSUME RunsInv, StoredInv, NEW r \in Runners, NEW kind \in {"research", "audit"},
           NEW k \in RunKeys, ReadCapacity(r, kind, k)
    PROVE  StoredInv'
<1>. DEFINE step == [pc |-> "lookup", agent |-> kind, key |-> k,
                     cap |-> Min({RunLimit, Remaining(kind)})]
            total == IF kind = "research" THEN Cardinality(companies) ELSE audits
            other == IF kind = "research" THEN "audit" ELSE "research"
            rest == IF kind = "research" THEN audits ELSE Cardinality(companies)
<1>1. /\ runner'[r] = step /\ \A q \in Runners : q # r => runner'[q] = runner[q]
      /\ UNCHANGED <<companies, audits>>
  BY OneMoves DEF RunsInv, ReadCapacity, databaseRows
<1>2. total \in Nat /\ rest \in Nat
  BY ActiveCaps DEF RunsInv
<1>3. step.cap \in 0..RunLimit /\ total + step.cap <= RunsPerDay
  <2>1. step.cap \in 0..RunLimit /\ step.cap <= Remaining(kind) /\ Remaining(kind) > 0
    BY RoomType DEF RunsInv, ReadCapacity
  <2>2. Remaining(kind) = RunsPerDay - total /\ RunsPerDay \in Nat /\ RunLimit \in Nat
    BY <1>2, <2>1, AgentRunsAssumption DEF Remaining
  <2>. QED
    BY <1>2, <2>1, <2>2
<1>. HIDE DEF step
<1>4. Shares(total, ActiveOf(kind)', runner')
  <2>1. ActiveOf(kind)' \in SUBSET Runners
    BY DEF ActiveOf
  <2>2. runner'[r].cap \in Nat /\ total + runner'[r].cap <= RunsPerDay
    BY <1>1, <1>3
  <2>. QED
    BY <1>2, <2>1, <2>2, SharesRead
<1>5. Shares(rest, ActiveOf(other)', runner')
  <2>1. Shares(rest, ActiveOf(other), runner)
    BY DEF StoredInv
  <2>2. \A q \in Runners : runner'[q].pc \in Active /\ runner'[q].agent = other =>
            runner[q].pc \in Active /\ runner[q].agent = other
                /\ runner'[q].cap = runner[q].cap
    BY <1>1 DEF step
  <2>. QED
    BY <1>2, <2>1, <2>2, StoredLess
<1>6. CASE kind = "research"
  BY <1>1, <1>4, <1>5, <1>6 DEF StoredInv
<1>7. CASE kind = "audit"
  BY <1>1, <1>4, <1>5, <1>7 DEF StoredInv
<1>. QED
  BY <1>6, <1>7

\* A run that commits stores what it made, which is within its share.
LEMMA StoredCommit ==
    ASSUME RunsInv, StoredInv, NEW r \in Runners, NEW status, runner[r].pc = "work",
           CommitRun(r, status)
    PROVE  StoredInv'
<1>. USE DEF RunsInv
<1>1. /\ runner'[r] = Unoccupied /\ \A q \in Runners : q # r => runner'[q] = runner[q]
  BY OneMoves DEF CommitRun
<1>2. runner[r] \in Running /\ InShare(runner[r]) /\ r \in ActiveOf(runner[r].agent)
  BY SessionTypes DEF HasRow, SharesKept, AtWork, ActiveOf
<1>. DEFINE made == Cardinality(runner[r].made)
<1>3. /\ made \in Nat /\ IsFiniteSet(runner[r].made)
      /\ runner[r].cap \in Nat /\ runner[r].stored \in Nat
      /\ Cardinality(runner[r].left) \in Nat
      /\ runner[r].agent \in RunAgents
  BY <1>2, MadeIsFinite, AgentRunsAssumption DEF Running
<1>4. runner[r].agent \in {"research", "audit"} => made <= runner[r].cap
  BY <1>2, <1>3 DEF InShare
<1>5. ASSUME NEW kind, runner[r].agent = kind
      PROVE  /\ ActiveOf(kind)' \in SUBSET (ActiveOf(kind) \ {r})
             /\ \A q \in ActiveOf(kind)' : runner'[q].cap = runner[q].cap
  BY <1>1 DEF ActiveOf, Unoccupied, AtWork
<1>6. ASSUME NEW kind, NEW q \in Runners, runner'[q].pc \in Active, runner'[q].agent = kind
      PROVE  /\ runner[q].pc \in Active /\ runner[q].agent = kind
             /\ runner'[q].cap = runner[q].cap
  BY <1>1, <1>6 DEF Active, AtWork, Unoccupied
<1>7. Shares(Cardinality(companies)', ActiveOf("research")', runner')
  <2>1. CASE runner[r].agent = "research"
    <3>1. IsFiniteSet(companies)
      BY AgentRunsAssumption, FS_Subset DEF AgentRunsTypeOK, CompanyRows
    <3>2. companies' = companies \cup runner[r].made
      BY <2>1 DEF CommitRun
    <3>3. /\ Cardinality(companies) \in Nat /\ Cardinality(companies') \in Nat
          /\ Cardinality(companies') <= Cardinality(companies) + runner[r].cap
      <4>1. /\ Cardinality(companies) \in Nat
            /\ Cardinality(companies \cup runner[r].made) \in Nat
            /\ Cardinality(companies \cup runner[r].made) <= Cardinality(companies) + made
        BY <1>3, <3>1, GrowsByUnion
      <4>2. made <= runner[r].cap
        BY <1>4, <2>1
      <4>. HIDE DEF made
      <4>3. Cardinality(companies \cup runner[r].made) <= Cardinality(companies) + runner[r].cap
        BY <1>3, <4>1, <4>2
      <4>. QED
        BY <3>2, <4>1, <4>3
    <3>4. ActiveOf("research") \in SUBSET Runners /\ Caps(ActiveOf("research"), runner)
      BY ActiveCaps
    <3>5. r \in ActiveOf("research")
      BY <1>2, <2>1
    <3>6. /\ ActiveOf("research")' \in SUBSET (ActiveOf("research") \ {r})
          /\ \A q \in ActiveOf("research")' : runner'[q].cap = runner[q].cap
      BY <1>5, <2>1
    <3>7. Shares(Cardinality(companies), ActiveOf("research"), runner)
      BY DEF StoredInv
    <3>. QED
      BY <3>3, <3>4, <3>5, <3>6, <3>7, SharesSpent
  <2>2. CASE runner[r].agent # "research"
    <3>1. companies' = companies
      BY <2>2 DEF CommitRun
    <3>2. Cardinality(companies) \in Nat
      BY ActiveCaps
    <3>. QED
      BY <1>6, <3>1, <3>2, StoredLess DEF StoredInv
  <2>. QED
    BY <2>1, <2>2
<1>8. Shares(audits', ActiveOf("audit")', runner')
  <2>1. CASE runner[r].agent = "audit"
    <3>1. audits' = audits + made /\ audits \in Nat
      BY <2>1, ActiveCaps DEF CommitRun
    <3>2. audits' \in Nat /\ audits' <= audits + runner[r].cap
      BY <1>3, <1>4, <2>1, <3>1
    <3>3. ActiveOf("audit") \in SUBSET Runners /\ Caps(ActiveOf("audit"), runner)
      BY ActiveCaps
    <3>4. r \in ActiveOf("audit")
      BY <1>2, <2>1
    <3>5. /\ ActiveOf("audit")' \in SUBSET (ActiveOf("audit") \ {r})
          /\ \A q \in ActiveOf("audit")' : runner'[q].cap = runner[q].cap
      BY <1>5, <2>1
    <3>6. Shares(audits, ActiveOf("audit"), runner)
      BY DEF StoredInv
    <3>. QED
      BY <3>1, <3>2, <3>3, <3>4, <3>5, <3>6, SharesSpent
  <2>2. CASE runner[r].agent # "audit"
    <3>1. audits' = audits
      BY <2>2 DEF CommitRun
    <3>2. audits \in Nat
      BY ActiveCaps
    <3>. QED
      BY <1>6, <3>1, <3>2, StoredLess DEF StoredInv
  <2>. QED
    BY <2>1, <2>2
<1>. QED
  BY <1>7, <1>8 DEF StoredInv

LEMMA StoredInit == AgentRunsInit => StoredInv
<1>. SUFFICES ASSUME AgentRunsInit PROVE StoredInv
  OBVIOUS
<1>. USE DEF AgentRunsInit
<1>1. \A kind : ActiveOf(kind) = {}
  BY DEF ActiveOf, Unoccupied, AtWork
<1>2. PICK r \in Runners : TRUE
  BY AgentRunsAssumption
<1>3. Cardinality(companies) \in Nat /\ Cardinality(companies) <= RunsPerDay
      /\ audits = 0 /\ RunsPerDay \in Nat
  BY AgentRunsAssumption, FS_Subset, FS_CardinalityType
<1>4. ASSUME NEW total \in Nat, total <= RunsPerDay PROVE Shares(total, {}, runner)
  <2>. DEFINE none == [q \in Runners |-> [cap |-> 0]]
  <2>1. Shares(total, {}, none)
    <3>1. none[r].cap \in Nat /\ total + none[r].cap <= RunsPerDay
      BY <1>4
    <3>. QED
      BY <1>4, <3>1, SharesRead
  <2>2. Caps({}, none) /\ total <= total
    BY <1>4 DEF Caps
  <2>. QED
    BY <2>1, <2>2, SharesLess
<1>. QED
  BY <1>1, <1>3, <1>4 DEF StoredInv

LEMMA StoredNext ==
    ASSUME RunsInv, StoredInv, [AgentRunsNext]_agentRunsVars
    PROVE  StoredInv'
<1>. USE DEF databaseRows
<1>1. ASSUME NEW r \in Runners, NEW k \in RunKeys, NEW kind \in {"research", "audit"},
             ReadCapacity(r, kind, k)
      PROVE  StoredInv'
  BY <1>1, StoredRead
<1>2. ASSUME NEW r \in Runners, NEW k \in RunKeys, StartReport(r, k) PROVE StoredInv'
  <2>1. \A q \in Runners : q # r => runner'[q] = runner[q]
    BY <1>2, OneMoves DEF StartReport, RunsInv
  <2>2. runner'[r].agent = "report" /\ UNCHANGED <<companies, audits>>
    BY <1>2, OneMoves DEF StartReport, RunsInv
  <2>3. Cardinality(companies) \in Nat /\ audits \in Nat
    BY ActiveCaps DEF RunsInv
  <2>4. ASSUME NEW kind \in {"research", "audit"}, NEW q \in Runners,
               runner'[q].pc \in Active, runner'[q].agent = kind
        PROVE  /\ runner[q].pc \in Active /\ runner[q].agent = kind
               /\ runner'[q].cap = runner[q].cap
    BY <2>1, <2>2, <2>4
  <2>5. Shares(Cardinality(companies), ActiveOf("research")', runner')
    BY <2>3, <2>4, StoredLess DEF StoredInv
  <2>6. Shares(audits, ActiveOf("audit")', runner')
    BY <2>3, <2>4, StoredLess DEF StoredInv
  <2>. QED
    BY <2>2, <2>5, <2>6 DEF StoredInv
<1>3. ASSUME NEW r \in Runners, LookUpRun(r) \/ InsertRun(r) PROVE StoredInv'
  <2>1. runner[r] \in Waiting
    BY <1>3, SessionTypes DEF LookUpRun, InsertRun, RunsInv
  <2>2. PICK step : Goes(r, step) /\ step \in {Unoccupied, [runner[r] EXCEPT !.pc = "insert"],
            [pc |-> "begin", agent |-> runner[r].agent, key |-> runner[r].key,
             cap |-> runner[r].cap, left |-> {}, next |-> {}, made |-> {}, stored |-> 0]}
    BY <1>3 DEF LookUpRun, InsertRun
  <2>3. step.pc \in Active =>
            runner[r].pc \in Active /\ step.agent = runner[r].agent /\ step.cap = runner[r].cap
    BY <2>1, <2>2 DEF Active, AtWork, Waiting, Unoccupied
  <2>. QED
    BY <1>3, <2>2, <2>3, StoredQuiet DEF LookUpRun, InsertRun
<1>4. ASSUME NEW r \in Runners,
             \/ Begin(r) \/ FlushCompany(r) \/ DatabaseFails(r)
             \/ \E d \in Domains : Persist(r, d) \/ AuditCompany(r, d)
      PROVE  StoredInv'
  <2>1. runner[r] \in Running /\ runner[r].pc \in AtWork
    BY <1>4, SessionTypes DEF Begin, FlushCompany, DatabaseFails, Persist, AuditCompany,
                              RunsInv, HasRow, AtWork
  <2>2. UNCHANGED <<companies, audits>>
    BY <1>4 DEF Begin, FlushCompany, DatabaseFails, Persist, AuditCompany
  <2>3. ASSUME NEW step, Goes(r, step), step.agent = runner[r].agent, step.cap = runner[r].cap
        PROVE  StoredInv'
    BY <2>1, <2>2, <2>3, StoredQuiet DEF Active
  <2>4. CASE Begin(r)
    <3>1. PICK found : Goes(r, [runner[r] EXCEPT !.pc = "work", !.left = found])
      BY <2>4 DEF Begin
    <3>. DEFINE step == [runner[r] EXCEPT !.pc = "work", !.left = found]
    <3>2. step.agent = runner[r].agent /\ step.cap = runner[r].cap
      BY <2>1 DEF Running
    <3>. QED
      BY <2>3, <3>1, <3>2
  <2>5. CASE FlushCompany(r)
    <3>. DEFINE step == IF runner[r].next \subseteq companies
                        THEN [runner[r] EXCEPT !.pc = "broken"]
                        ELSE [runner[r] EXCEPT !.pc = "work", !.made = @ \cup runner[r].next,
                                               !.next = {}, !.stored = @ + 1]
    <3>1. step.agent = runner[r].agent /\ step.cap = runner[r].cap
      BY <2>1 DEF Running
    <3>2. Goes(r, step)
      BY <2>5 DEF FlushCompany
    <3>. HIDE DEF step
    <3>. QED
      BY <2>3, <3>1, <3>2
  <2>6. CASE DatabaseFails(r)
    <3>. DEFINE step == [runner[r] EXCEPT !.pc = "broken"]
    <3>1. step.agent = runner[r].agent /\ step.cap = runner[r].cap /\ Goes(r, step)
      BY <2>1, <2>6 DEF DatabaseFails, Running
    <3>. QED
      BY <2>3, <3>1
  <2>7. ASSUME NEW d \in Domains, Persist(r, d) PROVE StoredInv'
    <3>. DEFINE step == IF d \in companies
                        THEN [runner[r] EXCEPT !.left = @ \ {d}, !.stored = @ + 1]
                        ELSE [runner[r] EXCEPT !.pc = "flush", !.left = @ \ {d}, !.next = {d}]
    <3>1. step.agent = runner[r].agent /\ step.cap = runner[r].cap
      BY <2>1 DEF Running
    <3>2. Goes(r, step)
      BY <2>7 DEF Persist
    <3>. HIDE DEF step
    <3>. QED
      BY <2>3, <3>1, <3>2
  <2>8. ASSUME NEW d \in Domains, AuditCompany(r, d) PROVE StoredInv'
    <3>. DEFINE step == [runner[r] EXCEPT !.left = @ \ {d}, !.made = @ \cup {d}]
    <3>1. step.agent = runner[r].agent /\ step.cap = runner[r].cap /\ Goes(r, step)
      BY <2>1, <2>8 DEF AuditCompany, Running
    <3>. QED
      BY <2>3, <3>1
  <2>. QED
    BY <1>4, <2>4, <2>5, <2>6, <2>7, <2>8
<1>5. ASSUME NEW r \in Runners, FinishRun(r) \/ FailRun(r) PROVE StoredInv'
  BY <1>5, StoredCommit DEF FinishRun, FailRun
<1>6. ASSUME NEW r \in Runners, RollBack(r) \/ Mark(r) \/ RunLost(r) PROVE StoredInv'
  <2>1. PICK step : Goes(r, step) /\ step.pc \notin Active
    BY <1>6 DEF RollBack, Mark, RunLost, Unoccupied, Active, AtWork
  <2>. QED
    BY <1>6, <2>1, StoredQuiet DEF RollBack, Mark, RunLost
<1>7. CASE UNCHANGED agentRunsVars
  <2>1. UNCHANGED <<companies, audits, runner>>
    BY <1>7 DEF agentRunsVars
  <2>2. \A kind : ActiveOf(kind)' = ActiveOf(kind)
    BY <2>1 DEF ActiveOf
  <2>. QED
    BY <2>1, <2>2 DEF StoredInv
<1>. QED
  BY <1>1, <1>2, <1>3, <1>4, <1>5, <1>6, <1>7 DEF AgentRunsNext

LEMMA StoredInductive == AgentRunsSpec => [](RunsInv /\ StoredInv)
<1>1. RunsInv /\ StoredInv /\ [AgentRunsNext]_agentRunsVars => (RunsInv /\ StoredInv)'
  BY RunsNextInv, StoredNext
<1>. QED
  BY <1>1, RunsInitInv, StoredInit, PTL DEF AgentRunsSpec

\* Runs that read the room of the day at once pass its limit by no more than one run's
\* share for each other session.
THEOREM DayOvershoot == AgentRunsSpec => []DayOvershootBounded
<1>1. RunsInv /\ StoredInv => DayOvershootBounded
  <2>. SUFFICES ASSUME RunsInv, StoredInv PROVE DayOvershootBounded
    OBVIOUS
  <2>1. AgentRunsTypeOK
    BY DEF RunsInv
  <2>2. Cardinality(companies) <= Most
    BY <2>1, ActiveCaps, SharesBound DEF StoredInv
  <2>3. audits <= Most
    BY <2>1, ActiveCaps, SharesBound DEF StoredInv
  <2>. QED
    BY <2>2, <2>3 DEF DayOvershootBounded, Most
<1>. QED
  BY <1>1, StoredInductive, PTL

----------------------------------------------------------------------------
(* The delivery.  A task's flag is never taken back, nor is an approval    *)
(* that was granted, so what allowed a session to work on a task holds     *)
(* until it commits, whatever others commit before.                        *)

\* A task may be executed and verified.
Cleared(t) == DependsOn[t] \subseteq Verified /\ (t \in Sensitive => t \in granted)

RowsCleared ==
    \A t \in Tasks :
        task[t].verified \/ task[t].status \in {"review", "completed"} => Cleared(t)

ApprovedIsGranted == \A t \in Tasks : taskApproval[t] = "approved" => t \in granted

OnTask == {"execute", "verify", "flushed"}

\* What a session's work rests on.
Founded(w) ==
    /\ w.pc \in OnTask => task[w.task].status # "absent"
    /\ w.pc \in {"verify", "flushed"} => Cleared(w.task)
    /\ w.pc = "execute" /\ w.as = "review" => Cleared(w.task)
    /\ w.pc = "complete" => project.verified /\ Created \subseteq Verified \cup unchecked
    /\ w.pc \notin {"idle", "run"} => agentRun # "absent"

\* There is no project before a run was committed.
NothingBeforeRun == agentRun = "absent" => project.status = "absent" /\ Created = {}

DeliveryInv ==
    /\ DeliveryTypeOK
    /\ RowsCleared
    /\ ApprovedIsGranted
    /\ NothingBeforeRun
    /\ \A s \in Agents : Founded(agent[s])

LEMMA WorkTypes ==
    ASSUME DeliveryTypeOK, NEW s \in Agents
    PROVE  /\ agent[s] \in DeliveryWork
           /\ agent[s].pc \in OnTask => agent[s].task \in Tasks
           /\ agent[s].pc = "execute" =>
                /\ agent[s].as \in {"blocked", "review"}
                /\ agent[s].seen \in TaskStatuses
           /\ agent[s].pc = "create" => agent[s].new \subseteq Tasks
           /\ agent[s].pc \notin {"idle", "run"} => agent[s].project \in ProjectStatuses
           /\ agent[s].pc = "flushed" => agent[s].all \in BOOLEAN
<1>1. agent[s] \in DeliveryWork
  BY DEF DeliveryTypeOK
<1>. QED
  BY <1>1 DEF DeliveryWork, OnTask

LEMMA RestIsWork == NoWork \in DeliveryWork /\ Founded(NoWork) /\ NoWork.pc = "idle"
BY DEF NoWork, DeliveryWork, Founded, OnTask

\* A session decides, and writes nothing.
LEMMA ReadsInv ==
    ASSUME DeliveryInv, NEW s \in Agents, NEW w \in DeliveryWork, Founded(w), Turn(s, w),
           UNCHANGED <<deliveryRows, deliveryHistory>>
    PROVE  DeliveryInv'
<1>. USE DEF DeliveryInv, deliveryRows, deliveryHistory
<1>1. DeliveryTypeOK'
  BY DEF DeliveryTypeOK, Turn
<1>2. Verified' = Verified /\ Created' = Created
  BY DEF Verified, Created
<1>3. RowsCleared' /\ ApprovedIsGranted' /\ NothingBeforeRun'
  BY <1>2 DEF RowsCleared, ApprovedIsGranted, NothingBeforeRun, Cleared
<1>4. ASSUME NEW v, Founded(v) PROVE Founded(v)'
  <2>1. \A t \in Tasks : Cleared(t)' <=> Cleared(t)
    BY <1>2 DEF Cleared
  <2>. QED
    BY <1>2, <1>4 DEF Founded, Cleared
<1>5. ASSUME NEW r \in Agents PROVE Founded(agent[r])'
  <2>1. agent'[r] = IF r = s THEN w ELSE agent[r]
    BY DEF Turn, DeliveryTypeOK
  <2>. QED
    BY <1>4, <2>1
<1>. QED
  BY <1>1, <1>3, <1>5

\* Flags, grants and rows are only added, and what is added is not overlooked by a
\* session that is about to complete the project.
Grows ==
    /\ Verified \subseteq Verified'
    /\ granted \subseteq granted'
    /\ Created \subseteq Created'
    /\ unchecked \subseteq unchecked'
    /\ project.verified => project'.verified
    /\ agentRun # "absent" => agentRun' # "absent"
    /\ (\E r \in Agents : agent[r].pc = "complete") => Created' \subseteq Created \cup unchecked'

LEMMA ClearedStays ==
    ASSUME Grows, NEW t \in Tasks, Cleared(t)
    PROVE  Cleared(t)'
BY DEF Grows, Cleared

LEMMA FoundedStays ==
    ASSUME DeliveryTypeOK, Grows, NEW r \in Agents, Founded(agent[r]), agent'[r] = agent[r]
    PROVE  Founded(agent[r])'
<1>1. PICK w : w = agent[r]
  OBVIOUS
<1>2. /\ w \in DeliveryWork
      /\ w.pc \in OnTask => w.task \in Tasks
  BY <1>1, WorkTypes
<1>3. Founded(w)
  BY <1>1
<1>4. w.pc \in OnTask => (task[w.task].status # "absent")'
  <2>1. ASSUME w.pc \in OnTask PROVE w.task \in Created'
    BY <1>2, <1>3, <2>1 DEF Founded, Created, Grows
  <2>. QED
    BY <2>1 DEF Created
<1>5. /\ w.pc \in {"verify", "flushed"} => Cleared(w.task)'
      /\ w.pc = "execute" /\ w.as = "review" => Cleared(w.task)'
  BY <1>2, <1>3, ClearedStays DEF Founded, OnTask
<1>6. w.pc = "complete" => project'.verified /\ Created' \subseteq Verified' \cup unchecked'
  BY <1>1, <1>3 DEF Founded, Grows
<1>7. w.pc \notin {"idle", "run"} => agentRun' # "absent"
  BY <1>3 DEF Founded, Grows
<1>8. Founded(w)'
  BY <1>4, <1>5, <1>6, <1>7 DEF Founded
<1>9. w = agent'[r]
  BY <1>1
<1>. QED
  BY <1>8, <1>9 DEF Founded

LEMMA GrowsInv ==
    ASSUME DeliveryInv, Grows, DeliveryTypeOK', NothingBeforeRun', ApprovedIsGranted',
           \A r \in Agents : agent'[r] = agent[r] \/ agent'[r] = NoWork,
           \A t \in Tasks :
               task'[t].verified \/ task'[t].status \in {"review", "completed"} => Cleared(t)
    PROVE  DeliveryInv'
<1>1. RowsCleared'
  BY ClearedStays DEF RowsCleared
<1>2. ASSUME NEW r \in Agents PROVE Founded(agent[r])'
  <2>1. CASE agent'[r] = agent[r]
    BY <2>1, FoundedStays DEF DeliveryInv
  <2>2. CASE agent'[r] = NoWork
    BY <2>2 DEF Founded, NoWork, OnTask
  <2>. QED
    BY <2>1, <2>2
<1>. QED
  BY <1>1, <1>2 DEF DeliveryInv

\* The reads.
LEMMA DeliveryReads ==
    ASSUME DeliveryInv, NEW s \in Agents,
           \/ RunRead(s)
           \/ \E specs \in SUBSET Tasks : CreateTasksRead(s, specs)
           \/ \E t \in Tasks : ExecuteBlocked(s, t) \/ ExecuteRead(s, t) \/ VerifyRead(s, t)
           \/ VerifyFlush(s)
           \/ VerifyProjectRead(s)
           \/ GiveUp(s)
    PROVE  DeliveryInv'
<1>. USE DEF DeliveryInv
<1>0. /\ project.status \in ProjectStatuses
      /\ \A t \in Tasks : task[t].status \in TaskStatuses
  BY DEF DeliveryTypeOK
<1>a. agentRun = "absent" => project.status = "absent" /\ \A t \in Tasks : task[t].status = "absent"
  BY DEF NothingBeforeRun, Created
<1>1. CASE RunRead(s)
  <2>1. [pc |-> "run"] \in DeliveryWork /\ Founded([pc |-> "run"])
    BY DEF DeliveryWork, Founded, OnTask
  <2>. QED
    BY <1>1, <2>1, ReadsInv DEF RunRead
<1>2. ASSUME NEW specs \in SUBSET Tasks, CreateTasksRead(s, specs) PROVE DeliveryInv'
  <2>. DEFINE w == [pc |-> "create", new |-> specs \ Created, project |-> project.status]
  <2>1. w \in DeliveryWork
    BY <1>0 DEF DeliveryWork
  <2>2. Founded(w)
    BY <1>2, <1>a DEF Founded, OnTask, CreateTasksRead
  <2>3. Turn(s, w) /\ UNCHANGED <<deliveryRows, deliveryHistory>>
    BY <1>2 DEF CreateTasksRead
  <2>. QED
    BY <2>1, <2>2, <2>3, ReadsInv
<1>3. ASSUME NEW t \in Tasks, ExecuteBlocked(s, t) PROVE DeliveryInv'
  <2>. DEFINE w == [pc |-> "execute", task |-> t, as |-> "blocked", seen |-> task[t].status,
                    project |-> project.status]
  <2>1. w \in DeliveryWork
    BY <1>0 DEF DeliveryWork
  <2>2. Founded(w)
    BY <1>3, <1>a DEF Founded, OnTask, ExecuteBlocked, Executable
  <2>3. Turn(s, w) /\ UNCHANGED <<deliveryRows, deliveryHistory>>
    BY <1>3 DEF ExecuteBlocked
  <2>. QED
    BY <2>1, <2>2, <2>3, ReadsInv
<1>4. ASSUME NEW t \in Tasks, ExecuteRead(s, t) PROVE DeliveryInv'
  <2>. DEFINE w == [pc |-> "execute", task |-> t, as |-> "review", seen |-> task[t].status,
                    project |-> project.status]
  <2>1. w \in DeliveryWork
    BY <1>0 DEF DeliveryWork
  <2>2. Cleared(t)
    <3>1. DependsOn[t] \subseteq Verified
      BY <1>4, DeliveryAssumption DEF ExecuteRead, DependenciesSatisfied, Verified
    <3>. QED
      BY <1>4, <3>1 DEF ExecuteRead, Cleared, ApprovedIsGranted
  <2>3. Founded(w)
    BY <1>4, <1>a, <2>2 DEF Founded, OnTask, ExecuteRead, Executable
  <2>4. Turn(s, w) /\ UNCHANGED <<deliveryRows, deliveryHistory>>
    BY <1>4 DEF ExecuteRead
  <2>. QED
    BY <2>1, <2>3, <2>4, ReadsInv
<1>5. ASSUME NEW t \in Tasks, VerifyRead(s, t) PROVE DeliveryInv'
  <2>. DEFINE w == [pc |-> "verify", task |-> t, project |-> project.status]
  <2>1. w \in DeliveryWork
    BY <1>0 DEF DeliveryWork
  <2>2. Founded(w)
    BY <1>5, <1>a DEF Founded, OnTask, VerifyRead, RowsCleared
  <2>3. Turn(s, w) /\ UNCHANGED <<deliveryRows, deliveryHistory>>
    BY <1>5 DEF VerifyRead
  <2>. QED
    BY <2>1, <2>2, <2>3, ReadsInv
<1>6. CASE VerifyFlush(s)
  <2>. DEFINE all == AllDone([task EXCEPT ![agent[s].task] =
                                  [status |-> "completed", verified |-> TRUE]])
              w == [pc |-> "flushed", task |-> agent[s].task, project |-> agent[s].project,
                    all |-> all]
  <2>0. agent[s].pc = "verify" /\ Turn(s, w) /\ UNCHANGED <<deliveryRows, deliveryHistory>>
    BY <1>6 DEF VerifyFlush
  <2>1. agent[s].task \in Tasks /\ agent[s].project \in ProjectStatuses
    BY <2>0, WorkTypes DEF OnTask
  <2>2. all \in BOOLEAN
    BY DEF AllDone
  <2>. HIDE DEF all
  <2>3. w \in DeliveryWork
    BY <2>1, <2>2 DEF DeliveryWork
  <2>4. Founded(w)
    BY <2>0 DEF Founded, OnTask
  <2>. QED
    BY <2>0, <2>3, <2>4, ReadsInv
<1>7. CASE VerifyProjectRead(s)
  <2>. DEFINE w == [pc |-> "verify_project", project |-> project.status]
  <2>1. w \in DeliveryWork
    BY <1>0 DEF DeliveryWork
  <2>2. Founded(w)
    BY <1>7, <1>a DEF Founded, OnTask, VerifyProjectRead, AllDone
  <2>3. Turn(s, w) /\ UNCHANGED <<deliveryRows, deliveryHistory>>
    BY <1>7 DEF VerifyProjectRead
  <2>. QED
    BY <2>1, <2>2, <2>3, ReadsInv
<1>8. CASE GiveUp(s)
  BY <1>8, RestIsWork, ReadsInv DEF GiveUp
<1>. QED
  BY <1>1, <1>2, <1>3, <1>4, <1>5, <1>6, <1>7, <1>8

LEMMA RestsAfter ==
    ASSUME DeliveryTypeOK, NEW s \in Agents, Turn(s, NoWork)
    PROVE  /\ agent' \in [Agents -> DeliveryWork]
           /\ \A r \in Agents : agent'[r] = agent[r] \/ agent'[r] = NoWork
BY RestIsWork DEF DeliveryTypeOK, Turn

\* What the commit of a session does to the rows of tasks and project.
LEMMA CommitTypes ==
    ASSUME DeliveryTypeOK, NEW s \in Agents, Turn(s, NoWork),
           customer' \in BOOLEAN, agentRun' \in {"absent", "succeeded", "failed"},
           project' \in [status : ProjectStatuses, verified : BOOLEAN],
           task' \in [Tasks -> [status : TaskStatuses, verified : BOOLEAN]],
           unchecked' \subseteq Tasks, UNCHANGED <<taskApproval, deliverable, granted>>
    PROVE  DeliveryTypeOK'
BY RestsAfter DEF DeliveryTypeOK

LEMMA RunCommitInv ==
    ASSUME DeliveryInv, NEW s \in Agents, NEW specs \in SUBSET Tasks, RunCommit(s, specs)
    PROVE  DeliveryInv'
<1>. USE DEF DeliveryInv, deliveryHistory
<1>1. /\ project' \in [status : ProjectStatuses, verified : BOOLEAN]
      /\ project'.verified = project.verified
  BY DEF RunCommit, DeliveryTypeOK, ProjectStatuses
<1>2. /\ task' \in [Tasks -> [status : TaskStatuses, verified : BOOLEAN]]
      /\ \A t \in Tasks : /\ task'[t].verified = task[t].verified
                          /\ t \notin specs => task'[t] = task[t]
                          /\ t \in specs => task'[t].status = "pending"
  BY DEF RunCommit, DeliveryTypeOK, TaskStatuses
<1>3. DeliveryTypeOK'
  BY <1>1, <1>2, CommitTypes DEF RunCommit, DeliveryTypeOK
<1>4. Verified' = Verified
  BY <1>2 DEF Verified
<1>5. Created = {} /\ \A r \in Agents : agent[r].pc # "complete"
  BY DEF RunCommit, KeyIsFree, NothingBeforeRun, Founded
<1>6. Grows
  BY <1>1, <1>4, <1>5 DEF Grows, RunCommit
<1>7. NothingBeforeRun' /\ ApprovedIsGranted'
  BY DEF RunCommit, NothingBeforeRun, ApprovedIsGranted
<1>8. \A t \in Tasks :
          task'[t].verified \/ task'[t].status \in {"review", "completed"} => Cleared(t)
  BY <1>2 DEF RowsCleared
<1>. QED
  BY <1>3, <1>6, <1>7, <1>8, RestsAfter, GrowsInv DEF RunCommit

LEMMA RunCommitsFailureInv ==
    ASSUME DeliveryInv, NEW s \in Agents, RunCommitsFailure(s)
    PROVE  DeliveryInv'
<1>. USE DEF DeliveryInv, deliveryHistory
<1>1. /\ project' \in [status : ProjectStatuses, verified : BOOLEAN]
      /\ project'.verified = project.verified
  BY DEF RunCommitsFailure, DeliveryTypeOK, ProjectStatuses
<1>2. task' = task /\ Verified' = Verified /\ Created' = Created
  BY DEF RunCommitsFailure, Verified, Created
<1>3. DeliveryTypeOK'
  BY <1>1, <1>2, CommitTypes DEF RunCommitsFailure, DeliveryTypeOK
<1>4. Grows
  BY <1>1, <1>2 DEF Grows, RunCommitsFailure
<1>5. NothingBeforeRun' /\ ApprovedIsGranted'
  BY DEF RunCommitsFailure, NothingBeforeRun, ApprovedIsGranted
<1>. QED
  BY <1>2, <1>3, <1>4, <1>5, RestsAfter, GrowsInv DEF RunCommitsFailure, RowsCleared

LEMMA CreateTasksCommitInv ==
    ASSUME DeliveryInv, NEW s \in Agents, CreateTasksCommit(s)
    PROVE  DeliveryInv'
<1>. USE DEF DeliveryInv
<1>0. agent[s].new \subseteq Tasks /\ agentRun # "absent"
  BY WorkTypes DEF CreateTasksCommit, Founded
<1>1. /\ project' \in [status : ProjectStatuses, verified : BOOLEAN]
      /\ project'.verified = project.verified
  BY DEF CreateTasksCommit, DeliveryTypeOK, ProjectStatuses
<1>2. /\ task' \in [Tasks -> [status : TaskStatuses, verified : BOOLEAN]]
      /\ \A t \in Tasks : /\ task'[t].verified = task[t].verified
                          /\ t \notin agent[s].new => task'[t] = task[t]
                          /\ t \in agent[s].new => task'[t].status = "pending"
  BY DEF CreateTasksCommit, DeliveryTypeOK, TaskStatuses
<1>3. unchecked' = IF \E r \in Agents : agent[r].pc = "complete"
                   THEN unchecked \cup agent[s].new ELSE unchecked
  BY DEF CreateTasksCommit, Unseen
<1>4. DeliveryTypeOK'
  BY <1>0, <1>1, <1>2, <1>3, CommitTypes DEF CreateTasksCommit, DeliveryTypeOK
<1>5. Verified' = Verified
  BY <1>2 DEF Verified
<1>6. Created' = Created \cup agent[s].new
  BY <1>0, <1>2 DEF Created
<1>7. Grows
  BY <1>1, <1>3, <1>5, <1>6 DEF Grows, CreateTasksCommit
<1>8. NothingBeforeRun' /\ ApprovedIsGranted'
  BY <1>0 DEF CreateTasksCommit, NothingBeforeRun, ApprovedIsGranted
<1>9. \A t \in Tasks :
          task'[t].verified \/ task'[t].status \in {"review", "completed"} => Cleared(t)
  BY <1>2 DEF RowsCleared
<1>. QED
  BY <1>4, <1>7, <1>8, <1>9, RestsAfter, GrowsInv DEF CreateTasksCommit

LEMMA ExecuteCommitInv ==
    ASSUME DeliveryInv, NEW s \in Agents, ExecuteCommit(s)
    PROVE  DeliveryInv'
<1>. USE DEF DeliveryInv, deliveryHistory
<1>0. /\ agent[s].pc = "execute" /\ agent[s].task \in Tasks
      /\ agent[s].as \in {"blocked", "review"}
      /\ task[agent[s].task].status # "absent" /\ agentRun # "absent"
      /\ agent[s].as = "review" => Cleared(agent[s].task)
  BY WorkTypes DEF ExecuteCommit, Founded, OnTask
<1>. DEFINE v == Written(task[agent[s].task].status, agent[s].seen, agent[s].as)
<1>1. /\ project' \in [status : ProjectStatuses, verified : BOOLEAN]
      /\ project'.verified = project.verified
  BY DEF ExecuteCommit, DeliveryTypeOK, ProjectStatuses
<1>2. v \in {task[agent[s].task].status, agent[s].as}
  BY DEF Written
<1>3. task' = [task EXCEPT ![agent[s].task].status = v]
  BY DEF ExecuteCommit
<1>. HIDE DEF v
<1>4. /\ task' \in [Tasks -> [status : TaskStatuses, verified : BOOLEAN]]
      /\ \A t \in Tasks : /\ task'[t].verified = task[t].verified
                          /\ task'[t].status = IF t = agent[s].task THEN v ELSE task[t].status
  BY <1>0, <1>2, <1>3 DEF DeliveryTypeOK, TaskStatuses
<1>5. DeliveryTypeOK'
  BY <1>1, <1>4, CommitTypes DEF ExecuteCommit, DeliveryTypeOK
<1>6. Verified' = Verified /\ Created' = Created
  BY <1>0, <1>2, <1>4 DEF Verified, Created
<1>7. Grows
  BY <1>1, <1>6 DEF Grows, ExecuteCommit
<1>8. NothingBeforeRun' /\ ApprovedIsGranted'
  BY <1>0 DEF ExecuteCommit, NothingBeforeRun, ApprovedIsGranted
<1>9. \A t \in Tasks :
          task'[t].verified \/ task'[t].status \in {"review", "completed"} => Cleared(t)
  BY <1>0, <1>2, <1>4 DEF RowsCleared
<1>. QED
  BY <1>5, <1>7, <1>8, <1>9, RestsAfter, GrowsInv DEF ExecuteCommit

LEMMA VerifyCommitInv ==
    ASSUME DeliveryInv, NEW s \in Agents, VerifyCommit(s)
    PROVE  DeliveryInv'
<1>. USE DEF DeliveryInv, deliveryHistory
<1>0. /\ agent[s].pc = "flushed" /\ agent[s].task \in Tasks
      /\ agent[s].project \in ProjectStatuses
      /\ task[agent[s].task].status # "absent" /\ agentRun # "absent"
      /\ Cleared(agent[s].task)
  BY WorkTypes DEF VerifyCommit, Founded, OnTask
<1>1. /\ project' \in [status : ProjectStatuses, verified : BOOLEAN]
      /\ project'.verified = project.verified
  BY DEF VerifyCommit, DeliveryTypeOK, ProjectStatuses, Written
<1>2. /\ task' \in [Tasks -> [status : TaskStatuses, verified : BOOLEAN]]
      /\ \A t \in Tasks \ {agent[s].task} : task'[t] = task[t]
      /\ task'[agent[s].task] = [status |-> "completed", verified |-> TRUE]
  BY <1>0 DEF VerifyCommit, DeliveryTypeOK, TaskStatuses
<1>3. DeliveryTypeOK'
  BY <1>1, <1>2, CommitTypes DEF VerifyCommit, DeliveryTypeOK
<1>4. Verified' = Verified \cup {agent[s].task} /\ Created' = Created
  BY <1>0, <1>2 DEF Verified, Created
<1>5. Grows
  BY <1>1, <1>4 DEF Grows, VerifyCommit
<1>6. NothingBeforeRun' /\ ApprovedIsGranted'
  BY <1>0 DEF VerifyCommit, NothingBeforeRun, ApprovedIsGranted
<1>7. \A t \in Tasks :
          task'[t].verified \/ task'[t].status \in {"review", "completed"} => Cleared(t)
  BY <1>0, <1>2 DEF RowsCleared
<1>. QED
  BY <1>3, <1>5, <1>6, <1>7, RestsAfter, GrowsInv DEF VerifyCommit

\* The commits that write the project only.
LEMMA ProjectCommitInv ==
    ASSUME DeliveryInv, NEW s \in Agents, VerifyProjectCommit(s) \/ CompleteCommit(s)
    PROVE  DeliveryInv'
<1>. USE DEF DeliveryInv, deliveryHistory
<1>0. /\ agentRun # "absent" /\ agent[s].project \in ProjectStatuses
      /\ Turn(s, NoWork)
      /\ UNCHANGED <<customer, agentRun, task, taskApproval, deliverable, deliveryHistory>>
  BY WorkTypes DEF VerifyProjectCommit, CompleteCommit, Founded
<1>1. /\ project' \in [status : ProjectStatuses, verified : BOOLEAN]
      /\ project.verified => project'.verified
  <2>1. project \in [status : ProjectStatuses, verified : BOOLEAN]
    BY DEF DeliveryTypeOK
  <2>2. \A v : Written(project.status, agent[s].project, v) \in {project.status, v}
    BY DEF Written
  <2>3. CASE VerifyProjectCommit(s)
    BY <2>1, <2>2, <2>3 DEF VerifyProjectCommit, ProjectStatuses
  <2>4. CASE CompleteCommit(s)
    BY <2>1, <2>2, <2>4 DEF CompleteCommit, ProjectStatuses
  <2>. QED
    BY <2>3, <2>4
<1>2. DeliveryTypeOK'
  BY <1>0, <1>1, CommitTypes DEF DeliveryTypeOK
<1>3. Verified' = Verified /\ Created' = Created
  BY <1>0 DEF Verified, Created
<1>4. Grows
  BY <1>0, <1>1, <1>3 DEF Grows
<1>5. NothingBeforeRun' /\ ApprovedIsGranted'
  BY <1>0 DEF NothingBeforeRun, ApprovedIsGranted
<1>. QED
  BY <1>0, <1>2, <1>4, <1>5, RestsAfter, GrowsInv DEF RowsCleared

\* What no session's read and commit divide.
LEMMA AtOnceInv ==
    ASSUME DeliveryInv,
           \/ ConvertLead \/ ProduceDeliverable \/ VerifyDeliverable
           \/ \E t \in Tasks : RequestSensitiveApproval(t) \/ OwnerDecides(t)
    PROVE  DeliveryInv'
<1>. USE DEF DeliveryInv, deliveryHistory
<1>1. UNCHANGED <<agentRun, project, task, agent, unchecked>>
  BY DEF ConvertLead, ProduceDeliverable, VerifyDeliverable, RequestSensitiveApproval,
         OwnerDecides
<1>2. DeliveryTypeOK'
  BY DEF ConvertLead, ProduceDeliverable, VerifyDeliverable, RequestSensitiveApproval,
         OwnerDecides, DeliveryTypeOK, DeliverableStatuses
<1>3. Verified' = Verified /\ Created' = Created
  BY <1>1 DEF Verified, Created
<1>4. granted \subseteq granted'
  BY DEF ConvertLead, ProduceDeliverable, VerifyDeliverable, RequestSensitiveApproval,
         OwnerDecides
<1>5. Grows
  BY <1>1, <1>3, <1>4 DEF Grows
<1>6. ApprovedIsGranted'
  BY DEF ApprovedIsGranted, ConvertLead, ProduceDeliverable, VerifyDeliverable,
         RequestSensitiveApproval, OwnerDecides, DeliveryTypeOK
<1>7. NothingBeforeRun'
  BY <1>1, <1>3 DEF NothingBeforeRun
<1>. QED
  BY <1>1, <1>2, <1>5, <1>6, <1>7, GrowsInv DEF RowsCleared

\* Whoever is first to be about to complete the project has overlooked nothing yet.
LEMMA CompleteReadInv ==
    ASSUME DeliveryInv, NEW s \in Agents, CompleteRead(s)
    PROVE  DeliveryInv'
<1>. USE DEF DeliveryInv, deliveryRows
<1>. DEFINE w == [pc |-> "complete", project |-> project.status]
<1>0. UNCHANGED <<customer, agentRun, project, task, taskApproval, deliverable, granted>>
  BY DEF CompleteRead
<1>1. w \in DeliveryWork
  BY DEF DeliveryTypeOK, DeliveryWork
<1>2. \A r \in Agents : agent'[r] = IF r = s THEN w ELSE agent[r]
  BY DEF CompleteRead, Turn, DeliveryTypeOK
<1>3. DeliveryTypeOK'
  BY <1>0, <1>1 DEF CompleteRead, Turn, DeliveryTypeOK
<1>4. Verified' = Verified /\ Created' = Created
  BY <1>0 DEF Verified, Created
<1>5. RowsCleared' /\ ApprovedIsGranted' /\ NothingBeforeRun'
  BY <1>0, <1>4 DEF RowsCleared, ApprovedIsGranted, NothingBeforeRun, Cleared
<1>6. ASSUME NEW r \in Agents PROVE Founded(agent[r])'
  <2>1. CASE r = s
    <3>1. project.verified /\ Created \subseteq Verified /\ agentRun # "absent"
      BY DEF CompleteRead, NothingBeforeRun
    <3>. QED
      BY <1>0, <1>2, <1>4, <2>1, <3>1 DEF Founded, OnTask
  <2>2. CASE r # s
    <3>1. Founded(agent[r]) /\ agent'[r] = agent[r]
      BY <1>2, <2>2
    <3>2. agent[r].pc = "complete" => unchecked' = unchecked
      BY DEF CompleteRead
    <3>. QED
      BY <1>0, <1>4, <3>1, <3>2 DEF Founded, Cleared
  <2>. QED
    BY <2>1, <2>2
<1>. QED
  BY <1>3, <1>5, <1>6

LEMMA DeliveryInitInv == DeliveryInit => DeliveryInv
<1>. SUFFICES ASSUME DeliveryInit PROVE DeliveryInv
  OBVIOUS
<1>1. DeliveryTypeOK
  BY RestIsWork DEF DeliveryInit, DeliveryTypeOK, ProjectStatuses, TaskStatuses,
                    DeliverableStatuses
<1>2. RowsCleared /\ ApprovedIsGranted
  BY DEF DeliveryInit, RowsCleared, ApprovedIsGranted
<1>3. NothingBeforeRun
  BY DEF DeliveryInit, NothingBeforeRun, Created
<1>4. \A s \in Agents : Founded(agent[s])
  BY RestIsWork DEF DeliveryInit
<1>. QED
  BY <1>1, <1>2, <1>3, <1>4 DEF DeliveryInv

LEMMA DeliveryNextInv == DeliveryInv /\ [DeliveryNext]_deliveryVars => DeliveryInv'
<1>. SUFFICES ASSUME DeliveryInv, [DeliveryNext]_deliveryVars PROVE DeliveryInv'
  OBVIOUS
<1>1. CASE \/ ConvertLead \/ ProduceDeliverable \/ VerifyDeliverable
           \/ \E t \in Tasks : RequestSensitiveApproval(t) \/ OwnerDecides(t)
  BY <1>1, AtOnceInv
<1>2. ASSUME NEW s \in Agents,
             \/ RunRead(s)
             \/ \E specs \in SUBSET Tasks : RunCommit(s, specs) \/ CreateTasksRead(s, specs)
             \/ RunCommitsFailure(s)
             \/ CreateTasksCommit(s)
             \/ \E t \in Tasks : ExecuteBlocked(s, t) \/ ExecuteRead(s, t) \/ VerifyRead(s, t)
             \/ ExecuteCommit(s)
             \/ VerifyFlush(s)
             \/ VerifyCommit(s)
             \/ VerifyProjectRead(s)
             \/ VerifyProjectCommit(s)
             \/ CompleteRead(s)
             \/ CompleteCommit(s)
             \/ GiveUp(s)
      PROVE  DeliveryInv'
  BY <1>2, DeliveryReads, RunCommitInv, RunCommitsFailureInv, CreateTasksCommitInv,
     ExecuteCommitInv, VerifyCommitInv, ProjectCommitInv, CompleteReadInv
<1>3. CASE UNCHANGED deliveryVars
  <2>1. UNCHANGED <<customer, agentRun, project, task, taskApproval, deliverable, agent,
                    granted, unchecked>>
    BY <1>3 DEF deliveryVars, deliveryRows, deliveryHistory
  <2>2. DeliveryTypeOK' /\ Verified' = Verified /\ Created' = Created
    BY <2>1 DEF DeliveryInv, DeliveryTypeOK, Verified, Created
  <2>3. Grows
    BY <2>1, <2>2 DEF Grows
  <2>4. ApprovedIsGranted' /\ NothingBeforeRun'
    BY <2>1, <2>2 DEF DeliveryInv, ApprovedIsGranted, NothingBeforeRun
  <2>. QED
    BY <2>1, <2>2, <2>3, <2>4, GrowsInv DEF DeliveryInv, RowsCleared
<1>. QED
  BY <1>1, <1>2, <1>3 DEF DeliveryNext

LEMMA DeliveryInductive == DeliverySpec => []DeliveryInv
BY DeliveryInitInv, DeliveryNextInv, PTL DEF DeliverySpec

\* DeliveryTypeOK: every variable of the delivery has its type, the sessions with what
\* they read included (agents/delivery/agent.py).
THEOREM DeliveryTypeCorrect == DeliverySpec => []DeliveryTypeOK
<1>1. DeliveryInv => DeliveryTypeOK
  BY DEF DeliveryInv
<1>. QED
  BY <1>1, DeliveryInductive, PTL

\* VerifiedInOrder: no task is verified before everything it depends on, nor a sensitive
\* one without the owner's approval (execute_task, verify_task), however the sessions of
\* several workers mix.
THEOREM DeliveredInOrder == DeliverySpec => []VerifiedInOrder
<1>1. DeliveryInv => VerifiedInOrder
  BY DEF DeliveryInv, RowsCleared, Cleared, VerifiedInOrder, Verified
<1>. QED
  BY <1>1, DeliveryInductive, PTL

\* CompletedWasVerified: complete_project completes a verified project with verified
\* tasks, but for those that were created since it read them.
THEOREM CompletionIsEarned == DeliverySpec => CompletedWasVerified
<1>. DEFINE Earned == project'.status = "completed" /\ project.status # "completed"
                      => project.verified /\ Created \subseteq Verified \cup unchecked
<1>1. DeliveryInv /\ [DeliveryNext]_deliveryVars => [Earned]_deliveryVars
  <2>. SUFFICES ASSUME DeliveryInv, DeliveryNext,
                       project'.status = "completed", project.status # "completed"
                PROVE  project.verified /\ Created \subseteq Verified \cup unchecked
    OBVIOUS
  <2>1. PICK s \in Agents : CompleteCommit(s)
    <3>1. project \in [status : ProjectStatuses, verified : BOOLEAN]
      BY DEF DeliveryInv, DeliveryTypeOK
    <3>2. project' # project
      OBVIOUS
    <3>3. PICK s \in Agents :
              \/ \E specs \in SUBSET Tasks : RunCommit(s, specs)
              \/ RunCommitsFailure(s)
              \/ CreateTasksCommit(s)
              \/ ExecuteCommit(s)
              \/ VerifyCommit(s)
              \/ VerifyProjectCommit(s)
              \/ CompleteCommit(s)
      BY <3>2 DEF DeliveryNext, ConvertLead, ProduceDeliverable, VerifyDeliverable,
         RequestSensitiveApproval, OwnerDecides, RunRead, CreateTasksRead, ExecuteBlocked,
         ExecuteRead, VerifyRead, VerifyFlush, VerifyProjectRead, CompleteRead, GiveUp,
         deliveryRows
    <3>4. \/ CompleteCommit(s)
          \/ project'.status \in {project.status, "planning", "active", "delivery",
                                   "verification"}
      BY <3>1, <3>3 DEF RunCommit, RunCommitsFailure, CreateTasksCommit, ExecuteCommit,
         VerifyCommit, VerifyProjectCommit, Written
    <3>. QED
      BY <3>4
  <2>. QED
    BY <2>1 DEF CompleteCommit, DeliveryInv, Founded
<1>2. DeliverySpec => [][Earned]_deliveryVars
  BY <1>1, DeliveryInductive, PTL DEF DeliverySpec
<1>. QED
  BY <1>2 DEF CompletedWasVerified
=============================================================================
