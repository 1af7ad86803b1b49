--------------------------- MODULE ExecutionProofs ---------------------------
(***************************************************************************)
(* Proofs about work that is started once and tried a bounded number of    *)
(* times: the workflow ledger, for any number of requests and any bound on *)
(* retries; the owner's executions, for any number of requests; and the    *)
(* calls of a service behind its circuit breaker, for any number of        *)
(* callers and any threshold, timeout and number of retries.               *)
(***************************************************************************)
EXTENDS WorkflowLedger, OwnerExecutions, ProviderCalls, FiniteSetTheorems, TLAPS

----------------------------------------------------------------------------
(* The workflow ledger.  The row is inserted once and never removed, and   *)
(* what runs the handler again writes a later attempt than the first.      *)

\* A request that runs, ran or is to run the handler has a row.
WorkHasRow ==
    \A w \in Workers : worker[w].pc \in {"retry", "running", "ended"} => row # Absent

\* Requests that are about to commit a retry as attempt n.
Holding(n) == {w \in Workers : worker[w].pc = "retry" /\ worker[w].attempt = n}

\* A run of attempt n opens the next one to every request that reads the row before it
\* moves on; the commit that moves it is the first of them, and closes it to the rest.
OnceForEachHolder ==
    \A n \in 1..MaxRetries :
        IF row.attempt = n
        THEN starts[n + 1] + Cardinality(Workers) <= Cardinality(Workers) * starts[n]
        ELSE starts[n + 1] + Cardinality(Holding(n + 1)) <= Cardinality(Workers) * starts[n]

LedgerInv ==
    /\ TypeOK
    /\ OnceForEachHolder
    /\ WorkHasRow
    /\ FirstAttemptOnce
    /\ row = Absent => starts[1] = 0
    /\ \A w \in Workers : worker[w].pc = "retry" => worker[w].attempt # 1

LEMMA LedgerWorkTypes ==
    ASSUME TypeOK, NEW w \in Workers
    PROVE  /\ worker[w].pc = "retry" =>
                worker[w].attempt \in Attempts /\ worker[w].age \in 0..(StaleAge + 1)
           /\ worker[w].pc = "ended" =>
                worker[w].outcome \in {"succeeded", "failed", "timed_out"}
<1>1. worker[w] \in Work
  BY DEF TypeOK
<1>. QED
  BY <1>1 DEF Work, Idle

\* The row of a retry is there, with an attempt left.
LEMMA LedgerAgainType ==
    ASSUME TypeOK, RunsAgain(row)
    PROVE  /\ row # Absent
           /\ row.attempt + 1 \in Attempts
           /\ row.attempt + 1 # 1
<1>1. row # Absent
  BY DEF RunsAgain, Retryable, Stale, Absent
<1>2. row.attempt \in Attempts
  BY <1>1 DEF TypeOK, RowState
<1>. QED
  BY <1>1, <1>2, LedgerAssumption DEF RunsAgain, Attempts

LEMMA HoldingIsFinite ==
    ASSUME NEW n
    PROVE  /\ IsFiniteSet(Holding(n))
           /\ Cardinality(Holding(n)) \in Nat
           /\ Cardinality(Workers) \in Nat
           /\ Cardinality(Holding(n)) <= Cardinality(Workers)
<1>1. Holding(n) \in SUBSET Workers
  BY DEF Holding
<1>. QED
  BY <1>1, LedgerAssumption, FS_Subset, FS_CardinalityType

LEMMA LedgerCountTypes ==
    ASSUME TypeOK, NEW n \in 1..MaxRetries
    PROVE  /\ n \in Attempts /\ n + 1 \in Attempts
           /\ starts[n] \in Nat /\ starts[n + 1] \in Nat
BY LedgerAssumption DEF TypeOK, Attempts

\* A step that runs no handler, and after which no more requests hold a retry than the
\* attempt of the row lets in.
LEMMA HoldersKeep ==
    ASSUME TypeOK, OnceForEachHolder, UNCHANGED starts, row'.attempt = row.attempt,
           \A n \in 1..MaxRetries : row.attempt # n => Holding(n + 1)' \subseteq Holding(n + 1)
    PROVE  OnceForEachHolder'
<1>. SUFFICES ASSUME NEW n \in 1..MaxRetries, row.attempt # n
              PROVE  starts[n + 1] + Cardinality(Holding(n + 1)')
                        <= Cardinality(Workers) * starts[n]
  BY DEF OnceForEachHolder
<1>1. Holding(n + 1)' \in SUBSET Holding(n + 1)
  OBVIOUS
<1>2. /\ Cardinality(Holding(n + 1)') \in Nat
      /\ Cardinality(Holding(n + 1)') <= Cardinality(Holding(n + 1))
  BY <1>1, HoldingIsFinite, FS_Subset, FS_CardinalityType
<1>3. starts[n + 1] + Cardinality(Holding(n + 1)) <= Cardinality(Workers) * starts[n]
  BY DEF OnceForEachHolder
<1>4. Cardinality(Workers) * starts[n] \in Nat
  BY LedgerCountTypes, HoldingIsFinite
<1>. QED
  BY <1>2, <1>3, <1>4, HoldingIsFinite, LedgerCountTypes

\* A commit of RUNNING: the first of a row, or of a retry that was held.
LEMMA HoldersRun ==
    ASSUME TypeOK, OnceForEachHolder, NEW w \in Workers, NEW m \in Attempts,
           \/ m = 1 /\ row = Absent
           \/ w \in Holding(m) /\ m # 1,
           row'.attempt = m,
           Started(m),
           Goto(w, [pc |-> "running", attempt |-> m])
    PROVE  OnceForEachHolder'
<1>. SUFFICES ASSUME NEW n \in 1..MaxRetries
              PROVE  IF m = n
                     THEN starts'[n + 1] + Cardinality(Workers)
                            <= Cardinality(Workers) * starts'[n]
                     ELSE starts'[n + 1] + Cardinality(Holding(n + 1)')
                            <= Cardinality(Workers) * starts'[n]
  BY DEF OnceForEachHolder
<1>1. starts' = [starts EXCEPT ![m] = @ + 1] /\ starts \in [Attempts -> Nat]
  BY DEF Started, TypeOK
<1>2. n \in Attempts /\ n + 1 \in Attempts /\ starts[n] \in Nat /\ starts[n + 1] \in Nat /\ n + 1 # n
  BY LedgerCountTypes
<1>. DEFINE N == Cardinality(Workers)
            H == Cardinality(Holding(n + 1))
<1>3. N \in Nat /\ H \in Nat /\ H <= N /\ N * starts[n] \in Nat
  BY <1>2, HoldingIsFinite
<1>4. worker' = [worker EXCEPT ![w] = [pc |-> "running", attempt |-> m]]
  BY DEF Goto
<1>5. Holding(n + 1)' = Holding(n + 1) \ {w}
  BY <1>4 DEF Holding, TypeOK
<1>6. Cardinality(Holding(n + 1)') = IF w \in Holding(n + 1) THEN H - 1 ELSE H
  BY <1>5, HoldingIsFinite, FS_RemoveElement
<1>7. IF row.attempt = n THEN starts[n + 1] + N <= N * starts[n]
                         ELSE starts[n + 1] + H <= N * starts[n]
  BY DEF OnceForEachHolder
<1>8. CASE m = n
  <2>2. starts[n + 1] <= N * starts[n]
    <3>. HIDE DEF N, H
    <3>. QED
      BY <1>2, <1>3, <1>7
  <2>3. starts'[n] = starts[n] + 1 /\ starts'[n + 1] = starts[n + 1]
    BY <1>1, <1>2, <1>8
  <2>4. N * (starts[n] + 1) = N * starts[n] + N
    BY <1>2, <1>3
  <2>5. starts'[n + 1] + N <= N * starts'[n]
    <3>. HIDE DEF N
    <3>. QED
      BY <1>2, <1>3, <2>2, <2>3, <2>4
  <2>. QED
    BY <1>8, <2>5
<1>9. CASE m = n + 1
  <2>1. w \in Holding(n + 1)
    BY <1>9, <1>2
  <2>2. starts'[n] = starts[n] /\ starts'[n + 1] = starts[n + 1] + 1
    BY <1>1, <1>2, <1>9
  <2>3. Cardinality(Holding(n + 1)') = H - 1
    BY <1>6, <2>1
  <2>4. starts[n + 1] + H <= N * starts[n]
    <3>. HIDE DEF N, H
    <3>. QED
      BY <1>2, <1>3, <1>7
  <2>5. starts'[n + 1] + Cardinality(Holding(n + 1)') <= N * starts'[n]
    <3>. HIDE DEF N, H
    <3>. QED
      BY <1>2, <1>3, <2>2, <2>3, <2>4
  <2>. QED
    BY <1>2, <1>9, <2>5
<1>10. CASE m # n /\ m # n + 1
  <2>1. starts'[n] = starts[n] /\ starts'[n + 1] = starts[n + 1]
    BY <1>1, <1>2, <1>10
  <2>2. starts[n + 1] + H <= N * starts[n]
    <3>. HIDE DEF N, H
    <3>. QED
      BY <1>2, <1>3, <1>7
  <2>3. Cardinality(Holding(n + 1)') \in Nat /\ Cardinality(Holding(n + 1)') <= H
    <3>1. Holding(n + 1)' \in SUBSET Holding(n + 1)
      BY <1>5
    <3>. QED
      BY <3>1, HoldingIsFinite, FS_Subset, FS_CardinalityType
  <2>4. starts'[n + 1] + Cardinality(Holding(n + 1)') <= N * starts'[n]
    <3>. HIDE DEF N, H
    <3>. QED
      BY <1>2, <1>3, <2>1, <2>2, <2>3
  <2>. QED
    BY <1>10, <2>4
<1>. QED
  BY <1>8, <1>9, <1>10

\* A commit of RUNNING, of the first attempt if there was no row.
LEMMA LedgerRunningInv ==
    ASSUME LedgerInv, NEW w \in Workers, NEW n \in Attempts, NEW age \in 0..(StaleAge + 1),
           \/ n = 1 /\ row = Absent
           \/ w \in Holding(n) /\ n # 1,
           row' = [status |-> "running", attempt |-> n, age |-> age],
           Started(n),
           Goto(w, [pc |-> "running", attempt |-> n])
    PROVE  LedgerInv'
<1>. USE DEF LedgerInv
<1>1. row' \in RowState /\ row' # Absent
  BY DEF RowState, Absent
<1>2. /\ worker' \in [Workers -> Work]
      /\ \A v \in Workers : worker'[v].pc = "retry" => worker'[v].attempt # 1
  BY DEF Goto, Work, TypeOK
<1>3. starts' \in [Attempts -> Nat]
  BY DEF Started, TypeOK
<1>4. starts'[1] <= 1
  <2>1. 1 \in Attempts
    BY LedgerAssumption DEF Attempts
  <2>2. CASE n = 1
    BY <2>1, <2>2 DEF Started, TypeOK
  <2>3. CASE n # 1
    BY <2>1, <2>3 DEF Started, TypeOK, FirstAttemptOnce
  <2>. QED
    BY <2>2, <2>3
<1>5. OnceForEachHolder'
  BY HoldersRun
<1>. QED
  BY <1>1, <1>2, <1>3, <1>4, <1>5 DEF TypeOK, FirstAttemptOnce, WorkHasRow

\* A session's step that leaves the row.
LEMMA LedgerMoveInv ==
    ASSUME LedgerInv, NEW w \in Workers, NEW work \in Work, Goto(w, work),
           work.pc = "retry" => work.attempt # 1 /\ work.attempt = row.attempt + 1,
           work.pc \in {"retry", "running", "ended"} => row # Absent,
           UNCHANGED <<row, starts>>
    PROVE  LedgerInv'
<1>1. ASSUME NEW n \in 1..MaxRetries, row.attempt # n
      PROVE  Holding(n + 1)' \subseteq Holding(n + 1)
  <2>1. n + 1 # row.attempt + 1
    BY <1>1, LedgerAssumption DEF LedgerInv, TypeOK, RowState, Absent, Attempts
  <2>. QED
    BY <2>1 DEF Holding, Goto, LedgerInv, TypeOK
<1>2. OnceForEachHolder'
  BY <1>1, HoldersKeep DEF LedgerInv
<1>. QED
  BY <1>2 DEF LedgerInv, Goto, TypeOK, FirstAttemptOnce, WorkHasRow

LEMMA LedgerInitInv == Init => LedgerInv
<1>. SUFFICES ASSUME Init PROVE LedgerInv
  OBVIOUS
<1>1. 1 \in Attempts
  BY LedgerAssumption DEF Attempts
<1>2. TypeOK
  BY DEF Init, TypeOK, RowState, Work, Idle
<1>3. OnceForEachHolder
  <2>. SUFFICES ASSUME NEW n \in 1..MaxRetries
                PROVE  row.attempt # n /\ starts[n + 1] + Cardinality(Holding(n + 1))
                                            <= Cardinality(Workers) * starts[n]
    BY DEF OnceForEachHolder
  <2>1. Holding(n + 1) = {}
    BY DEF Init, Holding, Idle
  <2>2. n \in Attempts /\ n + 1 \in Attempts
    BY LedgerAssumption DEF Attempts
  <2>3. starts[n] = 0 /\ starts[n + 1] = 0 /\ row.attempt = 0
    BY <2>2 DEF Init, Absent
  <2>4. Cardinality(Workers) * 0 = 0
    BY HoldingIsFinite
  <2>. QED
    BY <2>1, <2>3, <2>4, FS_EmptySet
<1>. QED
  BY <1>1, <1>2, <1>3 DEF Init, LedgerInv, FirstAttemptOnce, WorkHasRow, Idle

LEMMA LedgerNextInv == LedgerInv /\ [Next]_vars => LedgerInv'
<1>. SUFFICES ASSUME LedgerInv, [Next]_vars PROVE LedgerInv'
  OBVIOUS
<1>0. TypeOK
  BY DEF LedgerInv
<1>1. CASE Tick
  <2>1. ASSUME NEW age \in 0..(StaleAge + 1) PROVE Older(age) \in 0..(StaleAge + 1)
    BY LedgerAssumption DEF Older
  <2>2. row' \in RowState /\ (row' = Absent => row = Absent)
    <3>1. CASE row = Absent
      BY <1>1, <3>1 DEF Tick, Absent, RowState
    <3>2. CASE row # Absent
      BY <1>0, <1>1, <2>1, <3>2 DEF Tick, Absent, RowState, TypeOK
    <3>. QED
      BY <3>1, <3>2
  <2>3. ASSUME NEW w \in Workers
        PROVE  /\ worker'[w] \in Work
               /\ worker'[w].pc = "retry" => worker'[w].attempt # 1
    <3>1. CASE worker[w].pc = "retry"
      <4>1. worker[w] \in [pc : {"retry"}, attempt : Attempts, age : 0..(StaleAge + 1)]
        BY <1>0, <3>1 DEF TypeOK, Work, Idle
      <4>2. worker'[w] = [worker[w] EXCEPT !.age = Older(@)]
        BY <1>1, <3>1 DEF Tick
      <4>. QED
        BY <2>1, <4>1, <4>2, <3>1 DEF Work, LedgerInv
    <3>2. CASE worker[w].pc # "retry"
      BY <1>0, <1>1, <3>2 DEF Tick, TypeOK
    <3>. QED
      BY <3>1, <3>2
  <2>4. worker' \in [Workers -> Work]
    BY <1>1, <2>3 DEF Tick
  <2>5. OnceForEachHolder'
    <3>1. row'.attempt = row.attempt
      BY <1>0, <1>1 DEF Tick, TypeOK, RowState
    <3>2. ASSUME NEW n PROVE Holding(n)' = Holding(n)
      BY <1>0, <1>1 DEF Tick, Holding, TypeOK
    <3>. QED
      BY <1>0, <1>1, <3>1, <3>2, HoldersKeep DEF Tick, LedgerInv
  <2>. QED
    <3>1. WorkHasRow'
      BY <1>1, <2>2 DEF Tick, LedgerInv, WorkHasRow
    <3>. QED
      BY <1>1, <2>2, <2>3, <2>4, <2>5, <3>1 DEF Tick, LedgerInv, TypeOK, FirstAttemptOnce
<1>2. ASSUME NEW w \in Workers, TriggerNew(w) PROVE LedgerInv'
  BY <1>2, LedgerMoveInv DEF TriggerNew, Work
<1>3. ASSUME NEW w \in Workers, RunsAgain(row), UNCHANGED <<row, starts>>,
             Goto(w, [pc |-> "retry", attempt |-> row.attempt + 1, age |-> 0])
      PROVE  LedgerInv'
  <2>1. [pc |-> "retry", attempt |-> row.attempt + 1, age |-> 0] \in Work
    BY <1>0, <1>3, LedgerAgainType, LedgerAssumption DEF Work
  <2>. QED
    BY <1>0, <1>3, <2>1, LedgerAgainType, LedgerMoveInv
<1>4. ASSUME NEW w \in Workers, TriggerRetry(w) PROVE LedgerInv'
  BY <1>3, <1>4 DEF TriggerRetry
<1>5. ASSUME NEW w \in Workers, Goto(w, Idle), UNCHANGED <<row, starts>> PROVE LedgerInv'
  BY <1>5, LedgerMoveInv DEF Work, Idle
<1>6. ASSUME NEW w \in Workers, Insert(w) PROVE LedgerInv'
  <2>1. CASE row = Absent
    <3>1. 1 \in Attempts /\ 0 \in 0..(StaleAge + 1)
      BY LedgerAssumption DEF Attempts
    <3>. QED
      BY <1>6, <2>1, <3>1, LedgerRunningInv DEF Insert
  <2>2. CASE row # Absent
    BY <1>3, <1>5, <1>6, <2>2 DEF Insert
  <2>. QED
    BY <2>1, <2>2
<1>7. ASSUME NEW w \in Workers, Retry(w) PROVE LedgerInv'
  <2>1. /\ worker[w].attempt \in Attempts
        /\ worker[w].age \in 0..(StaleAge + 1)
        /\ worker[w].attempt # 1
        /\ w \in Holding(worker[w].attempt)
    BY <1>0, <1>7, LedgerWorkTypes DEF Retry, LedgerInv, Holding
  <2>. QED
    BY <1>7, <2>1, LedgerRunningInv DEF Retry
<1>8. ASSUME NEW w \in Workers, NEW outcome \in {"succeeded", "failed", "timed_out"},
             HandlerEnds(w, outcome)
      PROVE  LedgerInv'
  <2>1. [pc |-> "ended", outcome |-> outcome] \in Work
    BY DEF Work
  <2>. QED
    BY <1>8, <2>1, LedgerMoveInv DEF HandlerEnds, LedgerInv, WorkHasRow
<1>9. ASSUME NEW w \in Workers, Persist(w) PROVE LedgerInv'
  <2>1. worker[w].outcome \in {"succeeded", "failed", "timed_out"} /\ row # Absent
    BY <1>0, <1>9, LedgerWorkTypes DEF Persist, LedgerInv, WorkHasRow
  <2>2. row' \in RowState /\ row' # Absent
    BY <1>0, <1>9, <2>1 DEF Persist, RowState, TypeOK, Absent
  <2>3. worker' = [worker EXCEPT ![w] = Idle] /\ UNCHANGED starts
    BY <1>9 DEF Persist, Goto
  <2>4. worker' \in [Workers -> Work]
    BY <1>0, <2>3 DEF TypeOK, Work
  <2>5. OnceForEachHolder'
    <3>1. row'.attempt = row.attempt
      BY <1>0, <1>9, <2>1 DEF Persist, TypeOK, RowState
    <3>2. ASSUME NEW n PROVE Holding(n)' \subseteq Holding(n)
      BY <1>0, <2>3 DEF Holding, Idle, TypeOK
    <3>. QED
      BY <1>0, <2>3, <3>1, <3>2, HoldersKeep DEF LedgerInv
  <2>. QED
    BY <1>0, <2>2, <2>3, <2>4, <2>5 DEF LedgerInv, TypeOK, FirstAttemptOnce, WorkHasRow, Idle
<1>10. ASSUME NEW w \in Workers, PersistFails(w) PROVE LedgerInv'
  <2>1. [pc |-> "ended", outcome |-> "failed"] \in Work
    BY DEF Work
  <2>. QED
    BY <1>5, <1>10, <2>1, LedgerMoveInv DEF PersistFails, LedgerInv, WorkHasRow
<1>11. ASSUME NEW w \in Workers, Crash(w) PROVE LedgerInv'
  BY <1>5, <1>11 DEF Crash
<1>12. CASE UNCHANGED vars
  <2>1. ASSUME NEW n PROVE Holding(n)' = Holding(n)
    BY <1>12 DEF vars, Holding
  <2>2. OnceForEachHolder'
    BY <1>0, <1>12, <2>1, HoldersKeep DEF vars, LedgerInv
  <2>. QED
    BY <1>12, <2>2 DEF vars, LedgerInv, TypeOK, FirstAttemptOnce, WorkHasRow
<1>. QED
  BY <1>1, <1>2, <1>4, <1>6, <1>7, <1>8, <1>9, <1>10, <1>11, <1>12 DEF Next, Trigger, Step

LEMMA LedgerInductive == Spec => []LedgerInv
BY LedgerInitInv, LedgerNextInv, PTL DEF Spec

\* No interleaving of triggers, crashes and lost updates takes the row out of its type;
\* in particular no attempt number passes max_retries + 1.
THEOREM LedgerTypeCorrect == Spec => []TypeOK
<1>1. LedgerInv => TypeOK
  BY DEF LedgerInv
<1>. QED
  BY <1>1, LedgerInductive, PTL

\* The first attempt of a key is run at most once, however many first triggers race.
THEOREM FirstAttemptRunsOnce == Spec => []FirstAttemptOnce
<1>1. LedgerInv => FirstAttemptOnce
  BY DEF LedgerInv
<1>. QED
  BY <1>1, LedgerInductive, PTL

\* Each run of an attempt lets no request run the next one twice.
THEOREM RetriesFollowRuns == Spec => []RunsFollowRuns
<1>1. ASSUME LedgerInv PROVE RunsFollowRuns
  <2>. SUFFICES ASSUME NEW n \in 1..MaxRetries
                PROVE  starts[n + 1] <= Cardinality(Workers) * starts[n]
    BY DEF RunsFollowRuns
  <2>1. IF row.attempt = n
        THEN starts[n + 1] + Cardinality(Workers) <= Cardinality(Workers) * starts[n]
        ELSE starts[n + 1] + Cardinality(Holding(n + 1)) <= Cardinality(Workers) * starts[n]
    BY <1>1 DEF LedgerInv, OnceForEachHolder
  <2>2. Cardinality(Workers) * starts[n] \in Nat /\ starts[n + 1] \in Nat
    BY <1>1, HoldingIsFinite, LedgerCountTypes DEF LedgerInv
  <2>. QED
    BY <2>1, <2>2, HoldingIsFinite
<1>. QED
  BY <1>1, LedgerInductive, PTL

\* Once a success is committed and no request is under way, no trigger runs the handler
\* again: only time passes.
THEOREM SuccessIsSettled == Spec => SuccessSettles
<1>. DEFINE Settled == row.status = "succeeded" /\ \A w \in Workers : worker[w] = Idle
<1>1. ASSUME LedgerInv, Settled, [Next]_vars PROVE Settled'
  <2>1. row # Absent /\ ~RunsAgain(row)
    BY <1>1 DEF Absent, RunsAgain, Retryable, Stale
  <2>2. CASE Tick
    <3>1. row'.status = "succeeded"
      <4>1. row \in [status : {"running", "succeeded", "failed", "timed_out"},
                     attempt : Attempts, age : 0..(StaleAge + 1)]
        BY <1>1, <2>1 DEF LedgerInv, TypeOK, RowState
      <4>. QED
        BY <1>1, <2>2, <4>1 DEF Tick
    <3>2. ASSUME NEW w \in Workers PROVE worker'[w] = Idle
      BY <1>1, <2>2 DEF Tick, Idle
    <3>. QED
      BY <3>1, <3>2
  <2>3. ASSUME NEW w \in Workers, Trigger(w) PROVE FALSE
    BY <2>1, <2>3 DEF Trigger, TriggerNew, TriggerRetry
  <2>4. ASSUME NEW w \in Workers, Step(w) \/ PersistFails(w) \/ Crash(w) PROVE FALSE
    <3>1. worker[w].pc = "idle" /\ worker[w] = Idle
      BY <1>1 DEF Idle
    <3>. QED
      BY <2>4, <3>1 DEF Step, Insert, Retry, HandlerEnds, Persist, PersistFails, Crash
  <2>5. CASE UNCHANGED vars
    BY <1>1, <2>5 DEF vars
  <2>. QED
    BY <1>1, <2>2, <2>3, <2>4, <2>5 DEF Next
<1>2. LedgerInv /\ [Next]_vars
        => [row.status = "succeeded" /\ (\A w \in Workers : worker[w] = Idle)
            => row'.status = "succeeded" /\ \A w \in Workers : worker'[w] = Idle]_vars
  BY <1>1
<1>. QED
  BY <1>2, LedgerInductive, PTL DEF Spec, SuccessSettles

----------------------------------------------------------------------------
(* The owner's executions.                                                 *)

\* The row is there once it is read, and its thread exists from then on.
RowIsThere ==
    /\ execution.status = "absent" <=> runner.pc = "none"
    /\ \A q \in Requests : request[q].pc = "cancel" => execution.status # "absent"

\* What a request reads before it cancels may be cancelled.
CancelIsLegal ==
    \A q \in Requests :
        request[q].pc = "cancel" => CanTransition(request[q].read.status, "cancelled")

\* The agent is started in one step of the thread, after it has read the row.
NotStartedYet == runner.pc \in {"none", "spawned", "start", "check"} => started = 0

\* A cancel before the thread's read stays on the row, and turns the thread away.
HeededIsSeen ==
    heeded => execution.cancel /\ runner.pc \in {"spawned", "done"} /\ started = 0

ExecInv ==
    /\ ExecTypeOK
    /\ RowIsThere
    /\ CancelIsLegal
    /\ NotStartedYet
    /\ HeededIsSeen
    /\ started <= 1

LEMMA ExecInitInv == ExecInit => ExecInv
<1>. SUFFICES ASSUME ExecInit PROVE ExecInv
  OBVIOUS
<1>1. execution \in Row
  BY DEF ExecInit, Row, Transitions
<1>2. runner = Resting /\ \A q \in Requests : request[q] = Resting
  BY DEF ExecInit
<1>3. ExecTypeOK
  BY <1>1 DEF ExecInit, ExecTypeOK, Resting
<1>. QED
  BY <1>2, <1>3 DEF ExecInit, ExecInv, RowIsThere, CancelIsLegal, NotStartedYet, HeededIsSeen,
     Resting

LEMMA RequestType ==
    ASSUME ExecTypeOK, NEW q \in Requests, request[q].pc = "cancel"
    PROVE  request[q].read \in Row
BY DEF ExecTypeOK, Resting

LEMMA RunnerType ==
    ASSUME ExecTypeOK
    PROVE  /\ runner.pc \in {"start", "check", "work", "finish"} => runner.read \in Row
           /\ runner.pc = "finish" => runner.result \in Results
BY DEF ExecTypeOK

LEMMA ResultsAreStatuses == Results \subseteq DOMAIN Transitions \ {"absent"}
BY DEF Results, Transitions

\* A row keeps its type and its flag when its status is written, and does not vanish.
LEMMA SetStatusType ==
    ASSUME ExecTypeOK, NEW read, NEW status \in DOMAIN Transitions \ {"absent"},
           SetStatus(read, status)
    PROVE  /\ execution' \in Row
           /\ execution'.cancel = execution.cancel
           /\ execution.status # "absent" => execution'.status # "absent"
<1>1. execution \in Row
  BY DEF ExecTypeOK
<1>. QED
  BY <1>1 DEF SetStatus, Row

\* A request's step that leaves the row.
LEMMA RequestStepInv ==
    ASSUME ExecInv, NEW q \in Requests,
           NEW step \in {Resting, [pc |-> "insert"]} \cup [pc : {"cancel"}, read : Row],
           Request(q, step),
           step.pc = "cancel" => execution.status # "absent"
                                 /\ CanTransition(step.read.status, "cancelled"),
           UNCHANGED <<command, execution, aiAllowed, runner, execHistory>>
    PROVE  ExecInv'
<1>1. request' \in [Requests -> {Resting, [pc |-> "insert"]} \cup [pc : {"cancel"}, read : Row]]
  BY DEF ExecInv, ExecTypeOK, Request
<1>2. UNCHANGED <<command, execution, aiAllowed, runner, started, heeded, lost>>
  BY DEF execHistory
<1>3. ExecTypeOK'
  BY <1>1, <1>2 DEF ExecInv, ExecTypeOK, Results, Search
<1>4. RowIsThere' /\ CancelIsLegal'
  BY <1>2 DEF ExecInv, ExecTypeOK, RowIsThere, CancelIsLegal, Request, CanTransition
<1>. QED
  BY <1>2, <1>3, <1>4 DEF ExecInv, NotStartedYet, HeededIsSeen

LEMMA InsertInv ==
    ASSUME ExecInv, NEW q \in Requests, CommandInsert(q)
    PROVE  ExecInv'
<1>. USE DEF CommandInsert
<1>1. execution' = [execution EXCEPT !.status = "queued"] /\ execution \in Row
  BY DEF ExecInv, ExecTypeOK
<1>2. execution' \in Row /\ execution'.status = "queued"
  BY <1>1 DEF Row, Transitions
<1>3. runner.pc = "none" /\ started = 0 /\ ~heeded
  BY DEF ExecInv, RowIsThere, NotStartedYet, HeededIsSeen
<1>4. /\ request' \in [Requests -> {Resting, [pc |-> "insert"]} \cup [pc : {"cancel"}, read : Row]]
      /\ \A r \in Requests : request'[r].pc = "cancel" => request'[r] = request[r]
  BY DEF ExecInv, ExecTypeOK, Request, Resting
<1>5. runner' = [pc |-> "spawned"] /\ UNCHANGED <<command, aiAllowed, started, heeded, lost>>
  BY DEF execHistory
<1>6. ExecTypeOK'
  BY <1>2, <1>4, <1>5 DEF ExecInv, ExecTypeOK
<1>7. RowIsThere'
  BY <1>2, <1>5 DEF RowIsThere
<1>8. CancelIsLegal'
  BY <1>4 DEF ExecInv, CancelIsLegal, CanTransition
<1>. QED
  BY <1>3, <1>5, <1>6, <1>7, <1>8 DEF ExecInv, NotStartedYet, HeededIsSeen

LEMMA CancelInv ==
    ASSUME ExecInv, NEW q \in Requests, CancelCommit(q)
    PROVE  ExecInv'
<1>. USE DEF CancelCommit
<1>1. execution \in Row /\ execution.status # "absent"
  BY DEF ExecInv, ExecTypeOK, RowIsThere
<1>2. execution' \in Row /\ execution'.status # "absent" /\ execution'.cancel
  BY <1>1 DEF Row, Transitions
<1>3. /\ request' \in [Requests -> {Resting, [pc |-> "insert"]} \cup [pc : {"cancel"}, read : Row]]
      /\ \A r \in Requests : request'[r].pc = "cancel" => request'[r] = request[r]
  BY DEF ExecInv, ExecTypeOK, Request, Resting
<1>4. UNCHANGED <<command, aiAllowed, runner, started, lost>> /\ heeded' \in BOOLEAN
  BY DEF ExecInv, ExecTypeOK
<1>5. ExecTypeOK'
  BY <1>2, <1>3, <1>4 DEF ExecInv, ExecTypeOK, Results, Search
<1>6. RowIsThere'
  BY <1>1, <1>2, <1>4 DEF ExecInv, RowIsThere
<1>7. CancelIsLegal'
  BY <1>3 DEF ExecInv, CancelIsLegal, CanTransition
<1>8. HeededIsSeen'
  BY <1>2, <1>4 DEF ExecInv, HeededIsSeen, NotStartedYet
<1>. QED
  BY <1>4, <1>5, <1>6, <1>7, <1>8 DEF ExecInv, NotStartedYet

\* A step of the thread that writes, or leaves, the row and starts no agent.
LEMMA RunnerStepInv ==
    ASSUME ExecInv, runner.pc # "none",
           execution' \in Row,
           execution'.cancel = execution.cancel,
           execution.status # "absent" => execution'.status # "absent",
           runner' \in [pc : {"done"}] \cup [pc : {"start", "check"}, read : Row]
                       \cup [pc : {"finish"}, read : Row, result : Results],
           runner'.pc \in {"start", "check"} => started = 0,
           heeded => runner'.pc = "done",
           lost' \in BOOLEAN,
           UNCHANGED <<command, aiAllowed, request, started, heeded>>
    PROVE  ExecInv'
<1>1. runner'.pc # "none" /\ runner'.pc # "spawned" /\ runner'.pc # "work"
  OBVIOUS
<1>2. ExecTypeOK'
  <2>1. runner' \in [pc : {"none", "spawned", "done"}]
                    \cup [pc : {"start", "check", "work"}, read : Row]
                    \cup [pc : {"finish"}, read : Row, result : Results']
    BY DEF Results, Search
  <2>. QED
    BY <2>1 DEF ExecInv, ExecTypeOK
<1>3. RowIsThere'
  BY <1>1 DEF ExecInv, RowIsThere
<1>4. CancelIsLegal'
  BY DEF ExecInv, CancelIsLegal, CanTransition
<1>. QED
  BY <1>1, <1>2, <1>3, <1>4 DEF ExecInv, NotStartedYet, HeededIsSeen

LEMMA RunnerInv ==
    ASSUME ExecInv, RunnerSteps \/ RunnerFails \/ RunnerIsLost
    PROVE  ExecInv'
<1>0. /\ execution \in Row
      /\ "running" \in DOMAIN Transitions \ {"absent"}
      /\ "blocked" \in DOMAIN Transitions \ {"absent"}
      /\ "cancelled" \in DOMAIN Transitions \ {"absent"}
      /\ "failed" \in DOMAIN Transitions \ {"absent"}
  BY DEF ExecInv, ExecTypeOK, Transitions
<1>1. CASE RunnerLeaves
  BY <1>0, <1>1, RunnerStepInv DEF RunnerLeaves, execHistory, ExecInv, ExecTypeOK
<1>2. CASE RunnerReads
  <2>1. started = 0 /\ ~heeded
    BY <1>2 DEF RunnerReads, ExecInv, NotStartedYet, HeededIsSeen
  <2>. QED
    BY <1>0, <1>2, <2>1, RunnerStepInv DEF RunnerReads, execHistory, ExecInv, ExecTypeOK
<1>3. CASE RunnerStarts
  <2>1. runner.read \in Row /\ started = 0 /\ ~heeded
    BY <1>3, RunnerType DEF RunnerStarts, ExecInv, NotStartedYet, HeededIsSeen
  <2>2. [runner.read EXCEPT !.status = "running"] \in Row
    BY <2>1 DEF Row, Transitions
  <2>3. SetStatus(runner.read, "running")
    BY <1>3 DEF RunnerStarts
  <2>4. /\ execution' \in Row
        /\ execution'.cancel = execution.cancel
        /\ execution.status # "absent" => execution'.status # "absent"
    BY <1>0, <2>3, SetStatusType DEF ExecInv
  <2>. QED
    BY <1>3, <2>1, <2>2, <2>4, RunnerStepInv DEF RunnerStarts, execHistory, ExecInv, ExecTypeOK
<1>4. CASE RunnerIsBlocked
  <2>1. SetStatus(runner.read, "blocked")
    BY <1>4 DEF RunnerIsBlocked
  <2>2. /\ execution' \in Row
        /\ execution'.cancel = execution.cancel
        /\ execution.status # "absent" => execution'.status # "absent"
    BY <1>0, <2>1, SetStatusType DEF ExecInv
  <2>. QED
    BY <1>4, <2>2, RunnerStepInv DEF RunnerIsBlocked, execHistory, ExecInv, ExecTypeOK
<1>5. CASE RunnerWorks
  <2>1. started = 0 /\ ~heeded /\ runner \in [pc : {"check"}, read : Row]
    BY <1>5 DEF RunnerWorks, ExecInv, ExecTypeOK, NotStartedYet, HeededIsSeen
  <2>2. /\ runner' \in [pc : {"work"}, read : Row]
        /\ started' = 1
        /\ UNCHANGED <<command, execution, aiAllowed, request, heeded, lost>>
    BY <1>5, <2>1 DEF RunnerWorks
  <2>3. ExecTypeOK'
    BY <2>2 DEF ExecInv, ExecTypeOK
  <2>. QED
    BY <2>1, <2>2, <2>3 DEF ExecInv, RowIsThere, CancelIsLegal, NotStartedYet, HeededIsSeen,
       CanTransition
<1>6. CASE RunnerGetsResult
  <2>1. ~heeded /\ runner.read \in Row
    BY <1>6, RunnerType DEF RunnerGetsResult, ExecInv, HeededIsSeen
  <2>2. runner' \in [pc : {"finish"}, read : Row, result : Results]
    BY <1>0, <1>6, <2>1 DEF RunnerGetsResult
  <2>. QED
    BY <1>0, <1>6, <2>1, <2>2, RunnerStepInv
       DEF RunnerGetsResult, execHistory, ExecInv, ExecTypeOK
<1>7. CASE RunnerFinishes
  <2>1. PICK status \in DOMAIN Transitions \ {"absent"} : SetStatus(runner.read, status)
    BY <1>0, <1>7, RunnerType, ResultsAreStatuses DEF RunnerFinishes, ExecInv
  <2>2. /\ execution' \in Row
        /\ execution'.cancel = execution.cancel
        /\ execution.status # "absent" => execution'.status # "absent"
    BY <2>1, SetStatusType DEF ExecInv
  <2>. QED
    BY <1>7, <2>2, RunnerStepInv DEF RunnerFinishes, execHistory, ExecInv, ExecTypeOK
<1>8. CASE RunnerFails
  <2>1. PICK read \in {runner.read, execution} : SetStatus(read, "failed")
    BY <1>8 DEF RunnerFails
  <2>2. /\ execution' \in Row
        /\ execution'.cancel = execution.cancel
        /\ execution.status # "absent" => execution'.status # "absent"
    BY <1>0, <2>1, SetStatusType DEF ExecInv
  <2>. QED
    BY <1>8, <2>2, RunnerStepInv DEF RunnerFails, execHistory, ExecInv, ExecTypeOK
<1>9. CASE RunnerIsLost
  BY <1>0, <1>9, RunnerStepInv DEF RunnerIsLost
<1>. QED
  BY <1>1, <1>2, <1>3, <1>4, <1>5, <1>6, <1>7, <1>8, <1>9 DEF RunnerSteps

LEMMA ExecStepInv == ASSUME ExecInv, [ExecNext]_execVars PROVE ExecInv'
<1>1. CASE ToggleAi
  <2>1. /\ UNCHANGED <<command, execution, request, runner, started, heeded, lost>>
        /\ aiAllowed' \in BOOLEAN
    BY <1>1 DEF ToggleAi, execHistory
  <2>2. ExecTypeOK'
    BY <2>1 DEF ExecInv, ExecTypeOK, Results, Search
  <2>. QED
    BY <2>1, <2>2 DEF ExecInv, RowIsThere, CancelIsLegal, NotStartedYet, HeededIsSeen,
       CanTransition
<1>2. ASSUME NEW q \in Requests, CommandLookup(q) PROVE ExecInv'
  BY <1>2, RequestStepInv DEF CommandLookup
<1>3. ASSUME NEW q \in Requests, CommandInsert(q) PROVE ExecInv'
  BY <1>3, InsertInv
<1>4. ASSUME NEW q \in Requests, CommandKeyTaken(q) PROVE ExecInv'
  BY <1>4, RequestStepInv DEF CommandKeyTaken, Resting
<1>5. ASSUME NEW q \in Requests, CancelRead(q) PROVE ExecInv'
  <2>1. [pc |-> "cancel", read |-> execution] \in [pc : {"cancel"}, read : Row]
    BY DEF ExecInv, ExecTypeOK
  <2>. QED
    BY <1>5, <2>1, RequestStepInv DEF CancelRead
<1>6. ASSUME NEW q \in Requests, CancelCommit(q) PROVE ExecInv'
  BY <1>6, CancelInv
<1>7. CASE RunnerSteps \/ RunnerFails \/ RunnerIsLost
  BY <1>7, RunnerInv
<1>8. CASE UNCHANGED execVars
  <2>1. UNCHANGED <<command, execution, aiAllowed, request, runner, started, heeded, lost>>
    BY <1>8 DEF execVars, execHistory
  <2>2. ExecTypeOK'
    BY <2>1 DEF ExecInv, ExecTypeOK, Results, Search
  <2>. QED
    BY <2>1, <2>2 DEF ExecInv, RowIsThere, CancelIsLegal, NotStartedYet, HeededIsSeen,
       CanTransition
<1>. QED
  BY <1>1, <1>2, <1>3, <1>4, <1>5, <1>6, <1>7, <1>8 DEF ExecNext

LEMMA ExecInductive == ExecSpec => []ExecInv
BY ExecInitInv, ExecStepInv, PTL DEF ExecSpec

\* The types of the row, of its requests and of its thread, for any number of requests.
THEOREM ExecutionTypeCorrect == ExecSpec => []ExecTypeOK
<1>1. ExecInv => ExecTypeOK
  BY DEF ExecInv
<1>. QED
  BY <1>1, ExecInductive, PTL

\* However many requests race on a command's key, its agent is started once, and never
\* after a cancel that the thread could read.
THEOREM AgentIsStartedOnce == ExecSpec => []AgentStartsOnce
<1>1. ExecInv => AgentStartsOnce
  BY DEF ExecInv, ExecTypeOK, HeededIsSeen, AgentStartsOnce
<1>. QED
  BY <1>1, ExecInductive, PTL

\* No cancel that reads an ended row changes how it ended.
THEOREM ResultsStay == ExecSpec => ResultStays
<1>1. ASSUME ExecInv, [ExecNext]_execVars,
             execution.status \in Ended, runner.pc = "done",
             \A q \in Requests : request[q].pc = "cancel" => request[q].read.status \in Ended
      PROVE  execution'.status = execution.status
  <2>1. execution.status # "absent"
    BY <1>1 DEF Ended
  <2>2. ASSUME NEW q \in Requests, CancelCommit(q)
        PROVE  execution'.status = execution.status
    <3>1. request[q].read.status \in Ended /\ CanTransition(request[q].read.status, "cancelled")
      BY <1>1, <2>2 DEF CancelCommit, ExecInv, CancelIsLegal
    <3>2. request[q].read.status = "cancelled"
      BY <3>1 DEF Ended, CanTransition, Transitions
    <3>. QED
      BY <2>2, <3>2 DEF CancelCommit
  <2>. QED
    BY <1>1, <2>1, <2>2 DEF ExecNext, ToggleAi, CommandLookup, CommandInsert, CommandKeyTaken,
       CancelRead, RunnerSteps, RunnerLeaves, RunnerReads, RunnerStarts, RunnerIsBlocked,
       RunnerWorks, RunnerGetsResult, RunnerFinishes, RunnerFails, RunnerIsLost, execVars
<1>2. ExecInv /\ [ExecNext]_execVars =>
        [execution.status \in Ended /\ runner.pc = "done"
         /\ (\A q \in Requests : request[q].pc = "cancel" => request[q].read.status \in Ended)
         => execution'.status = execution.status]_execVars
  BY <1>1
<1>. QED
  BY <1>2, ExecInductive, PTL DEF ExecSpec, ResultStays

----------------------------------------------------------------------------
(* Calls behind the circuit breaker.                                       *)

\* A caller goes on trying only while it has a retry left.
TriesLeft == \A c \in Callers : call[c].pc = "trying" => call[c].attempts <= MaxCallRetries

\* While the breaker is open every try since it opened belongs to the one call its
\* caller was in, and the caller whose failure opened it has made none.
TriesAreOfOneCall ==
    circuit.state = "open" =>
        /\ \A c \in Callers :
              /\ shielded[c] <= MaxCallRetries + 1
              /\ call[c].pc = "trying" => shielded[c] <= call[c].attempts
        /\ \E c \in Callers : shielded[c] = 0 /\ call[c] = NoCall

CallInv == CallTypeOK /\ TriesLeft /\ TriesAreOfOneCall

CallState == [pc : {"idle", "trying", "succeeded", "failed"}, attempts : 0..(MaxCallRetries + 1)]

CircuitState ==
    [state : {"closed", "open", "half_open"}, failures : 0..FailureThreshold, age : 0..ResetTimeout]

LEMMA BreakerTypes ==
    ASSUME NEW b \in CircuitState
    PROVE  /\ MaybeHalfOpen(b) \in CircuitState
           /\ AfterSuccess(b) \in CircuitState
           /\ AfterFailure(b) \in CircuitState
           /\ b.state = "open" => AfterSuccess(b).state = "open" /\ AfterFailure(b).state = "open"
           /\ AfterSuccess(b).state = "open" => b.state = "open"
           /\ MaybeHalfOpen(b).state = "open" => b.state = "open"
<1>1. 0 \in 0..FailureThreshold /\ 0 \in 0..ResetTimeout
  BY ProviderAssumption
<1>2. Counted(b.failures) \in 0..FailureThreshold
  BY ProviderAssumption DEF Counted, CircuitState
<1>. QED
  BY <1>1, <1>2 DEF CircuitState, MaybeHalfOpen, AfterSuccess, AfterFailure

LEMMA CallInitInv == CallInit => CallInv
<1>1. 0 \in 0..FailureThreshold /\ 0 \in 0..ResetTimeout /\ 0 \in 0..(MaxCallRetries + 1)
  BY ProviderAssumption
<1>. QED
  BY <1>1 DEF CallInit, CallInv, CallTypeOK, TriesLeft, TriesAreOfOneCall, NoCall

\* The breaker leaves "open", or was not open and is not: nothing is counted.
LEMMA NotOpenInv ==
    ASSUME CallInv, circuit' \in CircuitState, circuit'.state # "open",
           call' \in [Callers -> CallState],
           \A c \in Callers : call'[c].pc = "trying" => call'[c].attempts <= MaxCallRetries,
           NEW triers, Shielding(circuit', triers), healthy' \in BOOLEAN
    PROVE  CallInv'
<1>1. shielded' \in [Callers -> Nat]
  BY DEF Shielding
<1>. QED
  BY <1>1 DEF CallInv, CallTypeOK, CallState, CircuitState, TriesLeft, TriesAreOfOneCall

LEMMA TryInv == ASSUME CallInv, NEW c \in Callers, Try(c) PROVE CallInv'
<1>1. /\ call \in [Callers -> CallState]
      /\ call[c].pc = "trying" /\ call[c].attempts \in 0..MaxCallRetries
      /\ MaxCallRetries \in Nat
  BY ProviderAssumption DEF CallInv, CallTypeOK, CallState, TriesLeft, Try
<1>2. call[c].attempts + 1 \in 1..(MaxCallRetries + 1)
  BY <1>1
<1>3. PICK step \in CallState :
        /\ Goes(c, step)
        /\ step.pc = "trying" => /\ step.attempts = call[c].attempts + 1
                                 /\ step.attempts <= MaxCallRetries
        /\ step.pc = "idle" => step = NoCall
  <2>1. PICK answer \in Answers : Goes(c, AfterTry(answer, call[c].attempts + 1))
    BY DEF Try, Answers
  <2>. DEFINE step == AfterTry(answer, call[c].attempts + 1)
  <2>2. step \in CallState
    BY <1>1, <1>2 DEF AfterTry, CallState, NoCall
  <2>3. step.pc = "trying" => /\ step.attempts = call[c].attempts + 1
                             /\ step.attempts <= MaxCallRetries
    BY DEF AfterTry, NoCall, Retries
  <2>4. step.pc = "idle" => step = NoCall
    BY DEF AfterTry
  <2>. HIDE DEF step
  <2>. QED
    BY <2>1, <2>2, <2>3, <2>4 DEF step
<1>4. /\ call' \in [Callers -> CallState]
      /\ call'[c] = step
      /\ \A d \in Callers \ {c} : call'[d] = call[d]
  BY <1>1, <1>3 DEF Goes
<1>5. /\ shielded' \in [Callers -> Nat]
      /\ circuit.state = "open" =>
            /\ shielded'[c] = shielded[c] + 1
            /\ \A d \in Callers \ {c} : shielded'[d] = shielded[d]
      /\ UNCHANGED <<circuit, healthy>>
  BY DEF Try, Shielding, CallInv, CallTypeOK
<1>6. CallTypeOK'
  BY <1>4, <1>5 DEF CallInv, CallTypeOK, CallState
<1>7. TriesLeft'
  BY <1>3, <1>4 DEF CallInv, TriesLeft
<1>8. ASSUME circuit.state = "open"
      PROVE  TriesAreOfOneCall'
  <2>1. shielded[c] <= call[c].attempts /\ shielded[c] \in Nat
    BY <1>1, <1>8 DEF CallInv, CallTypeOK, TriesAreOfOneCall
  <2>2. /\ shielded'[c] <= MaxCallRetries + 1
        /\ call'[c].pc = "trying" => shielded'[c] <= call'[c].attempts
    BY <1>1, <1>2, <1>3, <1>4, <1>5, <1>8, <2>1
  <2>3. \A d \in Callers \ {c} :
          /\ shielded'[d] <= MaxCallRetries + 1
          /\ call'[d].pc = "trying" => shielded'[d] <= call'[d].attempts
    BY <1>4, <1>5, <1>8 DEF CallInv, TriesAreOfOneCall
  <2>4. \E d \in Callers : shielded'[d] = 0 /\ call'[d] = NoCall
    <3>1. PICK d \in Callers : shielded[d] = 0 /\ call[d] = NoCall
      BY <1>8 DEF CallInv, TriesAreOfOneCall
    <3>2. d # c
      BY <1>1, <3>1 DEF NoCall
    <3>. QED
      BY <1>4, <1>5, <1>8, <3>1, <3>2
  <2>. QED
    BY <2>2, <2>3, <2>4 DEF TriesAreOfOneCall
<1>9. ASSUME circuit.state # "open"
      PROVE  TriesAreOfOneCall'
  BY <1>5, <1>9 DEF TriesAreOfOneCall
<1>. QED
  BY <1>6, <1>7, <1>8, <1>9 DEF CallInv

LEMMA RecordInv ==
    ASSUME CallInv, NEW c \in Callers, Records(c)
    PROVE  CallInv'
<1>1. /\ circuit \in CircuitState
      /\ call \in [Callers -> CallState]
      /\ shielded \in [Callers -> Nat]
      /\ MaxCallRetries \in Nat
  BY ProviderAssumption DEF CallInv, CallTypeOK, CallState, CircuitState
<1>2. /\ circuit' \in CircuitState
      /\ circuit.state = "open" => circuit'.state = "open"
  BY <1>1, BreakerTypes DEF Records, RecordSuccess, RecordFailure
<1>3. /\ Goes(c, NoCall) /\ Shielding(circuit', {}) /\ UNCHANGED healthy
      /\ call[c].pc \in {"succeeded", "failed"}
  BY DEF Records, RecordSuccess, RecordFailure
<1>4. /\ call' \in [Callers -> CallState]
      /\ call'[c] = NoCall
      /\ \A d \in Callers \ {c} : call'[d] = call[d]
  BY <1>1, <1>3 DEF Goes, CallState, NoCall
<1>5. \A d \in Callers : call'[d].pc = "trying" => call'[d].attempts <= MaxCallRetries
  BY <1>4 DEF CallInv, TriesLeft, NoCall
<1>6. healthy' \in BOOLEAN
  BY <1>3 DEF CallInv, CallTypeOK
<1>7. CASE circuit'.state # "open"
  BY <1>2, <1>3, <1>4, <1>5, <1>6, <1>7, NotOpenInv
<1>8. CASE circuit'.state = "open" /\ circuit.state # "open"
  <2>1. shielded' = [d \in Callers |-> 0]
    BY <1>3, <1>8 DEF Shielding
  <2>2. \A d \in Callers : call'[d].pc = "trying" => 0 <= call'[d].attempts
    BY <1>4 DEF CallState
  <2>. QED
    BY <1>1, <1>2, <1>4, <1>5, <1>6, <2>1, <2>2
       DEF CallInv, CallTypeOK, CallState, CircuitState, TriesLeft, TriesAreOfOneCall
<1>9. CASE circuit'.state = "open" /\ circuit.state = "open"
  <2>1. shielded' = shielded
    BY <1>1, <1>3, <1>9 DEF Shielding
  <2>2. \E d \in Callers : shielded'[d] = 0 /\ call'[d] = NoCall
    <3>1. PICK d \in Callers : shielded[d] = 0 /\ call[d] = NoCall
      BY <1>9 DEF CallInv, TriesAreOfOneCall
    <3>. QED
      BY <1>4, <2>1, <3>1
  <2>3. \A d \in Callers :
          /\ shielded'[d] <= MaxCallRetries + 1
          /\ call'[d].pc = "trying" => shielded'[d] <= call'[d].attempts
    BY <1>4, <1>9, <2>1 DEF CallInv, TriesAreOfOneCall, NoCall
  <2>. QED
    BY <1>1, <1>2, <1>4, <1>5, <1>6, <2>1, <2>2, <2>3
       DEF CallInv, CallTypeOK, CallState, CircuitState, TriesLeft, TriesAreOfOneCall
<1>. QED
  BY <1>7, <1>8, <1>9

LEMMA CallStepInv == ASSUME CallInv, [CallNext]_callVars PROVE CallInv'
<1>0. /\ circuit \in CircuitState
      /\ call \in [Callers -> CallState]
      /\ shielded \in [Callers -> Nat]
      /\ healthy \in BOOLEAN
      /\ MaxCallRetries \in Nat
      /\ ResetTimeout \in Nat
  BY ProviderAssumption DEF CallInv, CallTypeOK, CallState, CircuitState
<1>1. CASE WaitTick
  <2>1. /\ circuit' \in CircuitState /\ circuit'.state = circuit.state
        /\ UNCHANGED <<call, healthy, shielded>>
    BY <1>0, <1>1 DEF WaitTick, CircuitState
  <2>. QED
    BY <2>1 DEF CallInv, CallTypeOK, CircuitState, TriesLeft, TriesAreOfOneCall
<1>2. CASE HealthChanges
  BY <1>2 DEF HealthChanges, CallInv, CallTypeOK, TriesLeft, TriesAreOfOneCall
<1>3. CASE ReadStatus
  <2>1. circuit' \in CircuitState /\ (circuit'.state = "open" => circuit.state = "open")
    BY <1>0, <1>3, BreakerTypes DEF ReadStatus
  <2>2. UNCHANGED <<call, healthy>> /\ Shielding(circuit', {})
    BY <1>3 DEF ReadStatus
  <2>3. CASE circuit'.state # "open"
    BY <1>0, <2>1, <2>2, <2>3, NotOpenInv DEF CallInv, TriesLeft
  <2>4. CASE circuit'.state = "open"
    <3>1. shielded' = shielded
      BY <1>0, <2>1, <2>2, <2>4 DEF Shielding
    <3>. QED
      BY <2>1, <2>2, <2>4, <3>1
         DEF CallInv, CallTypeOK, CircuitState, TriesLeft, TriesAreOfOneCall
  <2>. QED
    BY <2>3, <2>4
<1>4. ASSUME NEW c \in Callers, Ask(c) PROVE CallInv'
  <2>1. circuit' \in CircuitState /\ circuit'.state # "open"
    BY <1>0, <1>4, BreakerTypes DEF Ask
  <2>2. call' \in [Callers -> CallState]
    BY <1>0, <1>4 DEF Ask, Goes, CallState
  <2>3. \A d \in Callers : call'[d].pc = "trying" => call'[d].attempts <= MaxCallRetries
    BY <1>0, <1>4 DEF Ask, Goes, CallInv, TriesLeft
  <2>. QED
    BY <1>0, <1>4, <2>1, <2>2, <2>3, NotOpenInv DEF Ask
<1>5. ASSUME NEW c \in Callers, Try(c) PROVE CallInv'
  BY <1>5, TryInv
<1>6. ASSUME NEW c \in Callers, Records(c) PROVE CallInv'
  BY <1>6, RecordInv
<1>7. CASE UNCHANGED callVars
  BY <1>7 DEF callVars, CallInv, CallTypeOK, TriesLeft, TriesAreOfOneCall
<1>. QED
  BY <1>1, <1>2, <1>3, <1>4, <1>5, <1>6, <1>7 DEF CallNext

LEMMA CallInductive == CallSpec => []CallInv
BY CallInitInv, CallStepInv, PTL DEF CallSpec

\* The types of the breaker and of its calls: no call is tried more often than the
\* configured retries allow.
THEOREM CallTypeCorrect == CallSpec => []CallTypeOK
<1>1. CallInv => CallTypeOK
  BY DEF CallInv
<1>. QED
  BY <1>1, CallInductive, PTL

\* For any number of callers: an open breaker lets through only what was admitted before.
THEOREM OpenBreakerShields == CallSpec => []OpenShieldsService
<1>1. CallInv => OpenShieldsService
  BY DEF CallInv, TriesAreOfOneCall, OpenShieldsService
<1>. QED
  BY <1>1, CallInductive, PTL
=============================================================================
