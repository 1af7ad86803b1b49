-------------------------- MODULE ApprovalsProofs --------------------------
(***************************************************************************)
(* Proofs about approvals, for any rows, sessions, payloads and policy.    *)
(*                                                                         *)
(* The argument: the row an owner's transaction is deciding is locked by   *)
(* it and still pending (DecidingLocks), since every other write to a row  *)
(* waits for its lock; so a row is decided once, and what left the pending *)
(* status can only be withdrawn.  A grant therefore stays a grant of what  *)
(* the row bound when it was requested, however late an executor acts.     *)
(***************************************************************************)
EXTENDS ApprovalsRefinement, TLAPS

\* The row an owner's transaction is deciding is locked by it, and pending.
DecidingLocks ==
    \A s \in AllSessions :
        session[s].pc = "resolve" =>
            /\ lock[session[s].approval] = s
            /\ status[session[s].approval] = "pending"

\* The owner decides requested rows, and a decided row is not pending.
DecidedIsClosed == \A a \in granted \cup refused : status[a] \in Terminal

\* An approved row is one that the owner granted.
ApprovedIsGranted == \A a \in Approval : status[a] = "approved" => a \in granted

\* What licenses an execution: the policy does not reserve the action for humans, and
\* a yellow content has a granted row of the same action, and of the same content if
\* the executor rebinds it.
Licensed(x) ==
    /\ RiskOf[ActionOf[x.content]] # "red"
    /\ RiskOf[ActionOf[x.content]] = "yellow" =>
        /\ x.approval \in granted
        /\ ActionOf[content[x.approval]] = ActionOf[x.content]
        /\ x.rebind => content[x.approval] = x.content

ExecutingIsLicensed ==
    \A s \in AllSessions : session[s].pc = "execute" => Licensed(session[s])

ExecutedIsLicensed == executed.content # NoContent => Licensed(executed)

IInv ==
    /\ TypeOK
    /\ NeverBothWays
    /\ DecidingLocks
    /\ DecidedIsClosed
    /\ ApprovedIsGranted
    /\ ExecutingIsLicensed
    /\ ExecutedIsLicensed

----------------------------------------------------------------------------
(* The policy gate.                                                        *)

\* What the gate's answer "allow" means.
LEMMA GateAllow ==
    ASSUME TypeOK, NEW a \in Approval \cup {NoApproval}, NEW c \in Contents,
           NEW rebind \in BOOLEAN, Gate(a, c, rebind) = "allow"
    PROVE  /\ RiskOf[ActionOf[c]] # "red"
           /\ RiskOf[ActionOf[c]] = "yellow" =>
                /\ a \in Approval
                /\ status[a] = "approved"
                /\ ActionOf[content[a]] = ActionOf[c]
                /\ rebind => content[a] = c
<1>1. ActionOf[c] \in Actions /\ RiskOf[ActionOf[c]] \in Risks
  BY PolicyAssumption DEF Actions
<1>2. CASE RiskOf[ActionOf[c]] = "green"
  BY <1>2
<1>3. CASE RiskOf[ActionOf[c]] = "red"
  <2>1. Gate(a, c, rebind) = "human_only"
    BY <1>3 DEF Gate
  <2>. QED
    BY <2>1
<1>4. CASE RiskOf[ActionOf[c]] = "yellow"
  <2>1. Gate(a, c, rebind) = YellowGate(a, c, rebind)
    BY <1>4 DEF Gate
  <2>2. YellowGate(a, c, rebind) = "allow"
    BY <2>1
  <2>. QED
    BY <1>4, <2>2 DEF YellowGate
<1>. QED
  BY <1>1, <1>2, <1>3, <1>4 DEF Risks

----------------------------------------------------------------------------
(* Type correctness.                                                       *)

LEMMA SessionTypes ==
    ASSUME TypeOK, NEW s \in AllSessions
    PROVE  /\ session[s].pc = "create" =>
                /\ session[s].content \in Contents
                /\ session[s].found \in Approval \cup {NoApproval}
                /\ session[s].expires \in Nat
           /\ session[s].pc = "sweep" => session[s].due \subseteq Approval
           /\ session[s].pc = "resolve" =>
                /\ session[s].approval \in Approval
                /\ session[s].outcome \in {"approved", "rejected", "cancelled"}
           /\ session[s].pc = "execute" =>
                /\ session[s].approval \in Approval \cup {NoApproval}
                /\ session[s].content \in Contents
                /\ session[s].rebind \in BOOLEAN
           /\ session[s].pc = "mark" =>
                /\ session[s].approval \in Approval
                /\ session[s].as \in {"expired", "cancelled"}
<1>1. session[s] \in Work
  BY DEF TypeOK
<1>. QED
  BY <1>1 DEF Work, Idle

LEMMA InitType == Init => TypeOK
<1>. SUFFICES ASSUME Init PROVE TypeOK
  OBVIOUS
<1>. USE DEF Init
<1>1. status \in [Approval -> Statuses]
  BY DEF Statuses
<1>2. session \in [AllSessions -> Work]
  BY DEF Work
<1>. QED
  BY <1>1, <1>2 DEF TypeOK

\* Starting and finishing leave every session well typed.
LEMMA StartType ==
    ASSUME TypeOK, NEW s \in AllSessions, NEW work \in Work, Start(s, work)
    PROVE  session' \in [AllSessions -> Work]
BY DEF TypeOK, Start

LEMMA FinishType ==
    ASSUME TypeOK, NEW s \in AllSessions, Finish(s)
    PROVE  session' \in [AllSessions -> Work]
BY DEF TypeOK, Finish, Work

LEMMA NextType == TypeOK /\ [Next]_vars => TypeOK'
<1>. SUFFICES ASSUME TypeOK, [Next]_vars PROVE TypeOK'
  OBVIOUS
<1>. USE DEF rows, history
<1>. Sessions \subseteq AllSessions /\ Sweepers \subseteq AllSessions
  BY DEF AllSessions
<1>1. CASE Tick
  BY <1>1 DEF Tick, TypeOK
<1>2. ASSUME NEW s \in Sessions, NEW c \in Contents, FindPending(s, c) PROVE TypeOK'
  <2>1. PICK found \in Approval \cup {NoApproval} :
          Start(s, [pc |-> "create", content |-> c, found |-> found,
                    expires |-> Expiry(now)])
    <3>1. Pending(c) \subseteq Approval
      BY DEF Pending
    <3>. QED
      BY <1>2, <3>1 DEF FindPending
  <2>2. Expiry(now) \in Nat
    BY TimeAssumption DEF Expiry, TypeOK
  <2>3. [pc |-> "create", content |-> c, found |-> found, expires |-> Expiry(now)] \in Work
    BY <2>2 DEF Work
  <2>4. session' \in [AllSessions -> Work]
    BY <2>1, <2>3, StartType
  <2>. QED
    BY <1>2, <2>4 DEF FindPending, TypeOK
<1>3. ASSUME NEW s \in Sessions, Create(s) PROVE TypeOK'
  <2>1. session' \in [AllSessions -> Work]
    BY <1>3, FinishType DEF Create
  <2>2. session[s].content \in Contents /\ session[s].expires \in Nat
    BY <1>3, SessionTypes DEF Create
  <2>3. status' \in [Approval -> Statuses]
    BY <1>3 DEF Create, TypeOK, Statuses
  <2>4. /\ content' \in [Approval -> Contents \cup {NoContent}]
        /\ expires' \in [Approval -> Nat]
    BY <1>3, <2>2 DEF Create, TypeOK
  <2>. QED
    BY <1>3, <2>1, <2>3, <2>4 DEF Create, TypeOK
<1>4. ASSUME NEW s \in Sweepers, SweepRead(s) PROVE TypeOK'
  <2>1. [pc |-> "sweep", due |-> {a \in Approval : Due(a)}] \in Work
    BY DEF Work
  <2>2. session' \in [AllSessions -> Work]
    BY <1>4, <2>1, StartType DEF SweepRead
  <2>. QED
    BY <1>4, <2>2 DEF SweepRead, TypeOK
<1>5. ASSUME NEW s \in Sweepers, SweepCommit(s) PROVE TypeOK'
  <2>1. session' \in [AllSessions -> Work]
    BY <1>5, FinishType DEF SweepCommit
  <2>2. status' \in [Approval -> Statuses]
    BY <1>5 DEF SweepCommit, TypeOK, Statuses
  <2>. QED
    BY <1>5, <2>1, <2>2 DEF SweepCommit, TypeOK
<1>6. ASSUME NEW s \in Sessions, NEW a \in Approval, NEW outcome \in {"approved", "rejected"},
             OwnerDecides(s, a, outcome)
      PROVE  TypeOK'
  <2>1. [pc |-> "resolve", approval |-> a, outcome |-> outcome] \in Work
    BY DEF Work
  <2>2. session' \in [AllSessions -> Work]
    BY <1>6, <2>1, StartType DEF OwnerDecides
  <2>. QED
    BY <1>6, <2>2 DEF OwnerDecides, TypeOK
<1>7. ASSUME NEW s \in Sessions, NEW a \in Approval, OwnerCancels(s, a) PROVE TypeOK'
  <2>1. [pc |-> "resolve", approval |-> a, outcome |-> "cancelled"] \in Work
    BY DEF Work
  <2>2. session' \in [AllSessions -> Work]
    BY <1>7, <2>1, StartType DEF OwnerCancels
  <2>. QED
    BY <1>7, <2>2 DEF OwnerCancels, TypeOK
<1>8. ASSUME NEW s \in Sessions, ResolveCommit(s) PROVE TypeOK'
  <2>1. session' \in [AllSessions -> Work]
    BY <1>8, FinishType DEF ResolveCommit
  <2>2. /\ session[s].approval \in Approval
        /\ session[s].outcome \in {"approved", "rejected", "cancelled"}
    BY <1>8, SessionTypes DEF ResolveCommit
  <2>3. status' \in [Approval -> Statuses]
    BY <1>8, <2>2 DEF ResolveCommit, TypeOK, Statuses
  <2>. QED
    BY <1>8, <2>1, <2>2, <2>3 DEF ResolveCommit, TypeOK
<1>9. ASSUME NEW s \in Sessions, NEW a \in Approval \cup {NoApproval}, NEW c \in Contents,
             NEW rebind \in BOOLEAN, GateAllows(s, a, c, rebind)
      PROVE  TypeOK'
  <2>1. [pc |-> "execute", approval |-> a, content |-> c, rebind |-> rebind] \in Work
    BY DEF Work
  <2>2. session' \in [AllSessions -> Work]
    BY <1>9, <2>1, StartType DEF GateAllows
  <2>. QED
    BY <1>9, <2>2 DEF GateAllows, TypeOK
<1>10. ASSUME NEW s \in Sessions, NEW a \in Approval, NEW c \in Contents,
              NEW rebind \in BOOLEAN, GateMarks(s, a, c, rebind)
       PROVE  TypeOK'
  <2>1. /\ [pc |-> "mark", approval |-> a, as |-> "expired"] \in Work
        /\ [pc |-> "mark", approval |-> a, as |-> "cancelled"] \in Work
    BY DEF Work
  <2>2. session' \in [AllSessions -> Work]
    BY <1>10, <2>1, StartType DEF GateMarks
  <2>. QED
    BY <1>10, <2>2 DEF GateMarks, TypeOK
<1>11. ASSUME NEW s \in Sessions, MarkCommit(s) PROVE TypeOK'
  <2>1. session' \in [AllSessions -> Work]
    BY <1>11, FinishType DEF MarkCommit
  <2>2. session[s].as \in {"expired", "cancelled"}
    BY <1>11, SessionTypes DEF MarkCommit
  <2>3. status' \in [Approval -> Statuses]
    BY <1>11, <2>2 DEF MarkCommit, TypeOK, Statuses
  <2>. QED
    BY <1>11, <2>1, <2>3 DEF MarkCommit, TypeOK
<1>12. ASSUME NEW s \in Sessions, Execute(s) PROVE TypeOK'
  <2>1. session' \in [AllSessions -> Work]
    BY <1>12, FinishType DEF Execute
  <2>2. executed' \in Execution
    BY <1>12, SessionTypes DEF Execute, Execution
  <2>. QED
    BY <1>12, <2>1, <2>2 DEF Execute, TypeOK
<1>13. ASSUME NEW s \in AllSessions, Crash(s) PROVE TypeOK'
  <2>1. session' \in [AllSessions -> Work]
    BY <1>13, FinishType DEF Crash
  <2>. QED
    BY <1>13, <2>1 DEF Crash, TypeOK
<1>14. CASE UNCHANGED vars
  BY <1>14 DEF vars, TypeOK
<1>. QED
  BY <1>1, <1>2, <1>3, <1>4, <1>5, <1>6, <1>7, <1>8, <1>9, <1>10, <1>11, <1>12, <1>13, <1>14
  DEF Next, OwnerStep, AgentStep, SweepStep

\* Every reachable state is well typed, for any rows, sessions, payloads and policy.
THEOREM TypeCorrect == Spec => []TypeOK
BY InitType, NextType, PTL DEF Spec

----------------------------------------------------------------------------
(* The inductive invariant.                                                *)

LEMMA InitInv == Init => IInv
<1>. SUFFICES ASSUME Init PROVE IInv
  OBVIOUS
<1>1. TypeOK
  BY InitType
<1>2. NeverBothWays /\ DecidedIsClosed /\ ApprovedIsGranted
  BY DEF Init, NeverBothWays, DecidedIsClosed, ApprovedIsGranted
<1>3. DecidingLocks /\ ExecutingIsLicensed
  BY DEF Init, DecidingLocks, ExecutingIsLicensed, Idle
<1>4. ExecutedIsLicensed
  BY DEF Init, ExecutedIsLicensed, NothingYet
<1>. QED
  BY <1>1, <1>2, <1>3, <1>4 DEF IInv

\* A session begins work that locks nothing; an execution begins licensed.
LEMMA StartInv ==
    ASSUME IInv, TypeOK', NEW s \in AllSessions, NEW work \in Work, Start(s, work),
           UNCHANGED <<rows, lock, history>>,
           work.pc # "resolve",
           work.pc = "execute" => Licensed(work)
    PROVE  IInv'
<1>. USE DEF IInv, rows, history
<1>1. NeverBothWays' /\ DecidedIsClosed' /\ ApprovedIsGranted' /\ ExecutedIsLicensed'
  BY DEF NeverBothWays, DecidedIsClosed, ApprovedIsGranted, ExecutedIsLicensed, Licensed
<1>2. \A t \in AllSessions : session'[t] = IF t = s THEN work ELSE session[t]
  BY DEF Start, TypeOK
<1>3. DecidingLocks'
  BY <1>2 DEF DecidingLocks
<1>4. ExecutingIsLicensed'
  BY <1>2 DEF ExecutingIsLicensed, Licensed
<1>. QED
  BY <1>1, <1>3, <1>4

\* An owner's transaction begins by locking a pending row that nobody else locks.
LEMMA LockInv ==
    ASSUME IInv, TypeOK', NEW s \in AllSessions, NEW a \in Approval,
           NEW outcome \in {"approved", "rejected", "cancelled"},
           Unlocked({a}), status[a] = "pending",
           Start(s, [pc |-> "resolve", approval |-> a, outcome |-> outcome]),
           lock' = [lock EXCEPT ![a] = s],
           UNCHANGED <<rows, history>>
    PROVE  IInv'
<1>. USE DEF IInv, rows, history
<1>1. NeverBothWays' /\ DecidedIsClosed' /\ ApprovedIsGranted' /\ ExecutedIsLicensed'
  BY DEF NeverBothWays, DecidedIsClosed, ApprovedIsGranted, ExecutedIsLicensed, Licensed
<1>2. \A t \in AllSessions :
        session'[t] = IF t = s THEN [pc |-> "resolve", approval |-> a, outcome |-> outcome]
                      ELSE session[t]
  BY DEF Start, TypeOK
<1>3. DecidingLocks'
  <2>. SUFFICES ASSUME NEW t \in AllSessions, session'[t].pc = "resolve"
                PROVE  /\ lock'[session'[t].approval] = t
                       /\ status'[session'[t].approval] = "pending"
    BY DEF DecidingLocks
  <2>1. CASE t = s
    BY <1>2, <2>1 DEF TypeOK
  <2>2. CASE t # s
    <3>1. lock[session[t].approval] = t /\ status[session[t].approval] = "pending"
      BY <1>2, <2>2 DEF DecidingLocks
    <3>2. session[t].approval # a
      BY <3>1, NamesAssumption DEF Unlocked
    <3>. QED
      BY <1>2, <2>2, <3>1, <3>2 DEF TypeOK
  <2>. QED
    BY <2>1, <2>2
<1>4. ExecutingIsLicensed'
  BY <1>2 DEF ExecutingIsLicensed, Licensed
<1>. QED
  BY <1>1, <1>3, <1>4

\* A commit of a session that locks nothing withdraws unlocked rows, or requests a new
\* one; it leaves what requested rows bind.
LEMMA WriteInv ==
    ASSUME IInv, TypeOK', NEW s \in AllSessions, Finish(s),
           UNCHANGED <<lock, history>>,
           \A a \in Approval :
                \/ status'[a] = status[a]
                \/ status'[a] \in {"expired", "cancelled"} /\ lock[a] = NoSession
                \/ status[a] = "absent" /\ status'[a] = "pending",
           \A a \in Approval : status[a] # "absent" => content'[a] = content[a]
    PROVE  IInv'
<1>. USE DEF IInv, history
<1>1. \A t \in AllSessions : session'[t] = IF t = s THEN Idle ELSE session[t]
  BY DEF Finish, TypeOK
<1>2. NeverBothWays'
  BY DEF NeverBothWays
<1>3. granted \subseteq Approval /\ refused \subseteq Approval
  BY DEF TypeOK
<1>4. \A a \in granted : content'[a] = content[a]
  BY <1>3 DEF DecidedIsClosed, Terminal
<1>5. DecidedIsClosed'
  BY <1>3 DEF DecidedIsClosed, Terminal
<1>6. ApprovedIsGranted'
  BY DEF ApprovedIsGranted
<1>7. DecidingLocks'
  <2>. SUFFICES ASSUME NEW t \in AllSessions, session'[t].pc = "resolve"
                PROVE  /\ lock[session'[t].approval] = t
                       /\ status'[session'[t].approval] = "pending"
    BY DEF DecidingLocks
  <2>1. session'[t] = session[t]
    BY <1>1 DEF Idle
  <2>2. lock[session[t].approval] = t /\ status[session[t].approval] = "pending"
    BY <2>1 DEF DecidingLocks
  <2>3. session[t].approval \in Approval
    BY <2>1, SessionTypes
  <2>. QED
    BY <2>1, <2>2, <2>3, NamesAssumption
<1>8. ExecutingIsLicensed'
  <2>. SUFFICES ASSUME NEW t \in AllSessions, session'[t].pc = "execute"
                PROVE  Licensed(session[t])' 
    BY DEF ExecutingIsLicensed
  <2>1. session'[t] = session[t]
    BY <1>1 DEF Idle
  <2>2. Licensed(session[t])
    BY <2>1 DEF ExecutingIsLicensed
  <2>. QED
    BY <1>4, <2>1, <2>2 DEF Licensed
<1>9. ExecutedIsLicensed'
  BY <1>4 DEF ExecutedIsLicensed, Licensed
<1>. QED
  BY <1>2, <1>5, <1>6, <1>7, <1>8, <1>9

\* The owner's commit decides a row that was not decided before, and no other.
LEMMA ResolveInv ==
    ASSUME IInv, TypeOK', NEW s \in AllSessions, ResolveCommit(s)
    PROVE  IInv'
<1>. USE DEF IInv
<1>. DEFINE a == session[s].approval
            outcome == session[s].outcome
<1>1. \A t \in AllSessions : session'[t] = IF t = s THEN Idle ELSE session[t]
  BY DEF ResolveCommit, Finish, TypeOK
<1>2. /\ a \in Approval
      /\ outcome \in {"approved", "rejected", "cancelled"}
      /\ lock[a] = s
      /\ status[a] = "pending"
  BY SessionTypes DEF ResolveCommit, DecidingLocks
<1>3. a \notin granted /\ a \notin refused
  BY <1>2 DEF DecidedIsClosed, Terminal
<1>4. /\ \A b \in Approval : /\ status'[b] = IF b = a THEN outcome ELSE status[b]
                             /\ lock'[b] = IF b = a THEN NoSession ELSE lock[b]
      /\ granted' = IF outcome = "approved" THEN granted \cup {a} ELSE granted
      /\ refused' = IF outcome = "rejected" THEN refused \cup {a} ELSE refused
      /\ content' = content /\ executed' = executed
  BY DEF ResolveCommit, TypeOK
<1>5. granted \subseteq Approval /\ refused \subseteq Approval
  BY DEF TypeOK
<1>. HIDE DEF a, outcome
<1>6. NeverBothWays'
  BY <1>3, <1>4 DEF NeverBothWays
<1>7. DecidedIsClosed'
  BY <1>2, <1>4, <1>5 DEF DecidedIsClosed, Terminal
<1>8. ApprovedIsGranted'
  BY <1>2, <1>4 DEF ApprovedIsGranted
<1>9. DecidingLocks'
  <2>. SUFFICES ASSUME NEW t \in AllSessions, session'[t].pc = "resolve"
                PROVE  /\ lock'[session'[t].approval] = t
                       /\ status'[session'[t].approval] = "pending"
    BY DEF DecidingLocks
  <2>1. t # s /\ session'[t] = session[t]
    BY <1>1 DEF Idle
  <2>2. /\ session[t].approval \in Approval
        /\ lock[session[t].approval] = t
        /\ status[session[t].approval] = "pending"
    BY <2>1, SessionTypes DEF DecidingLocks
  <2>3. session[t].approval # a
    BY <1>2, <2>1, <2>2
  <2>. QED
    BY <1>4, <2>1, <2>2, <2>3
<1>10. ExecutingIsLicensed'
  BY <1>1, <1>4 DEF ExecutingIsLicensed, Licensed, Idle
<1>11. ExecutedIsLicensed'
  BY <1>4 DEF ExecutedIsLicensed, Licensed
<1>. QED
  BY <1>6, <1>7, <1>8, <1>9, <1>10, <1>11

\* An executor acts as licensed as it began.
LEMMA ExecuteInv ==
    ASSUME IInv, TypeOK', NEW s \in AllSessions, Execute(s)
    PROVE  IInv'
<1>. USE DEF IInv, rows
<1>1. \A t \in AllSessions : session'[t] = IF t = s THEN Idle ELSE session[t]
  BY DEF Execute, Finish, TypeOK
<1>2. NeverBothWays' /\ DecidedIsClosed' /\ ApprovedIsGranted'
  BY DEF Execute, NeverBothWays, DecidedIsClosed, ApprovedIsGranted
<1>3. DecidingLocks'
  BY <1>1 DEF Execute, DecidingLocks, Idle
<1>4. ExecutingIsLicensed'
  BY <1>1 DEF Execute, ExecutingIsLicensed, Licensed, Idle
<1>5. ExecutedIsLicensed'
  <2>1. Licensed(session[s])
    BY DEF Execute, ExecutingIsLicensed
  <2>2. UNCHANGED <<status, content, granted>>
    BY DEF Execute
  <2>3. /\ executed'.approval = session[s].approval
        /\ executed'.content = session[s].content
        /\ executed'.rebind = session[s].rebind
    BY DEF Execute
  <2>. QED
    BY <2>1, <2>2, <2>3 DEF ExecutedIsLicensed, Licensed
<1>. QED
  BY <1>2, <1>3, <1>4, <1>5

\* A crash releases the locks of the session that dies, and no other.
LEMMA CrashInv ==
    ASSUME IInv, TypeOK', NEW s \in AllSessions, Crash(s)
    PROVE  IInv'
<1>. USE DEF IInv, rows, history
<1>1. \A t \in AllSessions : session'[t] = IF t = s THEN Idle ELSE session[t]
  BY DEF Crash, Finish, TypeOK
<1>2. NeverBothWays' /\ DecidedIsClosed' /\ ApprovedIsGranted' /\ ExecutedIsLicensed'
  BY DEF Crash, NeverBothWays, DecidedIsClosed, ApprovedIsGranted, ExecutedIsLicensed, Licensed
<1>3. DecidingLocks'
  <2>. SUFFICES ASSUME NEW t \in AllSessions, session'[t].pc = "resolve"
                PROVE  /\ lock'[session'[t].approval] = t
                       /\ status'[session'[t].approval] = "pending"
    BY DEF DecidingLocks
  <2>1. t # s /\ session'[t] = session[t]
    BY <1>1 DEF Idle
  <2>2. session[t].approval \in Approval
    BY <2>1, SessionTypes
  <2>. QED
    BY <2>1, <2>2 DEF Crash, DecidingLocks
<1>4. ExecutingIsLicensed'
  BY <1>1 DEF Crash, ExecutingIsLicensed, Licensed, Idle
<1>. QED
  BY <1>2, <1>3, <1>4

LEMMA NextInv == IInv /\ [Next]_vars => IInv'
<1>. SUFFICES ASSUME IInv, [Next]_vars PROVE IInv'
  OBVIOUS
<1>. USE DEF rows, history
<1>. Sessions \subseteq AllSessions /\ Sweepers \subseteq AllSessions
  BY DEF AllSessions
<1>0. TypeOK /\ TypeOK'
  BY NextType DEF IInv
<1>1. CASE UNCHANGED <<rows, lock, session, history>>
  BY <1>0, <1>1 DEF IInv, NeverBothWays, DecidingLocks, DecidedIsClosed, ApprovedIsGranted,
     ExecutingIsLicensed, ExecutedIsLicensed, Licensed
<1>2. ASSUME NEW s \in Sessions, NEW c \in Contents, FindPending(s, c) PROVE IInv'
  <2>1. PICK found \in Approval \cup {NoApproval} :
          Start(s, [pc |-> "create", content |-> c, found |-> found,
                    expires |-> Expiry(now)])
    <3>1. Pending(c) \subseteq Approval
      BY DEF Pending
    <3>. QED
      BY <1>2, <3>1 DEF FindPending
  <2>2. [pc |-> "create", content |-> c, found |-> found, expires |-> Expiry(now)] \in Work
    BY <1>0, TimeAssumption DEF Work, Expiry, TypeOK
  <2>. QED
    BY <1>0, <1>2, <2>1, <2>2, StartInv DEF FindPending
<1>3. ASSUME NEW s \in Sessions, Create(s) PROVE IInv'
  <2>1. PICK a \in Approval :
          /\ status[a] = "absent"
          /\ session[s].found # NoApproval => Unlocked({session[s].found})
          /\ status' = [b \in Approval |-> IF b = a THEN "pending"
                                          ELSE IF b = session[s].found THEN "expired"
                                          ELSE status[b]]
          /\ content' = [content EXCEPT ![a] = session[s].content]
    BY <1>3 DEF Create
  <2>2. \A b \in Approval :
          \/ status'[b] = status[b]
          \/ status'[b] \in {"expired", "cancelled"} /\ lock[b] = NoSession
          \/ status[b] = "absent" /\ status'[b] = "pending"
    BY <2>1, NamesAssumption DEF Unlocked
  <2>3. \A b \in Approval : status[b] # "absent" => content'[b] = content[b]
    BY <1>0, <2>1 DEF TypeOK
  <2>. QED
    BY <1>0, <1>3, <2>2, <2>3, WriteInv DEF Create
<1>4. ASSUME NEW s \in Sweepers, SweepRead(s) PROVE IInv'
  <2>1. [pc |-> "sweep", due |-> {a \in Approval : Due(a)}] \in Work
    BY DEF Work
  <2>. QED
    BY <1>0, <1>4, <2>1, StartInv DEF SweepRead
<1>5. ASSUME NEW s \in Sweepers, SweepCommit(s) PROVE IInv'
  <2>1. \A b \in Approval :
          \/ status'[b] = status[b]
          \/ status'[b] \in {"expired", "cancelled"} /\ lock[b] = NoSession
    BY <1>5 DEF SweepCommit, Unlocked
  <2>. QED
    BY <1>0, <1>5, <2>1, WriteInv DEF SweepCommit
<1>6. ASSUME NEW s \in Sessions, NEW a \in Approval, NEW outcome \in {"approved", "rejected"},
             OwnerDecides(s, a, outcome)
      PROVE  IInv'
  BY <1>0, <1>6, LockInv DEF OwnerDecides
<1>7. ASSUME NEW s \in Sessions, NEW a \in Approval, OwnerCancels(s, a) PROVE IInv'
  BY <1>0, <1>7, LockInv DEF OwnerCancels
<1>8. ASSUME NEW s \in Sessions, ResolveCommit(s) PROVE IInv'
  BY <1>0, <1>8, ResolveInv
<1>9. ASSUME NEW s \in Sessions, NEW a \in Approval \cup {NoApproval}, NEW c \in Contents,
             NEW rebind \in BOOLEAN, GateAllows(s, a, c, rebind)
      PROVE  IInv'
  <2>. DEFINE work == [pc |-> "execute", approval |-> a, content |-> c, rebind |-> rebind]
  <2>1. work \in Work
    BY DEF Work
  <2>2. Licensed(work)
    <3>1. Gate(a, c, rebind) = "allow"
      BY <1>9 DEF GateAllows
    <3>. QED
      BY <1>0, <3>1, GateAllow DEF Licensed, IInv, ApprovedIsGranted
  <2>. QED
    BY <1>0, <1>9, <2>1, <2>2, StartInv DEF GateAllows
<1>10. ASSUME NEW s \in Sessions, NEW a \in Approval, NEW c \in Contents,
              NEW rebind \in BOOLEAN, GateMarks(s, a, c, rebind)
       PROVE  IInv'
  <2>1. /\ [pc |-> "mark", approval |-> a, as |-> "expired"] \in Work
        /\ [pc |-> "mark", approval |-> a, as |-> "cancelled"] \in Work
    BY DEF Work
  <2>2. CASE Start(s, [pc |-> "mark", approval |-> a, as |-> "expired"])
    BY <1>0, <1>10, <2>1, <2>2, StartInv DEF GateMarks
  <2>3. CASE Start(s, [pc |-> "mark", approval |-> a, as |-> "cancelled"])
    BY <1>0, <1>10, <2>1, <2>3, StartInv DEF GateMarks
  <2>. QED
    BY <1>10, <2>2, <2>3 DEF GateMarks
<1>11. ASSUME NEW s \in Sessions, MarkCommit(s) PROVE IInv'
  <2>1. session[s].as \in {"expired", "cancelled"}
    BY <1>0, <1>11, SessionTypes DEF MarkCommit
  <2>2. \A b \in Approval :
          \/ status'[b] = status[b]
          \/ status'[b] \in {"expired", "cancelled"} /\ lock[b] = NoSession
    BY <1>0, <1>11, <2>1 DEF MarkCommit, Unlocked, TypeOK
  <2>. QED
    BY <1>0, <1>11, <2>2, WriteInv DEF MarkCommit
<1>12. ASSUME NEW s \in Sessions, Execute(s) PROVE IInv'
  BY <1>0, <1>12, ExecuteInv
<1>13. ASSUME NEW s \in AllSessions, Crash(s) PROVE IInv'
  BY <1>0, <1>13, CrashInv
<1>14. CASE Tick
  BY <1>1, <1>14 DEF Tick
<1>15. CASE UNCHANGED vars
  BY <1>1, <1>15 DEF vars
<1>. QED
  BY <1>2, <1>3, <1>4, <1>5, <1>6, <1>7, <1>8, <1>9, <1>10, <1>11, <1>12, <1>13, <1>14, <1>15
  DEF Next, OwnerStep, AgentStep, SweepStep

LEMMA Inductive == Spec => []IInv
BY InitInv, NextInv, PTL DEF Spec

----------------------------------------------------------------------------
(* What follows.                                                           *)

\* No row is both approved and rejected, whichever owner requests race on it.
THEOREM DecidedOneWay == Spec => []NeverBothWays
<1>1. IInv => NeverBothWays
  BY DEF IInv
<1>. QED
  BY <1>1, Inductive, PTL

\* A yellow content is executed only on a row granted for it and never rejected, and a
\* red one never, although the row may have been withdrawn since the gate was asked.
THEOREM ExecutionsAreGranted == Spec => []ExecutedWasGranted
<1>1. IInv => ExecutedWasGranted
  BY DEF IInv, ExecutedIsLicensed, Licensed, ExecutedWasGranted, NeverBothWays
<1>. QED
  BY <1>1, Inductive, PTL

\* A step changes the status of a requested row only from pending to what its owner
\* decides, or to a withdrawal.
LEMMA StatusStep ==
    ASSUME IInv, [Next]_vars, NEW a \in Approval, status'[a] # status[a]
    PROVE  \/ status[a] = "absent" /\ status'[a] = "pending"
           \/ status[a] = "pending" /\ status'[a] \in {"approved", "rejected"}
           \/ status'[a] \in {"expired", "cancelled"}
<1>. USE DEF rows, history
<1>. Sessions \subseteq AllSessions /\ Sweepers \subseteq AllSessions
  BY DEF AllSessions
<1>0. TypeOK
  BY DEF IInv
<1>1. PICK s \in AllSessions :
        Create(s) \/ SweepCommit(s) \/ ResolveCommit(s) \/ MarkCommit(s)
  BY DEF Next, OwnerStep, AgentStep, SweepStep, vars, Tick, FindPending, SweepRead,
     OwnerDecides, OwnerCancels, GateAllows, GateMarks, Execute, Crash
<1>2. CASE Create(s)
  BY <1>0, <1>2 DEF Create, TypeOK
<1>3. CASE SweepCommit(s)
  BY <1>0, <1>3 DEF SweepCommit, TypeOK
<1>4. CASE ResolveCommit(s)
  <2>1. status[session[s].approval] = "pending"
    BY <1>4 DEF IInv, DecidingLocks, ResolveCommit
  <2>2. session[s].outcome \in {"approved", "rejected", "cancelled"}
    BY <1>0, <1>4, SessionTypes DEF ResolveCommit
  <2>3. status'[a] = IF a = session[s].approval THEN session[s].outcome ELSE status[a]
    BY <1>0, <1>4 DEF ResolveCommit, TypeOK
  <2>. QED
    BY <2>1, <2>2, <2>3
<1>5. CASE MarkCommit(s)
  <2>1. session[s].as \in {"expired", "cancelled"}
    BY <1>0, <1>5, SessionTypes DEF MarkCommit
  <2>2. status'[a] = IF a = session[s].approval THEN session[s].as ELSE status[a]
    BY <1>0, <1>5 DEF MarkCommit, TypeOK
  <2>. QED
    BY <2>1, <2>2
<1>. QED
  BY <1>1, <1>2, <1>3, <1>4, <1>5

\* A refused or withdrawn row is never pending or approved again, although the gate,
\* the sweep and request_approval commit over rows they read without a lock.
THEOREM RefusalsAreFinal == Spec => RefusalIsFinal
<1>. DEFINE Final == \A a \in Approval :
                        status[a] \in {"rejected", "expired", "cancelled"} =>
                            status'[a] \notin {"pending", "approved"}
<1>1. IInv /\ [Next]_vars => [Final]_vars
  BY StatusStep
<1>2. Spec => [][Final]_vars
  <2>. HIDE DEF Final
  <2>. QED
    BY <1>1, Inductive, PTL DEF Spec
<1>. QED
  BY <1>2 DEF RefusalIsFinal

----------------------------------------------------------------------------
(* Approvals implement their lifecycle.  Beyond the invariant it needs     *)
(* that what a session found or was shown is a row that exists             *)
(* (SeenExists): a withdrawal never opens one.                             *)

Requested(a) == status[a] # "absent"

\* The rows a session is about to withdraw exist.
SeenExists ==
    \A s \in AllSessions :
        /\ session[s].pc = "create" /\ session[s].found \in Approval
            => Requested(session[s].found)
        /\ session[s].pc = "sweep" => \A a \in session[s].due : Requested(a)
        /\ session[s].pc = "mark" => Requested(session[s].approval)

\* A requested row stays requested.
LEMMA StaysRequested ==
    ASSUME IInv, [Next]_vars, NEW a \in Approval, Requested(a)
    PROVE  Requested(a)'
BY StatusStep DEF Requested

\* A session that takes up work on requested rows, or ends its work.
LEMMA SeenStart ==
    ASSUME IInv, SeenExists, [Next]_vars, NEW s \in AllSessions, NEW work,
           session' = [session EXCEPT ![s] = work],
           work.pc = "create" /\ work.found \in Approval => status'[work.found] # "absent",
           work.pc = "sweep" => \A a \in work.due : status'[a] # "absent",
           work.pc = "mark" => status'[work.approval] # "absent"
    PROVE  SeenExists'
<1>. SUFFICES ASSUME NEW t \in AllSessions
              PROVE  /\ session'[t].pc = "create" /\ session'[t].found \in Approval
                        => status'[session'[t].found] # "absent"
                     /\ session'[t].pc = "sweep"
                        => \A a \in session'[t].due : status'[a] # "absent"
                     /\ session'[t].pc = "mark" => status'[session'[t].approval] # "absent"
  BY DEF SeenExists, Requested
<1>1. session'[t] = IF t = s THEN work ELSE session[t]
  BY DEF IInv, TypeOK
<1>2. CASE t = s
  BY <1>1, <1>2
<1>3. CASE t # s
  <2>1. session'[t] = session[t]
    BY <1>1, <1>3
  <2>2. ASSUME NEW a \in Approval, status[a] # "absent" PROVE status'[a] # "absent"
    BY <2>2, StaysRequested DEF Requested
  <2>3. TypeOK
    BY DEF IInv
  <2>4. CASE session[t].pc = "create" /\ session[t].found \in Approval
    <3>1. status[session[t].found] # "absent"
      BY <2>4 DEF SeenExists, Requested
    <3>. QED
      BY <2>1, <2>2, <2>4, <3>1
  <2>5. CASE session[t].pc = "sweep"
    <3>1. /\ session[t].due \subseteq Approval
          /\ \A a \in session[t].due : status[a] # "absent"
      BY <2>3, <2>5, SessionTypes DEF SeenExists, Requested
    <3>. QED
      BY <2>1, <2>2, <2>5, <3>1
  <2>6. CASE session[t].pc = "mark"
    <3>1. session[t].approval \in Approval /\ status[session[t].approval] # "absent"
      BY <2>3, <2>6, SessionTypes DEF SeenExists, Requested
    <3>. QED
      BY <2>1, <2>2, <2>6, <3>1
  <2>. QED
    BY <2>1, <2>4, <2>5, <2>6
<1>. QED
  BY <1>2, <1>3

LEMMA SeenNext == IInv /\ SeenExists /\ [Next]_vars => SeenExists'
<1>. SUFFICES ASSUME IInv, SeenExists, [Next]_vars PROVE SeenExists'
  OBVIOUS
<1>. USE DEF rows
<1>. Sessions \subseteq AllSessions /\ Sweepers \subseteq AllSessions
  BY DEF AllSessions
<1>1. CASE UNCHANGED <<status, session>>
  BY <1>1 DEF SeenExists, Requested
<1>2. ASSUME NEW s \in AllSessions, Finish(s) PROVE SeenExists'
  <2>1. session' = [session EXCEPT ![s] = Idle]
    BY <1>2 DEF Finish
  <2>. QED
    BY <2>1, SeenStart DEF Idle
<1>3. ASSUME NEW s \in Sessions, NEW c \in Contents, FindPending(s, c) PROVE SeenExists'
  <2>1. PICK found :
          /\ found \in Approval => Due(found)
          /\ Start(s, [pc |-> "create", content |-> c, found |-> found,
                       expires |-> Expiry(now)])
    BY <1>3, NamesAssumption DEF FindPending
  <2>2. found \in Approval => status'[found] # "absent"
    BY <1>3, <2>1 DEF FindPending, Due
  <2>. DEFINE work == [pc |-> "create", content |-> c, found |-> found,
                       expires |-> Expiry(now)]
  <2>3. session' = [session EXCEPT ![s] = work] /\ work.pc = "create" /\ work.found = found
    BY <2>1 DEF Start
  <2>. HIDE DEF work
  <2>. QED
    BY <2>2, <2>3, SeenStart
<1>4. ASSUME NEW s \in Sweepers, SweepRead(s) PROVE SeenExists'
  <2>. DEFINE work == [pc |-> "sweep", due |-> {a \in Approval : Due(a)}]
  <2>1. session' = [session EXCEPT ![s] = work] /\ work.pc = "sweep"
    BY <1>4 DEF SweepRead, Start
  <2>2. \A a \in work.due : status'[a] # "absent"
    BY <1>4 DEF SweepRead, Due
  <2>. HIDE DEF work
  <2>. QED
    BY <2>1, <2>2, SeenStart
<1>5. ASSUME NEW s \in Sessions, NEW a \in Approval, NEW c \in Contents,
             NEW rebind \in BOOLEAN, GateMarks(s, a, c, rebind)
      PROVE  SeenExists'
  <2>1. PICK as : Start(s, [pc |-> "mark", approval |-> a, as |-> as])
    BY <1>5 DEF GateMarks
  <2>. DEFINE work == [pc |-> "mark", approval |-> a, as |-> as]
  <2>2. session' = [session EXCEPT ![s] = work] /\ work.pc = "mark" /\ work.approval = a
    BY <2>1 DEF Start
  <2>3. status'[a] # "absent"
    BY <1>5 DEF GateMarks
  <2>. HIDE DEF work
  <2>. QED
    BY <2>2, <2>3, SeenStart
<1>6. ASSUME NEW s \in Sessions, NEW work, work.pc \in {"resolve", "execute"}, Start(s, work)
      PROVE  SeenExists'
  BY <1>6, SeenStart DEF Start
<1>7. ASSUME NEW s \in Sessions, NEW a, NEW outcome,
             OwnerDecides(s, a, outcome) \/ OwnerCancels(s, a)
      PROVE  SeenExists'
  <2>1. PICK o : Start(s, [pc |-> "resolve", approval |-> a, outcome |-> o])
    BY <1>7 DEF OwnerDecides, OwnerCancels
  <2>. QED
    BY <1>6, <2>1
<1>8. ASSUME NEW s \in Sessions, NEW a, NEW c, NEW rebind, GateAllows(s, a, c, rebind)
      PROVE  SeenExists'
  BY <1>6, <1>8 DEF GateAllows
<1>9. CASE Tick
  BY <1>1, <1>9 DEF Tick
<1>10. CASE UNCHANGED vars
  BY <1>1, <1>10 DEF vars
<1>11. ASSUME NEW s \in Sessions, OwnerStep(s) PROVE SeenExists'
  BY <1>2, <1>7, <1>11 DEF OwnerStep, ResolveCommit
<1>12. ASSUME NEW s \in Sessions, AgentStep(s) PROVE SeenExists'
  BY <1>2, <1>3, <1>5, <1>8, <1>12 DEF AgentStep, Create, MarkCommit, Execute
<1>13. ASSUME NEW s \in Sweepers, SweepStep(s) PROVE SeenExists'
  BY <1>2, <1>4, <1>13 DEF SweepStep, SweepCommit
<1>14. ASSUME NEW s \in AllSessions, Crash(s) PROVE SeenExists'
  BY <1>2, <1>14 DEF Crash
<1>. QED
  BY <1>9, <1>10, <1>11, <1>12, <1>13, <1>14 DEF Next

----------------------------------------------------------------------------
(* Every step is a step of the lifecycle, or none.                         *)

LEMMA InitImplements == Init => Lifecycle!Init
BY DEF Init, Lifecycle!Init, phaseBar, decisionBar, actedBar, PhaseOf, NothingYet

\* A step that changes neither statuses nor history is none.
LEMMA QuietStep ==
    ASSUME UNCHANGED <<status, history>>
    PROVE  UNCHANGED Lifecycle!vars
BY DEF history, Lifecycle!vars, phaseBar, decisionBar, actedBar

\* A step that withdraws requested rows closes the open ones among them.
LEMMA CloseStep ==
    ASSUME TypeOK, UNCHANGED history, NEW S \in SUBSET Approval,
           \A a \in S : Requested(a),
           status' \in [Approval -> Statuses],
           \A a \in Approval : IF a \in S THEN status'[a] \in {"expired", "cancelled"}
                               ELSE status'[a] = status[a]
    PROVE  Lifecycle!Next
<1>. DEFINE overdue == {a \in S : status[a] = "pending"}
<1>1. overdue \subseteq Lifecycle!Open
  BY DEF Lifecycle!Open, phaseBar, PhaseOf
<1>2. \A b \in Approval : PhaseOf(status'[b]) =
                            IF b \in overdue THEN "closed" ELSE PhaseOf(status[b])
  BY DEF PhaseOf, Requested
<1>3. phaseBar' = [b \in Approval |-> IF b \in overdue THEN "closed" ELSE phaseBar[b]]
  BY <1>2 DEF phaseBar
<1>4. UNCHANGED <<decisionBar, actedBar>>
  BY DEF history, decisionBar, actedBar
<1>5. Lifecycle!Close(overdue)
  BY <1>1, <1>3, <1>4 DEF Lifecycle!Close
<1>6. overdue \in SUBSET Approval
  OBVIOUS
<1>. QED
  BY <1>5, <1>6 DEF Lifecycle!Next

LEMMA NextImplements ==
    IInv /\ IInv' /\ SeenExists /\ [Next]_vars => [Lifecycle!Next]_(Lifecycle!vars)
<1>. SUFFICES ASSUME IInv, IInv', SeenExists, [Next]_vars
              PROVE  Lifecycle!Next \/ UNCHANGED Lifecycle!vars
  OBVIOUS
<1>. USE DEF rows
<1>. Sessions \subseteq AllSessions /\ Sweepers \subseteq AllSessions
  BY DEF AllSessions
<1>0. TypeOK /\ TypeOK'
  BY DEF IInv
<1>1. ASSUME NEW s \in AllSessions, Create(s) PROVE Lifecycle!Next
  <2>1. PICK a \in Approval :
          /\ status[a] = "absent"
          /\ status' = [b \in Approval |-> IF b = a THEN "pending"
                                          ELSE IF b = session[s].found THEN "expired"
                                          ELSE status[b]]
    BY <1>1 DEF Create
  <2>. DEFINE overdue == {b \in Approval : b = session[s].found /\ status[b] = "pending"}
  <2>2. overdue \subseteq Lifecycle!Open /\ overdue \in SUBSET Approval
    BY DEF Lifecycle!Open, phaseBar, PhaseOf
  <2>3. \A b \in Approval : b = session[s].found => status[b] # "absent"
    BY <1>1 DEF Create, SeenExists, Requested
  <2>4. \A b \in Approval : PhaseOf(status'[b]) =
          IF b = a THEN "open" ELSE IF b \in overdue THEN "closed" ELSE PhaseOf(status[b])
    BY <2>1, <2>3 DEF PhaseOf
  <2>5. phaseBar' = [b \in Approval |-> IF b = a THEN "open"
                                      ELSE IF b \in overdue THEN "closed"
                                      ELSE phaseBar[b]]
    BY <2>4 DEF phaseBar
  <2>6. UNCHANGED <<decisionBar, actedBar>> /\ phaseBar[a] = "absent"
    BY <1>1, <2>1 DEF Create, history, decisionBar, actedBar, phaseBar, PhaseOf
  <2>7. Lifecycle!Request(a, overdue)
    BY <2>2, <2>5, <2>6 DEF Lifecycle!Request
  <2>. QED
    BY <2>2, <2>7 DEF Lifecycle!Next
<1>2. ASSUME NEW s \in AllSessions, SweepCommit(s) PROVE Lifecycle!Next
  <2>1. session[s].due \in SUBSET Approval /\ \A a \in session[s].due : Requested(a)
    BY <1>0, <1>2, SessionTypes DEF SweepCommit, SeenExists
  <2>2. \A a \in Approval : IF a \in session[s].due THEN status'[a] \in {"expired", "cancelled"}
                            ELSE status'[a] = status[a]
    BY <1>2 DEF SweepCommit
  <2>3. UNCHANGED history
    BY <1>2 DEF SweepCommit
  <2>. QED
    BY <1>0, <2>1, <2>2, <2>3, CloseStep DEF TypeOK
<1>3. ASSUME NEW s \in AllSessions, MarkCommit(s) PROVE Lifecycle!Next
  <2>1. /\ session[s].approval \in Approval
        /\ session[s].as \in {"expired", "cancelled"}
        /\ Requested(session[s].approval)
    BY <1>0, <1>3, SessionTypes DEF MarkCommit, SeenExists
  <2>2. \A a \in Approval : IF a \in {session[s].approval}
                            THEN status'[a] \in {"expired", "cancelled"}
                            ELSE status'[a] = status[a]
    BY <1>0, <1>3, <2>1 DEF MarkCommit, TypeOK
  <2>3. UNCHANGED history /\ {session[s].approval} \in SUBSET Approval
    BY <1>3, <2>1 DEF MarkCommit
  <2>4. \A a \in {session[s].approval} : Requested(a)
    BY <2>1
  <2>5. status' \in [Approval -> Statuses]
    BY <1>0 DEF TypeOK
  <2>. QED
    BY <1>0, <2>2, <2>3, <2>4, <2>5, CloseStep
<1>4. ASSUME NEW s \in AllSessions, ResolveCommit(s) PROVE Lifecycle!Next
  <2>. DEFINE a == session[s].approval
              outcome == session[s].outcome
  <2>1. /\ a \in Approval
        /\ outcome \in {"approved", "rejected", "cancelled"}
        /\ status[a] = "pending"
    BY <1>0, <1>4, SessionTypes DEF ResolveCommit, IInv, DecidingLocks
  <2>2. a \notin granted /\ a \notin refused
    BY <2>1 DEF IInv, DecidedIsClosed, Terminal
  <2>3. /\ \A b \in Approval : status'[b] = IF b = a THEN outcome ELSE status[b]
        /\ granted' = IF outcome = "approved" THEN granted \cup {a} ELSE granted
        /\ refused' = IF outcome = "rejected" THEN refused \cup {a} ELSE refused
        /\ executed' = executed
    BY <1>0, <1>4 DEF ResolveCommit, TypeOK
  <2>. HIDE DEF a, outcome
  <2>4. CASE outcome = "cancelled"
    <3>1. UNCHANGED history
      BY <2>3, <2>4 DEF history
    <3>2. \A b \in Approval : IF b \in {a} THEN status'[b] \in {"expired", "cancelled"}
                              ELSE status'[b] = status[b]
      BY <2>3, <2>4
    <3>3. {a} \in SUBSET Approval /\ \A b \in {a} : Requested(b)
      BY <2>1 DEF Requested
    <3>4. status' \in [Approval -> Statuses]
      BY <1>0 DEF TypeOK
    <3>. QED
      BY <1>0, <3>1, <3>2, <3>3, <3>4, CloseStep
  <2>5. CASE outcome \in {"approved", "rejected"}
    <3>1. phaseBar[a] = "open" /\ decisionBar[a] = "none"
      BY <2>1, <2>2 DEF phaseBar, decisionBar, PhaseOf
    <3>2. phaseBar' = [phaseBar EXCEPT ![a] = "closed"]
      BY <2>1, <2>3, <2>5 DEF phaseBar, PhaseOf
    <3>3. decisionBar' = [decisionBar EXCEPT ![a] = outcome]
      BY <2>1, <2>2, <2>3, <2>5 DEF decisionBar
    <3>4. UNCHANGED actedBar
      BY <2>3 DEF actedBar
    <3>5. Lifecycle!Decide(a, outcome)
      BY <3>1, <3>2, <3>3, <3>4 DEF Lifecycle!Decide
    <3>. QED
      BY <2>1, <2>5, <3>5 DEF Lifecycle!Next
  <2>. QED
    BY <2>1, <2>4, <2>5
<1>5. ASSUME NEW s \in AllSessions, Execute(s) PROVE Lifecycle!Next
  <2>. DEFINE a == session[s].approval
              c == session[s].content
  <2>1. c \in Contents /\ a \in Approval \cup {NoApproval} /\ Licensed(session[s])
    BY <1>0, <1>5, SessionTypes DEF Execute, IInv, ExecutingIsLicensed
  <2>2. actedBar' = IF NeedsApproval(c) THEN a ELSE NoApproval
    BY <1>5, <2>1, NamesAssumption DEF Execute, actedBar
  <2>3. UNCHANGED <<phaseBar, decisionBar>>
    BY <1>5 DEF Execute, phaseBar, decisionBar
  <2>4. CASE NeedsApproval(c)
    <3>1. a \in granted /\ a \in Approval
      BY <1>0, <2>1, <2>4 DEF Licensed, NeedsApproval, TypeOK
    <3>2. decisionBar[a] = "approved"
      BY <3>1 DEF decisionBar
    <3>3. Lifecycle!Act(a)
      BY <2>2, <2>3, <2>4, <3>2 DEF Lifecycle!Act
    <3>. QED
      BY <3>1, <3>3 DEF Lifecycle!Next
  <2>5. CASE ~NeedsApproval(c)
    BY <2>2, <2>3, <2>5 DEF Lifecycle!ActFreely, Lifecycle!Next
  <2>. QED
    BY <2>4, <2>5
<1>6. CASE UNCHANGED <<status, history>>
  BY <1>6, QuietStep
<1>7. CASE \/ Tick
           \/ UNCHANGED vars
           \/ \E s \in AllSessions : Crash(s) \/ SweepRead(s)
           \/ \E s \in Sessions : \E a \in Approval :
                \/ \E outcome \in {"approved", "rejected"} : OwnerDecides(s, a, outcome)
                \/ OwnerCancels(s, a)
           \/ \E s \in Sessions, c \in Contents : FindPending(s, c)
           \/ \E s \in Sessions, a \in Approval \cup {NoApproval}, c \in Contents,
                 rebind \in BOOLEAN : GateAllows(s, a, c, rebind)
           \/ \E s \in Sessions, a \in Approval, c \in Contents,
                 rebind \in BOOLEAN : GateMarks(s, a, c, rebind)
  <2>1. UNCHANGED <<status, history>>
    BY <1>7 DEF vars, Tick, Crash, SweepRead, OwnerDecides, OwnerCancels, FindPending,
       GateAllows, GateMarks
  <2>. QED
    BY <1>6, <2>1
<1>. QED
  BY <1>1, <1>2, <1>3, <1>4, <1>5, <1>7 DEF Next, OwnerStep, AgentStep, SweepStep

\* Approvals with all their concurrency implement the lifecycle that agents and owners
\* may rely on: an approval is decided once, while it is open, and acted on if approved.
THEOREM ApprovalsImplementLifecycle == Spec => ImplementsLifecycle
<1>1. Init => SeenExists
  BY DEF Init, SeenExists, Idle
<1>2. Spec => []SeenExists
  BY <1>1, SeenNext, Inductive, PTL DEF Spec
<1>. QED
  BY <1>2, InitImplements, NextImplements, Inductive, PTL
  DEF Spec, ImplementsLifecycle, Lifecycle!Spec
=============================================================================
