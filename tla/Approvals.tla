----------------------------- MODULE Approvals -----------------------------
(***************************************************************************)
(* Human approvals (approvals/service.py, owner/approvals.py).             *)
(*                                                                         *)
(* Agents request approvals, the owner resolves them under a row lock, a   *)
(* scheduled sweep expires the due ones, and executors ask the gate before *)
(* they act.  Every operation runs in a database session of its own, as    *)
(* one transaction: a read of committed rows, then a commit of what was    *)
(* computed from it.  Only the owner's resolution locks the row it reads,  *)
(* so every other operation may commit over a row that has changed since.  *)
(***************************************************************************)
EXTENDS Naturals, FiniteSets

CONSTANTS
    Approval,     \* identities of approval rows
    Sessions,     \* database sessions of requests and of agents' runs
    Sweepers,     \* database sessions of the scheduled queue workflow
    Contents,     \* what is to be done: an action with its live payload
    ActionOf,     \* the action type of a content
    RiskOf,       \* the policy's risk level of an action type
    TTL,          \* approval_default_ttl_seconds, in ticks
    MaxTime       \* bound on the clock; requests stop a TTL before it

Risks   == {"green", "yellow", "red"}
Actions == {ActionOf[c] : c \in Contents}

ASSUME PolicyAssumption ==
    /\ ActionOf \in [Contents -> Actions]
    /\ RiskOf \in [Actions -> Risks]
ASSUME TimeAssumption == TTL \in Nat \ {0} /\ MaxTime \in Nat

NoApproval == "no_approval"
NoSession  == "no_session"
NoContent  == "no_content"
AllSessions == Sessions \cup Sweepers

ASSUME NamesAssumption ==
    /\ NoApproval \notin Approval
    /\ NoSession \notin AllSessions
    /\ NoContent \notin Contents
    /\ Sessions \cap Sweepers = {}

Statuses == {"absent", "pending", "approved", "rejected", "expired", "cancelled"}
Terminal == {"approved", "rejected", "expired", "cancelled"}

VARIABLES
    status,   \* committed status of every row; "absent" before it is created
    content,  \* what the row's fingerprint binds
    expires,  \* its expires_at
    lock,     \* the session holding the row lock, or NoSession
    session,  \* what every session is doing
    now,      \* the clock
    \* history, read by no action of the system
    granted,  \* rows on which an owner's approve committed
    refused,  \* rows on which an owner's reject committed
    executed  \* the latest thing an executor did, and on which row

rows == <<status, content, expires>>
history == <<granted, refused, executed>>
vars == <<rows, lock, session, now, history>>

----------------------------------------------------------------------------
Idle == [pc |-> "idle"]

NothingYet == [approval |-> NoApproval, content |-> NoContent, rebind |-> FALSE]

\* expire_if_due acts on pending rows only: an approved row never expires.
DueAfterIt(a) == status[a] = "pending" /\ now > expires[a]

Due(a) == status[a] = "pending" /\ now >= expires[a]

Expiry(t) == t + TTL

Pending(c) == {a \in Approval : status[a] = "pending" /\ content[a] = c}

UnlockedOrNot(S) == \A a \in S : lock[a] \in AllSessions \cup {NoSession}

Unlocked(S) == \A a \in S : lock[a] = NoSession

----------------------------------------------------------------------------
(* evaluate_gate, on a row a or NoApproval.  With "rebind" the executor     *)
(* passes its live payload and the fingerprints are compared.               *)

YellowGateOfAnyRow(a, c, rebind) ==
    IF a = NoApproval THEN "require_approval"
    ELSE IF status[a] \in {"pending", "expired"} THEN "require_approval"
    ELSE "allow"

YellowGate(a, c, rebind) ==
    IF a = NoApproval THEN "require_approval"
    ELSE IF status[a] = "pending" /\ ~Due(a) THEN "require_approval"
    ELSE IF status[a] # "approved" THEN "deny"
    ELSE IF ActionOf[content[a]] # ActionOf[c] THEN "deny"
    ELSE IF rebind /\ content[a] # c THEN "mismatch"
    ELSE "allow"

Gate(a, c, rebind) ==
    CASE RiskOf[ActionOf[c]] = "green"  -> "allow"
      [] RiskOf[ActionOf[c]] = "red"    -> "human_only"
      [] RiskOf[ActionOf[c]] = "yellow" -> YellowGate(a, c, rebind)

----------------------------------------------------------------------------
Init ==
    /\ status = [a \in Approval |-> "absent"]
    /\ content = [a \in Approval |-> NoContent]
    /\ expires = [a \in Approval |-> 0]
    /\ lock = [a \in Approval |-> NoSession]
    /\ session = [s \in AllSessions |-> Idle]
    /\ now = 0
    /\ granted = {}
    /\ refused = {}
    /\ executed = NothingYet

Tick ==
    /\ now < MaxTime
    /\ now' = now + 1
    /\ UNCHANGED <<rows, lock, session, history>>

Start(s, work) ==
    /\ session[s] = Idle
    /\ session' = [session EXCEPT ![s] = work]

Finish(s) == session' = [session EXCEPT ![s] = Idle]

\* Bound: there is a row left for every request under way.
Room ==
    Cardinality({s \in Sessions : session[s].pc = "create"})
        < Cardinality({a \in Approval : status[a] = "absent"})

\* request_approval looks for a pending row with the same fingerprint.  One that
\* is not due ends the request with a conflict, which changes no status.
FindPending(s, c) ==
    /\ RiskOf[ActionOf[c]] # "green"
    /\ Room
    /\ now + TTL <= MaxTime
    /\ \E found \in IF Pending(c) = {} THEN {NoApproval} ELSE Pending(c) :
        /\ found # NoApproval => Due(found)
        /\ Start(s, [pc |-> "create", content |-> c, found |-> found,
                     expires |-> Expiry(now)])
    /\ UNCHANGED <<rows, lock, now, history>>

\* It then commits the new pending row, and the expiry of the due one it found.
Create(s) ==
    /\ session[s].pc = "create"
    /\ LET found == session[s].found IN
       \E a \in Approval :
        /\ status[a] = "absent"
        /\ found # NoApproval => Unlocked({found})
        /\ status' = [b \in Approval |-> IF b = a THEN "pending"
                                          ELSE IF b = found THEN "expired"
                                          ELSE status[b]]
        /\ content' = [content EXCEPT ![a] = session[s].content]
        /\ expires' = [expires EXCEPT ![a] = session[s].expires]
    /\ Finish(s)
    /\ UNCHANGED <<lock, now, history>>

\* The scheduled queue workflow selects the pending rows and expires the due ones.
SweepRead(s) ==
    /\ \E a \in Approval : Due(a)
    /\ Start(s, [pc |-> "sweep", due |-> {a \in Approval : Due(a)}])
    /\ UNCHANGED <<rows, lock, now, history>>

SweepCommit(s) ==
    /\ session[s].pc = "sweep"
    /\ Unlocked(session[s].due)
    /\ status' = [a \in Approval |-> IF a \in session[s].due THEN "expired" ELSE status[a]]
    /\ Finish(s)
    /\ UNCHANGED <<content, expires, lock, now, history>>

OwnerDecidesAgain(s, a, outcome) ==
    /\ Unlocked({a})
    /\ status[a] # "absent"
    /\ ~Due(a)
    /\ Start(s, [pc |-> "resolve", approval |-> a, outcome |-> outcome])
    /\ lock' = [lock EXCEPT ![a] = s]
    /\ UNCHANGED <<rows, now, history>>

\* The owner approves or rejects: the row is locked, read and found pending and
\* not due.  (Any other status is an error or an idempotent answer: no change.)
OwnerDecides(s, a, outcome) ==
    /\ Unlocked({a})
    /\ status[a] = "pending"
    /\ ~Due(a)
    /\ Start(s, [pc |-> "resolve", approval |-> a, outcome |-> outcome])
    /\ lock' = [lock EXCEPT ![a] = s]
    /\ UNCHANGED <<rows, now, history>>

\* cancel does not look at the expiry.
OwnerCancels(s, a) ==
    /\ Unlocked({a})
    /\ status[a] = "pending"
    /\ Start(s, [pc |-> "resolve", approval |-> a, outcome |-> "cancelled"])
    /\ lock' = [lock EXCEPT ![a] = s]
    /\ UNCHANGED <<rows, now, history>>

\* The owner's transaction commits the terminal status and releases the lock.
ResolveCommit(s) ==
    /\ session[s].pc = "resolve"
    /\ LET a == session[s].approval
           outcome == session[s].outcome
       IN  /\ status' = [status EXCEPT ![a] = outcome]
           /\ lock' = [lock EXCEPT ![a] = NoSession]
           /\ granted' = IF outcome = "approved" THEN granted \cup {a} ELSE granted
           /\ refused' = IF outcome = "rejected" THEN refused \cup {a} ELSE refused
    /\ Finish(s)
    /\ UNCHANGED <<content, expires, now, executed>>

\* An executor asks the gate and is allowed.
GateAllows(s, a, c, rebind) ==
    /\ a # NoApproval => status[a] # "absent"
    /\ Gate(a, c, rebind) = "allow"
    /\ Start(s, [pc |-> "execute", approval |-> a, content |-> c, rebind |-> rebind])
    /\ UNCHANGED <<rows, lock, now, history>>

\* The gate of a yellow action also changes the row it is shown: a due row is
\* expired, and a grant whose payload no longer matches is cancelled.  The caller
\* commits the change (an orchestrated run) or drops it (Crash).
GateMarks(s, a, c, rebind) ==
    /\ RiskOf[ActionOf[c]] = "yellow"
    /\ status[a] # "absent"
    /\ \/ /\ Due(a)
          /\ Start(s, [pc |-> "mark", approval |-> a, as |-> "expired"])
       \/ /\ Gate(a, c, rebind) = "mismatch"
          /\ Start(s, [pc |-> "mark", approval |-> a, as |-> "cancelled"])
    /\ UNCHANGED <<rows, lock, now, history>>

MarkCommit(s) ==
    /\ session[s].pc = "mark"
    /\ Unlocked({session[s].approval})
    /\ status' = [status EXCEPT ![session[s].approval] = session[s].as]
    /\ Finish(s)
    /\ UNCHANGED <<content, expires, lock, now, history>>

\* The executor acts; the gate is not asked again.
Execute(s) ==
    /\ session[s].pc = "execute"
    /\ executed' = [approval |-> session[s].approval,
                    content  |-> session[s].content,
                    rebind   |-> session[s].rebind]
    /\ Finish(s)
    /\ UNCHANGED <<rows, lock, now, granted, refused>>

\* The process dies or its transaction is rolled back, which releases its lock.
Crash(s) ==
    /\ session[s] # Idle
    /\ Finish(s)
    /\ lock' = [a \in Approval |-> IF lock[a] = s THEN NoSession ELSE lock[a]]
    /\ UNCHANGED <<rows, now, history>>

OwnerStep(s) ==
    \/ \E a \in Approval, outcome \in {"approved", "rejected"} : OwnerDecides(s, a, outcome)
    \/ \E a \in Approval : OwnerCancels(s, a)
    \/ ResolveCommit(s)

AgentStep(s) ==
    \/ \E c \in Contents : FindPending(s, c)
    \/ Create(s)
    \/ \E a \in Approval \cup {NoApproval}, c \in Contents, rebind \in BOOLEAN :
        GateAllows(s, a, c, rebind)
    \/ \E a \in Approval, c \in Contents, rebind \in BOOLEAN : GateMarks(s, a, c, rebind)
    \/ MarkCommit(s)
    \/ Execute(s)

SweepStep(s) == SweepRead(s) \/ SweepCommit(s)

Next ==
    \/ Tick
    \/ \E s \in Sessions : OwnerStep(s) \/ AgentStep(s)
    \/ \E s \in Sweepers : SweepStep(s)
    \/ \E s \in AllSessions : Crash(s)

Spec == Init /\ [][Next]_vars

\* The clock runs, the workflow scheduler starts sweeps for ever, and neither the
\* sweeps nor the owner's resolutions fail every time they are tried.
Fairness ==
    /\ WF_vars(Tick)
    /\ \A s \in Sessions : SF_vars(ResolveCommit(s))
    /\ \A s \in Sweepers : WF_vars(SweepRead(s)) /\ SF_vars(SweepCommit(s))

FairSpec == Spec /\ Fairness

----------------------------------------------------------------------------
(* Properties.                                                             *)

Work ==
    {Idle}
    \cup [pc : {"create"}, content : Contents, found : Approval \cup {NoApproval},
          expires : Nat]
    \cup [pc : {"sweep"}, due : SUBSET Approval]
    \cup [pc : {"resolve"}, approval : Approval,
          outcome : {"approved", "rejected", "cancelled"}]
    \cup [pc : {"execute"}, approval : Approval \cup {NoApproval}, content : Contents,
          rebind : BOOLEAN]
    \cup [pc : {"mark"}, approval : Approval, as : {"expired", "cancelled"}]

Execution == [approval : Approval \cup {NoApproval}, content : Contents, rebind : BOOLEAN]

\* Every variable holds a value of its type.
TypeOK ==
    /\ status \in [Approval -> Statuses]
    /\ content \in [Approval -> Contents \cup {NoContent}]
    /\ expires \in [Approval -> Nat]
    /\ lock \in [Approval -> AllSessions \cup {NoSession}]
    /\ session \in [AllSessions -> Work]
    /\ now \in Nat
    /\ granted \subseteq Approval
    /\ refused \subseteq Approval
    /\ executed \in Execution \cup {NothingYet}

\* Of an approve and a reject racing on one row, at most one commits: the row
\* lock taken by the owner's service, not the status check alone, decides.
NeverBothWays == granted \cap refused = {}

\* A yellow content is executed only on a row the owner approved and never
\* rejected, for the same action, and for the very same payload when the
\* executor rebinds it; a red content is never executed, approved or not.
ExecutedWasGranted ==
    executed.content # NoContent =>
        LET x == executed
            risk == RiskOf[ActionOf[x.content]]
        IN  /\ risk # "red"
            /\ risk = "yellow" =>
                /\ x.approval \in granted \ refused
                /\ ActionOf[content[x.approval]] = ActionOf[x.content]
                /\ x.rebind => content[x.approval] = x.content

\* A row that was rejected, expired or cancelled never becomes a grant again,
\* whichever operations read it before and commit after.
RefusalIsFinal ==
    [][\A a \in Approval :
        status[a] \in {"rejected", "expired", "cancelled"} =>
            status'[a] \notin {"pending", "approved"}]_vars

\* No approval stays pending for ever: the owner resolves it or a sweep expires it.
PendingEnds ==
    \A a \in Approval : status[a] = "pending" ~> status[a] # "pending"

\* service.py:432, "Approval already resolved and is immutable": what the owner
\* decided never changes, apart from a grant cancelled because its payload changed.
ResolvedIsImmutable ==
    [][\A a \in Approval :
        status[a] \in {"approved", "rejected"} =>
            \/ status'[a] = status[a]
            \/ status[a] = "approved" /\ status'[a] = "cancelled"]_vars
=============================================================================
