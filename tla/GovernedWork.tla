---------------------------- MODULE GovernedWork ----------------------------
(***************************************************************************)
(* Governed code (the email service, the finance agent, the browser        *)
(* service) checking the owner's controls while owners change them.  A     *)
(* check reads the row twice, in two statements that may see two           *)
(* different committed rows: assert_ai_operations first, then the switch.  *)
(***************************************************************************)
EXTENDS SystemControl

CONSTANT Workers      \* governed code paths

VARIABLE worker       \* what each of them is doing

allVars == <<vars, worker>>

WorkInit == Init /\ worker = [w \in Workers |-> Idle]

\* A worker's "under" field is history: the holds that concern it and have been
\* in force ever since its check began.
Concerns(c) ==
    {"ai_operations", c} \cup (IF c = "browser_automation" THEN {} ELSE {"safe_mode"})

StillUnder == [w \in Workers |->
    IF worker[w] = Idle THEN Idle ELSE [worker[w] EXCEPT !.under = @ \cap held']]

\* An owner request takes a step.
OwnerStep == Next /\ worker' = StillUnder

\* assert_ai_operations, the first read of every governed check.
CheckAi(w, c) ==
    /\ worker[w] = Idle
    /\ AiAllowed(row)
    /\ worker' = [worker EXCEPT ![w] =
                    [pc |-> "ai_ok", control |-> c, under |-> held \cap Concerns(c)]]
    /\ UNCHANGED vars

\* assert_outbound, assert_spending and assert_browser read the row again.
CheckSwitch(w) ==
    /\ worker[w].pc = "ai_ok"
    /\ worker' = [worker EXCEPT ![w] = IF SwitchAllowed(row, @.control)
                                       THEN [@ EXCEPT !.pc = "admitted"]
                                       ELSE Idle]
    /\ UNCHANGED vars

\* The effect itself; the row is not read again.
Act(w) ==
    /\ worker[w].pc = "admitted"
    /\ worker' = [worker EXCEPT ![w] = Idle]
    /\ UNCHANGED vars

WorkNext ==
    \/ OwnerStep
    \/ \E w \in Workers, c \in Governed : CheckAi(w, c)
    \/ \E w \in Workers : CheckSwitch(w) \/ Act(w)

WorkSpec == WorkInit /\ [][WorkNext]_allVars

WorkerState ==
    {Idle} \cup [pc : {"ai_ok", "admitted"}, control : Governed, under : SUBSET Holds]

\* The types of the row, of the requests and of the workers.
WorkTypeOK == TypeOK /\ worker \in [Workers -> WorkerState]

\* A check that began while its own switch was held off, and during which nobody
\* released it, does not admit the work, although the two reads may see different
\* rows and requests in between may overwrite each other.
HeldThroughoutDenies ==
    \A w \in Workers :
        worker[w].pc = "admitted" =>
            worker[w].under \cap {"ai_operations", worker[w].control} = {}
=============================================================================
