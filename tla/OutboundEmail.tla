---------------------------- MODULE OutboundEmail ----------------------------
(***************************************************************************)
(* Sending approved outreach (services/email_service.py, with the request  *)
(* for approval of agents/sales/agent.py and the caps of pilot/limits.py). *)
(*                                                                         *)
(* A send is one transaction: it checks the owner's control, the approval, *)
(* the message ledger and the caps, inserts its ledger row, posts to the   *)
(* provider and commits once, after the answer.  So a ledger row in flight *)
(* is seen by nobody, except that its unique key blocks another insert.    *)
(*                                                                         *)
(* The owner's controls are one switch here (GovernedWork has them in      *)
(* full), and an approval is its status (Approvals has its life).  The day *)
(* is one day: the caps are never reset.                                   *)
(***************************************************************************)
EXTENDS Naturals, FiniteSets, Sequences

CONSTANTS
    Outreaches,    \* the outreach rows; the ledger key is outreach-send:<id>
    LeadOf,        \* the lead an outreach is for
    Workers,       \* sessions that request approvals and send
    DailyLimit,    \* max_outbound_messages_per_day
    InitialLimit,  \* max_initial_outreach_per_day
    MaxFollowups,  \* max_followups and max_followups_per_lead
    MaxPosts       \* resend_max_retries + 1

Leads == {LeadOf[o] : o \in Outreaches}

ASSUME LimitsAssumption ==
    /\ LeadOf \in [Outreaches -> Leads]
    /\ DailyLimit \in Nat /\ InitialLimit \in Nat /\ MaxFollowups \in Nat
    /\ MaxPosts \in Nat \ {0}

ASSUME WorkersAssumption == IsFiniteSet(Workers) /\ Workers # {}

VARIABLES
    outbound,  \* the owner's outbound control allows sending
    outreach,  \* committed status of each outreach
    approval,  \* status of each approval asked for it; it points at the last
    ledger,    \* committed status of its outbound message
    followup,  \* outreaches whose message was recorded as a follow-up
    worker,    \* what each session is doing
    accepted,  \* keys the provider has accepted (external)
    \* history, read by no action of the system
    mailed,    \* emails the provider sent for each outreach, counted up to two
    sends,     \* transactions that posted for each outreach, counted up to two
    lost,      \* outreaches a posting transaction of which was lost
    approved   \* outreaches an approval of which was granted

rows == <<outreach, approval, ledger, followup>>
history == <<mailed, sends, lost, approved>>
vars == <<outbound, rows, worker, accepted, history>>

Idle == [pc |-> "idle"]

Posted == {"posting", "accepted", "refused"}

InFlight(o) == {w \in Workers : worker[w].pc \in Posted \cup {"reserved"} /\ worker[w].of = o}

TwoAtMost(n) == IF n = 2 THEN 2 ELSE n + 1

----------------------------------------------------------------------------
(* What the ledger says to a session that reads it.                        *)

Sent       == {o \in Outreaches : ledger[o] = "sent"}
SentTo(l)  == {o \in Sent : LeadOf[o] = l}
Prior(o)   == Cardinality(SentTo(LeadOf[o]))

UnderCapsButTheDay(o) ==
    /\ Prior(o) = 0 => Cardinality(Sent \ followup) + 1 <= InitialLimit
    /\ Prior(o) > 0 =>
        /\ Cardinality(SentTo(LeadOf[o]) \cap followup) + 1 <= MaxFollowups
        /\ Prior(o) <= MaxFollowups

UnderCapsButTheFirst(o) ==
    /\ Cardinality(Sent) < DailyLimit
    /\ Prior(o) > 0 =>
        /\ Cardinality(SentTo(LeadOf[o]) \cap followup) + 1 <= MaxFollowups
        /\ Prior(o) <= MaxFollowups

UnderCapsButTheLead(o) ==
    /\ Cardinality(Sent) < DailyLimit
    /\ Prior(o) = 0 => Cardinality(Sent \ followup) + 1 <= InitialLimit

\* The caps: all mail of the day, first contacts of the day, follow-ups of the lead.
UnderCaps(o) ==
    /\ Cardinality(Sent) < DailyLimit
    /\ Prior(o) = 0 => Cardinality(Sent \ followup) + 1 <= InitialLimit
    /\ Prior(o) > 0 =>
        /\ Cardinality(SentTo(LeadOf[o]) \cap followup) + 1 <= MaxFollowups
        /\ Prior(o) <= MaxFollowups

RetryAfterLast(tries) == tries <= MaxPosts

Retry(tries) == tries < MaxPosts

KeyPerSession(w, o) == <<o, w>>

Key(w, o) == <<o>>

----------------------------------------------------------------------------
Init ==
    /\ outbound = TRUE
    /\ outreach = [o \in Outreaches |-> "draft"]
    /\ approval = [o \in Outreaches |-> <<>>]
    /\ ledger = [o \in Outreaches |-> "absent"]
    /\ followup = {}
    /\ worker = [w \in Workers |-> Idle]
    /\ accepted = {}
    /\ mailed = [o \in Outreaches |-> 0]
    /\ sends = [o \in Outreaches |-> 0]
    /\ lost = {}
    /\ approved = {}

Goto(w, work) == worker' = [worker EXCEPT ![w] = work]

OwnerSwitches ==
    /\ outbound' = ~outbound
    /\ UNCHANGED <<rows, worker, accepted, history>>

OwnerResolves(o) ==
    /\ \E n \in DOMAIN approval[o], outcome \in {"approved", "refused"} :
        /\ approval[o][n] = "pending"
        /\ approval' = [approval EXCEPT ![o][n] = outcome]
        /\ approved' = IF outcome = "approved" THEN approved \cup {o} ELSE approved
    /\ UNCHANGED <<outbound, outreach, ledger, followup, worker, accepted, mailed, sends, lost>>

\* request_send_approval reads a draft, no pending approval of which exists, ...
RequestApproval(w, o) ==
    /\ outreach[o] = "draft"
    /\ \A n \in DOMAIN approval[o] : approval[o][n] # "pending"
    /\ worker[w] = Idle
    /\ Goto(w, [pc |-> "requesting", of |-> o])
    /\ UNCHANGED <<outbound, rows, accepted, history>>

\* ... and commits the outreach with a new approval, whatever it has become since.
RequestCommit(w) ==
    /\ worker[w].pc = "requesting"
    /\ LET o == worker[w].of
       IN  /\ outreach' = [outreach EXCEPT ![o] = "pending_approval"]
           /\ approval' = [approval EXCEPT ![o] = Append(@, "pending")]
    /\ Goto(w, Idle)
    /\ UNCHANGED <<outbound, ledger, followup, accepted, history>>

\* send_outreach reads the outreach and the approval it points at; send starts with
\* assert_outbound.
Admit(w, o) ==
    /\ outreach[o] # "sent"
    /\ approval[o] # <<>>
    /\ outbound
    /\ worker[w] = Idle
    /\ Goto(w, [pc |-> "admitted", of |-> o, approval |-> Len(approval[o])])
    /\ UNCHANGED <<outbound, rows, accepted, history>>

GateOfAnyRequest(w) ==
    /\ worker[w].pc = "admitted"
    /\ Goto(w, [pc |-> "gated", of |-> worker[w].of])
    /\ UNCHANGED <<outbound, rows, accepted, history>>

\* The approval gate, with the approval that was read.
Gate(w) ==
    /\ worker[w].pc = "admitted"
    /\ approval[worker[w].of][worker[w].approval] = "approved"
    /\ Goto(w, [pc |-> "gated", of |-> worker[w].of])
    /\ UNCHANGED <<outbound, rows, accepted, history>>

\* The idempotency lookup, the in-flight lookup and the caps.  (An existing message
\* is answered or refused: no change.)
LookUp(w, o) ==
    /\ ledger[o] = "absent"
    /\ UnderCaps(o)
    /\ worker[w] = [pc |-> "gated", of |-> o]
    /\ Goto(w, [pc |-> "insert", of |-> o, followup |-> Prior(o) > 0])
    /\ UNCHANGED <<outbound, rows, accepted, history>>

ReserveWithoutKey(w) ==
    /\ worker[w].pc = "insert"
    /\ Goto(w, [worker[w] EXCEPT !.pc = "reserved"])
    /\ UNCHANGED <<outbound, rows, accepted, history>>

\* The flush of the ledger row.  The unique key makes it wait while another session
\* holds a row with this key, and fail once one is committed.
Reserve(w) ==
    /\ worker[w].pc = "insert"
    /\ InFlight(worker[w].of) = {}
    /\ ledger[worker[w].of] = "absent"
    /\ Goto(w, [worker[w] EXCEPT !.pc = "reserved"])
    /\ UNCHANGED <<outbound, rows, accepted, history>>

\* The first post to the provider, or a retry of it, with the ledger key.  The
\* provider (external) sends an email for a key it has not accepted before.  It may
\* refuse, or accept and its answer be lost.
Post(w) ==
    /\ worker[w].pc \in {"reserved", "posting"}
    /\ LET o == worker[w].of
           key == Key(w, o)
           tries == IF worker[w].pc = "reserved" THEN 1 ELSE worker[w].tries + 1
       IN  /\ sends' = IF tries = 1 THEN [sends EXCEPT ![o] = TwoAtMost(@)] ELSE sends
           /\ \E accepts \in BOOLEAN, answer \in Posted :
                /\ answer = "accepted" => accepts
                /\ answer = "posting" => Retry(tries)
                /\ accepted' = IF accepts THEN accepted \cup {key} ELSE accepted
                /\ mailed' = IF accepts /\ key \notin accepted
                             THEN [mailed EXCEPT ![o] = TwoAtMost(@)]
                             ELSE mailed
                /\ Goto(w, [pc |-> answer, of |-> o, tries |-> tries,
                            followup |-> worker[w].followup])
    /\ UNCHANGED <<outbound, rows, lost, approved>>

\* _mark_sent and the commit of the message and the outreach.
RecordSent(w) ==
    /\ worker[w].pc = "accepted"
    /\ ledger' = [ledger EXCEPT ![worker[w].of] = "sent"]
    /\ outreach' = [outreach EXCEPT ![worker[w].of] = "sent"]
    /\ followup' = IF worker[w].followup THEN followup \cup {worker[w].of} ELSE followup
    /\ Goto(w, Idle)
    /\ UNCHANGED <<outbound, approval, accepted, history>>

\* The provider gave up, or _mark_sent itself raised after the email was accepted.
RecordFailed(w) ==
    /\ worker[w].pc \in {"accepted", "refused"}
    /\ ledger' = [ledger EXCEPT ![worker[w].of] = "failed"]
    /\ outreach' = [outreach EXCEPT ![worker[w].of] = "failed"]
    /\ followup' = IF worker[w].followup THEN followup \cup {worker[w].of} ELSE followup
    /\ Goto(w, Idle)
    /\ UNCHANGED <<outbound, approval, accepted, history>>

\* The session ends without a commit: a check refuses, the process dies, or the
\* commit fails, which loses the ledger row of what was posted.
Abandon(w) ==
    /\ worker[w] # Idle
    /\ Goto(w, Idle)
    /\ lost' = IF worker[w].pc \in Posted THEN lost \cup {worker[w].of} ELSE lost
    /\ UNCHANGED <<outbound, rows, accepted, mailed, sends, approved>>

Next ==
    \/ OwnerSwitches
    \/ \E o \in Outreaches : OwnerResolves(o)
    \/ \E w \in Workers, o \in Outreaches :
        RequestApproval(w, o) \/ Admit(w, o) \/ LookUp(w, o)
    \/ \E w \in Workers :
        \/ RequestCommit(w) \/ Gate(w) \/ Reserve(w) \/ Post(w)
        \/ RecordSent(w) \/ RecordFailed(w) \/ Abandon(w)

Spec == Init /\ [][Next]_vars

----------------------------------------------------------------------------
(* Properties.                                                             *)

Answers == Seq({"pending", "approved", "refused"})

Work ==
    {Idle}
    \cup [pc : {"requesting", "gated"}, of : Outreaches]
    \cup [pc : {"admitted"}, of : Outreaches, approval : Nat]
    \cup [pc : {"insert", "reserved"}, of : Outreaches, followup : BOOLEAN]
    \cup [pc : Posted, of : Outreaches, followup : BOOLEAN, tries : 1..MaxPosts]

\* Every variable holds a value of its type.
TypeOK ==
    /\ outbound \in BOOLEAN
    /\ outreach \in [Outreaches -> {"draft", "pending_approval", "sent", "failed"}]
    /\ approval \in [Outreaches -> Answers]
    /\ ledger \in [Outreaches -> {"absent", "sent", "failed"}]
    /\ followup \subseteq Outreaches
    /\ worker \in [Workers -> Work]
    /\ mailed \in [Outreaches -> 0..2]
    /\ sends \in [Outreaches -> 0..2]
    /\ lost \subseteq Outreaches
    /\ approved \subseteq Outreaches

\* An outreach is posted again only if the transaction that posted it before was
\* lost: concurrent sends, a second request for approval that overwrites the
\* outreach's SENT and sends after a recorded failure never post a second time.
PostedAgainOnlyIfLost == \A o \in Outreaches : sends[o] > 1 => o \in lost

\* The recipient never gets the same outreach twice, even when the row of a post was
\* lost, because every send of an outreach gives the provider the same key.
MailedOnce == \A o \in Outreaches : mailed[o] <= 1

\* What the ledger calls sent was mailed, and mail was approved beforehand.
SentWasMailedWasApproved ==
    \A o \in Outreaches :
        /\ ledger[o] = "sent" => mailed[o] > 0
        /\ mailed[o] > 0 => o \in approved

Others == Cardinality(Workers) - 1

\* The caps are read without a lock.  Concurrent sessions take the recorded mail of
\* the day, its first contacts and all mail to one lead past their caps by one message
\* for each of the other sessions, and no more.  (Sessions that look up a lead before
\* any of them commits all count as the first contact.)
CapsOvershootBounded ==
    /\ Cardinality(Sent) <= DailyLimit + Others
    /\ Cardinality(Sent \ followup) <= InitialLimit + Others
    /\ \A l \in Leads : Cardinality(SentTo(l)) <= 1 + MaxFollowups + Others
=============================================================================
