------------------------------ MODULE FollowUps ------------------------------
(***************************************************************************)
(* The follow-up sequence of one lead (services/follow_up_service.py): it  *)
(* is opened when the first outreach is sent, drafts one follow-up at a    *)
(* time for the owner to approve, and stops when the lead replies, opts    *)
(* out, is blocked or becomes a customer.                                  *)
(*                                                                         *)
(* Every operation reads the lead, the sequence and the item in a session  *)
(* of its own, decides on what it read, and commits the columns it changed *)
(* over whatever was committed since.  A send commits twice: the email     *)
(* service commits the message, with the item still "sending", and then    *)
(* send_followup commits the item and the sequence.                        *)
(***************************************************************************)
EXTENDS Naturals

CONSTANTS
    Workers,      \* database sessions
    Events,       \* what the lead may do: a subset of AllEvents
    MaxFollowups  \* settings.max_followups

AllEvents == {"reply", "opt_out", "block", "customer"}

ASSUME EventsAssumption == Events \subseteq AllEvents
ASSUME MaxAssumption == MaxFollowups \in Nat

VARIABLES
    lead,      \* its status and the stop flags set on it
    seq,       \* the sequence: status, follow-ups sent, and when the next is due
    item,      \* status of each follow-up item
    approval,  \* of each item's draft
    message,   \* the outbound message of each item's key
    worker,    \* what each session is doing, with what it read
    mailed,    \* follow-ups that reached the lead
    \* history, read by no action of the system
    told,      \* events of the lead that have been committed
    ignored    \* events committed before a send that mailed began

rows    == <<lead, seq, item, approval, message>>
history == <<told, ignored>>
vars    == <<rows, worker, mailed, history>>

Index == 1..MaxFollowups
Idle  == [pc |-> "idle"]

----------------------------------------------------------------------------
(* _evaluate_stop, on the lead as it was read.                             *)

Stopped(l) == l.flags # {} \/ l.status = "converted"

\* The commit of a sequence writes what changed: a new time always differs from the
\* one read, the other columns may not.
Write(s, status, count, next) ==
    [status |-> IF status = s.status THEN seq.status ELSE status,
     count  |-> IF count = s.count THEN seq.count ELSE count,
     next   |-> IF next = s.next /\ next = "none" THEN seq.next ELSE next]

\* _stop_sequence.
Stop(s) == Write(s, "stopped", s.count, "none")

AdvanceByOne(s, i) ==
    IF s.count + 1 >= MaxFollowups THEN Write(s, "completed", s.count + 1, "none")
                                   ELSE Write(s, "active", s.count + 1, "later")

\* A sequence after its i-th follow-up was sent.
Advance(s, i) ==
    IF i >= MaxFollowups THEN Write(s, "completed", i, "none")
                         ELSE Write(s, "active", i, "later")

\* The row lock of an item whose change is flushed and not committed.
Holding == {"sending", "accepted", "refused", "replayed"}

Locked(w, i) == \E v \in Workers \ {w} : worker[v].pc \in Holding /\ worker[v].item = i

----------------------------------------------------------------------------
Init ==
    /\ lead = [status |-> "new", flags |-> {}]
    /\ seq = [status |-> "absent", count |-> 0, next |-> "none"]
    /\ item = [i \in Index |-> "absent"]
    /\ approval = [i \in Index |-> "none"]
    /\ message = [i \in Index |-> "absent"]
    /\ worker = [w \in Workers |-> Idle]
    /\ mailed = {}
    /\ told = {}
    /\ ignored = {}

Goto(w, work) == worker' = [worker EXCEPT ![w] = work]

\* The time of the next follow-up comes.
Tick ==
    /\ seq.next = "later"
    /\ seq' = [seq EXCEPT !.next = "due"]
    /\ UNCHANGED <<lead, item, approval, message, worker, mailed, history>>

OwnerResolves(i) ==
    /\ approval[i] = "pending"
    /\ \E outcome \in {"approved", "refused"} : approval' = [approval EXCEPT ![i] = outcome]
    /\ UNCHANGED <<lead, seq, item, message, worker, mailed, history>>

\* ensure_sequence_started, once an outreach was sent: no sequence is found.
StartRead(w) ==
    /\ worker[w] = Idle
    /\ seq.status = "absent"
    /\ Goto(w, [pc |-> "start", lead |-> lead])
    /\ UNCHANGED <<rows, mailed, history>>

StartCommitWritesAll(w) ==
    /\ worker[w].pc = "start"
    /\ LET l == worker[w].lead
       IN  /\ lead' = [l EXCEPT !.status = IF l.status = "new" THEN "contacted" ELSE @]
           /\ seq' = IF seq.status # "absent" THEN seq
                     ELSE [status |-> IF Stopped(l) THEN "stopped" ELSE "active",
                           count  |-> 0,
                           next   |-> IF Stopped(l) THEN "none" ELSE "later"]
    /\ Goto(w, Idle)
    /\ UNCHANGED <<item, approval, message, mailed, history>>

\* The lead of another outreach's sequence is marked as contacted all the same.
StartCommit(w) ==
    /\ worker[w].pc = "start"
    /\ LET l == worker[w].lead
       IN  /\ lead' = [lead EXCEPT !.status = IF l.status = "new" THEN "contacted" ELSE @]
           /\ seq' = IF seq.status # "absent" THEN seq
                     ELSE [status |-> IF Stopped(l) THEN "stopped" ELSE "active",
                           count  |-> 0,
                           next   |-> IF Stopped(l) THEN "none" ELSE "later"]
    /\ Goto(w, Idle)
    /\ UNCHANGED <<item, approval, message, mailed, history>>

\* process_due selects the sequence and reads the lead.
ProcessRead(w) ==
    /\ worker[w] = Idle
    /\ seq.status = "active"
    /\ seq.next = "due"
    /\ seq.count < MaxFollowups
    /\ Goto(w, [pc |-> "process", seq |-> seq, lead |-> lead])
    /\ UNCHANGED <<rows, mailed, history>>

ProcessStopsUncommitted(w) ==
    /\ worker[w].pc = "process"
    /\ Stopped(worker[w].lead)
    /\ Goto(w, Idle)
    /\ UNCHANGED <<rows, mailed, history>>

ProcessStops(w) ==
    /\ worker[w].pc = "process"
    /\ Stopped(worker[w].lead)
    /\ seq' = Stop(worker[w].seq)
    /\ Goto(w, Idle)
    /\ UNCHANGED <<lead, item, approval, message, mailed, history>>

\* It claims the next item, which the unique key grants once, drafts it and requests
\* its approval.  (The second check of the stop rules sees the lead object that was
\* read before.  An item that exists is skipped, which changes nothing: Abandon.)
ProcessDrafts(w) ==
    /\ worker[w].pc = "process"
    /\ ~Stopped(worker[w].lead)
    /\ LET s == worker[w].seq
           i == s.count + 1
       IN  /\ item[i] = "absent"
           /\ item' = [item EXCEPT ![i] = "pending_approval"]
           /\ approval' = [approval EXCEPT ![i] = "pending"]
           /\ seq' = Write(s, "waiting_approval", s.count, "none")
    /\ Goto(w, Idle)
    /\ UNCHANGED <<lead, message, mailed, history>>

\* send_followup finds the lead stopped, or as many follow-ups sent as are allowed.
SendRefused(w, i) ==
    /\ worker[w] = Idle
    /\ item[i] \notin {"absent", "sent"}
    /\ Stopped(lead) \/ (approval[i] = "approved" /\ seq.count >= MaxFollowups)
    /\ Goto(w, [pc |-> "refuse", item |-> i, seq |-> seq,
                as |-> IF Stopped(lead) THEN "stopped" ELSE "completed"])
    /\ UNCHANGED <<rows, mailed, history>>

SendRefusedCommit(w) ==
    /\ worker[w].pc = "refuse"
    /\ ~Locked(w, worker[w].item)
    /\ LET s == worker[w].seq
       IN  seq' = Write(s, worker[w].as, s.count, "none")
    /\ item' = [item EXCEPT ![worker[w].item] = "skipped"]
    /\ Goto(w, Idle)
    /\ UNCHANGED <<lead, approval, message, mailed, history>>

\* ... or everything in order: no stop rule, an approved draft, fewer sent than
\* allowed.  (The item's own status is not looked at, unless it is "sent".)
SendRead(w, i) ==
    /\ worker[w] = Idle
    /\ item[i] \notin {"absent", "sent"}
    /\ ~Stopped(lead)
    /\ approval[i] = "approved"
    /\ seq.count < MaxFollowups
    /\ Goto(w, [pc |-> "send", item |-> i, seq |-> seq, after |-> told])
    /\ UNCHANGED <<rows, mailed, history>>

\* The flush of "sending" takes the item's row lock.
SendFlush(w) ==
    /\ worker[w].pc = "send"
    /\ ~Locked(w, worker[w].item)
    /\ Goto(w, [worker[w] EXCEPT !.pc = "sending"])
    /\ UNCHANGED <<rows, mailed, history>>

\* EmailService.send: a message of this key that was sent is returned as it is (one
\* that failed is refused: Abandon) ...
Replay(w) ==
    /\ worker[w].pc = "sending"
    /\ message[worker[w].item] = "sent"
    /\ Goto(w, [worker[w] EXCEPT !.pc = "replayed"])
    /\ UNCHANGED <<rows, mailed, history>>

\* ... and otherwise it is posted.  The provider may accept it and its answer be lost.
Post(w) ==
    /\ worker[w].pc = "sending"
    /\ message[worker[w].item] = "absent"
    /\ \E accepts, answers \in BOOLEAN :
        /\ mailed' = IF accepts THEN mailed \cup {worker[w].item} ELSE mailed
        /\ ignored' = IF accepts THEN ignored \cup worker[w].after ELSE ignored
        /\ Goto(w, [worker[w] EXCEPT !.pc = IF accepts /\ answers THEN "accepted"
                                                                  ELSE "refused"])
    /\ UNCHANGED <<rows, told>>

\* The email service commits what was flushed: the message and the item's "sending".
RecordSent(w) ==
    /\ worker[w].pc = "accepted"
    /\ LET i == worker[w].item
       IN  /\ message' = [message EXCEPT ![i] = "sent"]
           /\ item' = [item EXCEPT ![i] = "sending"]
    /\ Goto(w, [worker[w] EXCEPT !.pc = "recorded"])
    /\ UNCHANGED <<lead, seq, approval, mailed, history>>

RecordFailed(w) ==
    /\ worker[w].pc = "refused"
    /\ LET i == worker[w].item
       IN  /\ message' = [message EXCEPT ![i] = "failed"]
           /\ item' = [item EXCEPT ![i] = "sending"]
    /\ Goto(w, Idle)
    /\ UNCHANGED <<lead, seq, approval, mailed, history>>

\* send_followup's own commit: the item, the count, and the sequence going on.
SendCommit(w) ==
    /\ worker[w].pc \in {"recorded", "replayed"}
    /\ ~Locked(w, worker[w].item)
    /\ LET i == worker[w].item
       IN  /\ item' = [item EXCEPT ![i] = "sent"]
           /\ seq' = Advance(worker[w].seq, i)
    /\ Goto(w, Idle)
    /\ UNCHANGED <<lead, approval, message, mailed, history>>

\* record_reply, record_opt_out, block_lead, mark_customer: the lead, its sequence and
\* the items that are open are read ...
EventRead(w, e) ==
    /\ worker[w] = Idle
    /\ Goto(w, [pc |-> "event", event |-> e, lead |-> lead, seq |-> seq,
                open |-> {i \in Index : item[i] = "pending_approval"}])
    /\ UNCHANGED <<rows, mailed, history>>

\* What the event makes of the lead: the columns it changes on the lead it read.
LeadAfter(e, l) ==
    [status |-> IF e = "customer" /\ l.status # "converted" THEN "converted"
                ELSE IF e = "reply" /\ l.status \notin {"converted", "qualified"} THEN "qualified"
                ELSE lead.status,
     flags  |-> IF e = "customer" THEN lead.flags ELSE lead.flags \cup {e}]

\* ... and committed: the lead marked, the sequence stopped, the open items cancelled.
EventCommit(w) ==
    /\ worker[w].pc = "event"
    /\ \A i \in worker[w].open : ~Locked(w, i)
    /\ lead' = LeadAfter(worker[w].event, worker[w].lead)
    /\ seq' = IF worker[w].seq.status = "absent" THEN seq ELSE Stop(worker[w].seq)
    /\ item' = [i \in Index |-> IF i \in worker[w].open THEN "cancelled" ELSE item[i]]
    /\ told' = told \cup {worker[w].event}
    /\ Goto(w, Idle)
    /\ UNCHANGED <<approval, message, mailed, ignored>>

\* The session's transaction is rolled back, or its process dies.
Abandon(w) ==
    /\ worker[w] # Idle
    /\ Goto(w, Idle)
    /\ UNCHANGED <<rows, mailed, history>>

Process(w) == ProcessRead(w) \/ ProcessStops(w) \/ ProcessDrafts(w)

Send(w) ==
    \/ \E i \in Index : SendRefused(w, i) \/ SendRead(w, i)
    \/ SendRefusedCommit(w)
    \/ SendFlush(w)
    \/ Replay(w)
    \/ Post(w)
    \/ RecordSent(w)
    \/ RecordFailed(w)
    \/ SendCommit(w)

Next ==
    \/ Tick
    \/ \E i \in Index : OwnerResolves(i)
    \/ \E w \in Workers :
        \/ StartRead(w)
        \/ StartCommit(w)
        \/ Process(w)
        \/ Send(w)
        \/ \E e \in Events : EventRead(w, e)
        \/ EventCommit(w)
        \/ Abandon(w)

Spec == Init /\ [][Next]_vars

\* Time passes, the scheduler starts process_due for ever and it does not fail every
\* time, and the sessions do not all hang for ever.
Fairness ==
    /\ WF_vars(Tick)
    /\ SF_vars(\E w \in Workers : ProcessRead(w))
    /\ SF_vars(\E w \in Workers : ProcessStops(w))
    /\ WF_vars(\E w \in Workers : Abandon(w))

FairSpec == Spec /\ Fairness

----------------------------------------------------------------------------
(* Properties.                                                             *)

Lead == [status : {"new", "contacted", "qualified", "converted"},
         flags : SUBSET (Events \ {"customer"})]

Sequence == [status : {"absent", "active", "waiting_approval", "stopped", "completed"},
             count : 0..MaxFollowups,
             next : {"none", "later", "due"}]

Work ==
    {Idle}
    \cup [pc : {"start"}, lead : Lead]
    \cup [pc : {"process"}, seq : Sequence, lead : Lead]
    \cup [pc : {"refuse"}, item : Index, seq : Sequence, as : {"stopped", "completed"}]
    \cup [pc : {"send", "recorded"} \cup Holding, item : Index, seq : Sequence,
          after : SUBSET Events]
    \cup [pc : {"event"}, event : Events, lead : Lead, seq : Sequence, open : SUBSET Index]

\* Every variable holds a value of its type; the count never passes the maximum.
TypeOK ==
    /\ lead \in Lead
    /\ seq \in Sequence
    /\ item \in [Index -> {"absent", "pending_approval", "sending", "sent", "skipped",
                          "cancelled"}]
    /\ approval \in [Index -> {"none", "pending", "approved", "refused"}]
    /\ message \in [Index -> {"absent", "sent", "failed"}]
    /\ worker \in [Workers -> Work]
    /\ mailed \subseteq Index
    /\ told \subseteq Events
    /\ ignored \subseteq Events

\* No follow-up reaches a lead that had replied, opted out or been blocked before its
\* send began, although concurrent commits may put the stopped sequence back to work.
StopIsHeeded == ignored \subseteq {"customer"}

\* Follow-ups are mailed in their order, each on an approval of its own, and the
\* sequence counts only what was sent, whatever two sends of an item overwrite.
MailedInOrder ==
    /\ \A i \in mailed : approval[i] = "approved" /\ \A j \in 1..(i - 1) : j \in mailed
    /\ \A i \in 1..seq.count : message[i] = "sent" /\ i \in mailed

\* Once the lead has stopped, process_due in the end leaves its sequence alone for
\* good, although a send that was under way may have put it back to work.
StoppedLeadIsQuiet ==
    lead.flags # {} ~>
        [](seq.status = "active" /\ seq.next = "due" => seq.count >= MaxFollowups)

\* follow_up_service.py:3, "Never follows up after reply / opt-out / customer /
\* blocked": no follow-up reaches a lead that had become a customer.
CustomerIsLeftAlone == "customer" \notin ignored
=============================================================================
