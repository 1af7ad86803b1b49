--------------------------- MODULE FollowUpsProofs ---------------------------
(***************************************************************************)
(* Proofs about the follow-up sequence, for any number of sessions and of  *)
(* follow-ups.                                                             *)
(*                                                                         *)
(* The commits of the sequence overwrite each other, so nothing is proved  *)
(* from its status.  A stopped lead is left alone because the flags of the *)
(* lead only grow and a send reads them when it begins.  The order of the  *)
(* mails rests on Done(n), that the first n follow-ups were sent: it holds *)
(* of the count committed, of the count a session has read, and of every   *)
(* n whose next item exists; and what was sent stays sent.                 *)
(***************************************************************************)
EXTENDS FollowUps, TLAPS

Sending == {"send", "recorded"} \cup Holding

Done(n) == \A j \in 1..n : message[j] = "sent" /\ j \in mailed

ToldIsFlagged == told \subseteq lead.flags \cup {"customer"}

OneHolder ==
    \A v, w \in Workers :
        worker[v].pc \in Holding /\ worker[w].pc \in Holding /\ worker[v].item = worker[w].item
            => v = w

\* What a session has read or done still fits what is committed.
Fits(x) ==
    /\ x.pc = "process" => x.seq.count < MaxFollowups /\ Done(x.seq.count)
    /\ x.pc \in Sending => /\ x.after \subseteq {"customer"}
                           /\ item[x.item] # "absent"
                           /\ approval[x.item] = "approved"
    /\ x.pc \in {"accepted", "refused"} => message[x.item] = "absent"
    /\ x.pc = "accepted" => x.item \in mailed
    /\ x.pc \in {"recorded", "replayed"} => message[x.item] = "sent"
    /\ x.pc = "refuse" => item[x.item] # "absent"
    /\ x.pc = "event" => \A i \in x.open : item[i] # "absent"

WorkersFit == \A w \in Workers : Fits(worker[w])

DraftsAreApproved ==
    \A i \in Index :
        /\ item[i] = "absent" <=> approval[i] = "none"
        /\ i \in mailed => approval[i] = "approved"
        /\ message[i] = "sent" => i \in mailed

CountsAreDone ==
    /\ Done(seq.count)
    /\ \A i \in Index : item[i] # "absent" => Done(i - 1)

IInv ==
    /\ TypeOK
    /\ ToldIsFlagged
    /\ StopIsHeeded
    /\ OneHolder
    /\ WorkersFit
    /\ DraftsAreApproved
    /\ CountsAreDone

Pcs == {"idle", "start", "process", "refuse", "event"} \cup Sending

----------------------------------------------------------------------------
(* What sessions hold, and what stays.                                     *)

LEMMA WorkTypes ==
    ASSUME TypeOK, NEW w \in Workers
    PROVE  /\ worker[w] \in Work
           /\ worker[w].pc \in Pcs
           /\ worker[w].pc \in {"start", "process", "event"} => worker[w].lead \in Lead
           /\ worker[w].pc \in {"process", "refuse", "event"} \cup Sending
                => worker[w].seq \in Sequence
           /\ worker[w].pc \in {"refuse"} \cup Sending => worker[w].item \in Index
           /\ worker[w].pc = "refuse" => worker[w].as \in {"stopped", "completed"}
           /\ worker[w].pc \in Sending => worker[w].after \subseteq Events
           /\ worker[w].pc = "event" => worker[w].event \in Events /\ worker[w].open \subseteq Index
<1>1. worker[w] \in Work
  BY DEF TypeOK
<1>. QED
  BY <1>1 DEF Work, Idle, Pcs, Sending, Holding

LEMMA InitInv == Init => IInv
BY MaxAssumption
   DEF Init, IInv, TypeOK, Lead, Sequence, Work, Idle, Index, ToldIsFlagged, StopIsHeeded,
       OneHolder, Holding, WorkersFit, Fits, Sending, DraftsAreApproved, CountsAreDone, Done

\* A commit of the sequence is typed, and counts what was counted or the item it sent.
LEMMA AdvanceCounts ==
    ASSUME NEW s \in Sequence, seq \in Sequence,
           NEW i \in Nat, 1 <= i, i <= MaxFollowups
    PROVE  Advance(s, i) \in Sequence /\ Advance(s, i).count \in {seq.count, i}
BY MaxAssumption DEF Advance, Write, Sequence

LEMMA WriteKeepsCount ==
    ASSUME NEW s \in Sequence, seq \in Sequence,
           NEW status \in {"active", "waiting_approval", "stopped", "completed"}
    PROVE  /\ Write(s, status, s.count, "none") \in Sequence
           /\ Write(s, status, s.count, "none").count = seq.count
BY DEF Write, Sequence

\* Nothing that was done is undone.
Keeps ==
    /\ \A i \in Index : message[i] = "sent" => message'[i] = "sent"
    /\ \A i \in Index : item[i] # "absent" => item'[i] # "absent"
    /\ \A i \in Index : approval[i] = "approved" => approval'[i] = "approved"
    /\ mailed \subseteq mailed'

LEMMA DoneStays ==
    ASSUME Keeps, NEW n \in Nat, n <= MaxFollowups, Done(n)
    PROVE  Done(n)'
BY MaxAssumption DEF Keeps, Done, Index

LEMMA FitsStays ==
    ASSUME TypeOK, Keeps, NEW v \in Workers, Fits(worker[v]), worker'[v] = worker[v],
           worker[v].pc \in {"accepted", "refused"}
                => message'[worker[v].item] = message[worker[v].item]
    PROVE  Fits(worker[v])'
<1>. DEFINE x == worker[v]
<1>1. x.pc = "process" => x.seq.count \in 0..MaxFollowups
  BY WorkTypes DEF Sequence
<1>2. x.pc = "process" => Done(x.seq.count)'
  <2>. SUFFICES ASSUME x.pc = "process"
                PROVE  Done(x.seq.count)'
    OBVIOUS
  <2>1. Done(x.seq.count)
    BY DEF Fits
  <2>. QED
    BY <1>1, <2>1, MaxAssumption DEF Keeps, Done, Index
<1>3. x.pc \in {"refuse"} \cup Sending => x.item \in Index
  BY WorkTypes
<1>4. x.pc = "event" => x.open \subseteq Index
  BY WorkTypes
<1>. QED
  BY <1>2, <1>3, <1>4 DEF Fits, Keeps, Sending, Holding

\* A step that keeps what was done, and whose session still fits.
LEMMA StepInv ==
    ASSUME IInv, Keeps, TypeOK', ToldIsFlagged', StopIsHeeded', DraftsAreApproved',
           CountsAreDone',
           NEW w \in Workers, NEW work, Goto(w, work),
           Fits(worker[w])',
           work.pc \in Holding => worker[w].pc \in Holding \cup {"send"}
                                  /\ work.item = worker[w].item /\ ~Locked(w, work.item),
           \A i \in Index : message'[i] = message[i]
                            \/ (worker[w].pc \in Holding /\ worker[w].item = i)
    PROVE  IInv'
<1>1. worker'[w] = work /\ \A v \in Workers : v # w => worker'[v] = worker[v]
  BY DEF IInv, TypeOK, Goto
<1>2. WorkersFit'
  <2>. SUFFICES ASSUME NEW v \in Workers, v # w
                PROVE  Fits(worker[v])'
    BY DEF WorkersFit
  <2>1. ASSUME worker[v].pc \in {"accepted", "refused"}
        PROVE  message'[worker[v].item] = message[worker[v].item]
    <3>1. worker[v].item \in Index /\ worker[v].pc \in Holding
      BY <2>1, WorkTypes DEF IInv, Sending, Holding
    <3>. QED
      BY <3>1 DEF IInv, OneHolder
  <2>. QED
    BY <2>1, <1>1, FitsStays DEF IInv, WorkersFit
<1>3. OneHolder'
  BY <1>1 DEF IInv, OneHolder, Locked
<1>. QED
  BY <1>2, <1>3 DEF IInv

\* A session that only reads: nothing is committed.
LEMMA ReadInv ==
    ASSUME IInv, UNCHANGED <<rows, mailed, history>>,
           NEW w \in Workers, NEW work \in Work, Goto(w, work), Fits(work),
           work.pc \in Holding => worker[w].pc \in Holding \cup {"send"}
                                  /\ work.item = worker[w].item /\ ~Locked(w, work.item)
    PROVE  IInv'
<1>. USE DEF IInv, rows, history
<1>1. worker' \in [Workers -> Work] /\ worker'[w] = work
  BY DEF TypeOK, Goto
<1>2. TypeOK'
  BY <1>1 DEF TypeOK
<1>3. Keeps
  BY DEF Keeps
<1>4. Fits(worker[w])'
  BY <1>1 DEF Fits, Done
<1>5. CountsAreDone'
  BY DEF CountsAreDone, Done
<1>. QED
  BY <1>2, <1>3, <1>4, <1>5, StepInv
     DEF ToldIsFlagged, StopIsHeeded, DraftsAreApproved

----------------------------------------------------------------------------
(* The reads, and the moves of a session between commits.                  *)

LEMMA MovesInv ==
    ASSUME IInv, NEW w \in Workers,
           \/ StartRead(w) \/ ProcessRead(w) \/ Abandon(w)
           \/ SendFlush(w) \/ Replay(w)
           \/ \E i \in Index : SendRefused(w, i) \/ SendRead(w, i)
           \/ \E e \in Events : EventRead(w, e)
    PROVE  IInv'
<1>. USE DEF IInv
<1>a. Idle \in Work /\ Fits(Idle) /\ Idle.pc \notin Holding
  BY DEF Work, Idle, Fits, Sending, Holding
<1>1. CASE StartRead(w)
  <2>. DEFINE work == [pc |-> "start", lead |-> lead]
  <2>1. work \in Work /\ Fits(work) /\ work.pc \notin Holding
    BY DEF Work, TypeOK, Fits, Sending, Holding
  <2>. QED
    BY <1>1, <2>1, ReadInv DEF StartRead
<1>2. CASE ProcessRead(w)
  <2>. DEFINE work == [pc |-> "process", seq |-> seq, lead |-> lead]
  <2>1. work \in Work /\ Fits(work) /\ work.pc \notin Holding
    BY <1>2 DEF ProcessRead, Work, TypeOK, Fits, Sending, Holding, CountsAreDone
  <2>. QED
    BY <1>2, <2>1, ReadInv DEF ProcessRead
<1>3. CASE Abandon(w)
  BY <1>3, <1>a, ReadInv DEF Abandon
<1>4. CASE SendFlush(w)
  <2>. DEFINE work == [worker[w] EXCEPT !.pc = "sending"]
  <2>1. work \in Work /\ work.pc = "sending" /\ work.item = worker[w].item
        /\ work.after = worker[w].after
    BY <1>4, WorkTypes DEF SendFlush, Work, Sending, Holding, Idle
  <2>2. Fits(work)
    BY <1>4, <2>1 DEF SendFlush, WorkersFit, Fits, Sending, Holding
  <2>. QED
    BY <1>4, <2>1, <2>2, ReadInv DEF SendFlush
<1>5. CASE Replay(w)
  <2>. DEFINE work == [worker[w] EXCEPT !.pc = "replayed"]
  <2>1. work \in Work /\ work.pc = "replayed" /\ work.item = worker[w].item
        /\ work.after = worker[w].after
    BY <1>5, WorkTypes DEF Replay, Work, Sending, Holding, Idle
  <2>2. Fits(work)
    BY <1>5, <2>1 DEF Replay, WorkersFit, Fits, Sending, Holding
  <2>3. worker[w].pc \in Holding /\ ~Locked(w, work.item)
    BY <1>5, <2>1 DEF Replay, OneHolder, Locked, Holding
  <2>. QED
    BY <1>5, <2>1, <2>2, <2>3, ReadInv DEF Replay
<1>6. ASSUME NEW i \in Index, SendRefused(w, i)
      PROVE  IInv'
  <2>. DEFINE work == [pc |-> "refuse", item |-> i, seq |-> seq,
                       as |-> IF Stopped(lead) THEN "stopped" ELSE "completed"]
  <2>1. work \in Work /\ Fits(work) /\ work.pc \notin Holding
    BY <1>6 DEF SendRefused, Work, TypeOK, Fits, Sending, Holding
  <2>. QED
    BY <1>6, <2>1, ReadInv DEF SendRefused
<1>7. ASSUME NEW i \in Index, SendRead(w, i)
      PROVE  IInv'
  <2>. DEFINE work == [pc |-> "send", item |-> i, seq |-> seq, after |-> told]
  <2>1. told \subseteq {"customer"}
    BY <1>7 DEF SendRead, Stopped, ToldIsFlagged
  <2>2. work \in Work /\ Fits(work) /\ work.pc \notin Holding
    BY <1>7, <2>1 DEF SendRead, Work, TypeOK, Fits, Sending, Holding
  <2>. QED
    BY <1>7, <2>2, ReadInv DEF SendRead
<1>8. ASSUME NEW e \in Events, EventRead(w, e)
      PROVE  IInv'
  <2>. DEFINE work == [pc |-> "event", event |-> e, lead |-> lead, seq |-> seq,
                       open |-> {i \in Index : item[i] = "pending_approval"}]
  <2>1. work \in Work /\ Fits(work) /\ work.pc \notin Holding
    BY <1>8 DEF Work, TypeOK, Fits, Sending, Holding
  <2>. QED
    BY <1>8, <2>1, ReadInv DEF EventRead
<1>. QED
  BY <1>1, <1>2, <1>3, <1>4, <1>5, <1>6, <1>7, <1>8

----------------------------------------------------------------------------
(* Steps of no session.                                                    *)

LEMMA TickInv == IInv /\ Tick => IInv'
<1>. SUFFICES ASSUME IInv, Tick
              PROVE  IInv'
  OBVIOUS
<1>1. seq' \in Sequence /\ seq'.count = seq.count
  BY DEF IInv, TypeOK, Tick, Sequence
<1>. QED
  BY <1>1
     DEF Tick, IInv, TypeOK, history, ToldIsFlagged, StopIsHeeded, OneHolder, WorkersFit, Fits,
         DraftsAreApproved, CountsAreDone, Done

LEMMA OwnerResolvesInv ==
    ASSUME IInv, NEW i \in Index, OwnerResolves(i)
    PROVE  IInv'
<1>. USE DEF IInv
<1>1. PICK outcome \in {"approved", "refused"} : approval' = [approval EXCEPT ![i] = outcome]
  BY DEF OwnerResolves
<1>2. approval'[i] = outcome /\ approval[i] = "pending"
      /\ \A j \in Index : j # i => approval'[j] = approval[j]
  BY <1>1 DEF TypeOK, OwnerResolves
<1>3. TypeOK'
  BY <1>1 DEF TypeOK, OwnerResolves, history
<1>4. WorkersFit'
  <2>1. Keeps
    BY <1>2 DEF Keeps, OwnerResolves
  <2>2. UNCHANGED <<worker, message>>
    BY DEF OwnerResolves
  <2>. QED
    BY <2>1, <2>2, FitsStays DEF WorkersFit
<1>5. DraftsAreApproved'
  BY <1>2 DEF DraftsAreApproved, OwnerResolves
<1>. QED
  BY <1>3, <1>4, <1>5
     DEF OwnerResolves, history, ToldIsFlagged, StopIsHeeded, OneHolder, CountsAreDone, Done

----------------------------------------------------------------------------
(* Commits.                                                                *)

\* A commit of the lead, the sequence or the items that ends its session, with nothing
\* sent and no more counted.
LEMMA CommitInv ==
    ASSUME IInv, NEW w \in Workers, Goto(w, Idle), UNCHANGED <<message, mailed, ignored>>,
           lead' \in Lead, lead.flags \subseteq lead'.flags,
           seq' \in Sequence, Done(seq'.count),
           item' \in [Index -> {"absent", "pending_approval", "sending", "sent", "skipped",
                                "cancelled"}],
           approval' \in [Index -> {"none", "pending", "approved", "refused"}],
           told' \subseteq Events, told' \subseteq lead'.flags \cup {"customer"},
           \A i \in Index :
               \/ /\ item'[i] = "absent" <=> item[i] = "absent"
                  /\ approval'[i] = approval[i]
               \/ /\ item[i] = "absent"
                  /\ item'[i] # "absent" /\ approval'[i] # "none"
                  /\ Done(i - 1)
    PROVE  IInv'
<1>. USE DEF IInv
<1>1. worker' \in [Workers -> Work] /\ worker'[w] = Idle
  BY DEF TypeOK, Goto, Work
<1>2. TypeOK'
  BY <1>1 DEF TypeOK
<1>3. Keeps
  BY DEF Keeps, DraftsAreApproved
<1>4. DraftsAreApproved'
  BY DEF DraftsAreApproved
<1>5. CountsAreDone'
  BY DEF CountsAreDone, Done
<1>6. Fits(worker[w])'
  BY <1>1 DEF Fits, Idle, Sending, Holding
<1>. QED
  BY <1>2, <1>3, <1>4, <1>5, <1>6, StepInv DEF ToldIsFlagged, StopIsHeeded, Idle, Holding

LEMMA StartCommitInv ==
    ASSUME IInv, NEW w \in Workers, StartCommit(w)
    PROVE  IInv'
<1>. USE DEF IInv
<1>1. worker[w].lead \in Lead
  BY WorkTypes DEF StartCommit
<1>2. lead' \in Lead /\ lead'.flags = lead.flags
  BY <1>1 DEF StartCommit, TypeOK, Lead
<1>3. seq' \in Sequence /\ Done(seq'.count)
  <2>1. CASE seq.status # "absent"
    BY <2>1 DEF StartCommit, TypeOK, CountsAreDone
  <2>2. CASE seq.status = "absent"
    BY <2>2, MaxAssumption DEF StartCommit, Sequence, Done
  <2>. QED
    BY <2>1, <2>2
<1>. QED
  BY <1>2, <1>3, CommitInv DEF StartCommit, TypeOK, ToldIsFlagged, history

LEMMA ProcessStopsInv ==
    ASSUME IInv, NEW w \in Workers, ProcessStops(w)
    PROVE  IInv'
<1>. USE DEF IInv
<1>1. worker[w].seq \in Sequence
  BY WorkTypes DEF ProcessStops
<1>2. seq' \in Sequence /\ seq'.count = seq.count
  BY <1>1, WriteKeepsCount DEF ProcessStops, Stop, TypeOK
<1>. QED
  BY <1>2, CommitInv DEF ProcessStops, TypeOK, ToldIsFlagged, CountsAreDone, history

LEMMA ProcessDraftsInv ==
    ASSUME IInv, NEW w \in Workers, ProcessDrafts(w)
    PROVE  IInv'
<1>. USE DEF IInv
<1>. DEFINE s == worker[w].seq
            i == s.count + 1
<1>1. s \in Sequence
  BY WorkTypes DEF ProcessDrafts
<1>2. i \in Index /\ Done(i - 1)
  BY <1>1, MaxAssumption DEF ProcessDrafts, WorkersFit, Fits, Sequence, Index
<1>3. seq' \in Sequence /\ seq'.count = seq.count
  BY <1>1, WriteKeepsCount DEF ProcessDrafts, TypeOK
<1>4. \A j \in Index :
        /\ item'[j] = IF j = i THEN "pending_approval" ELSE item[j]
        /\ approval'[j] = IF j = i THEN "pending" ELSE approval[j]
  BY DEF ProcessDrafts, TypeOK
<1>5. item[i] = "absent"
  BY DEF ProcessDrafts
<1>. HIDE DEF s, i
<1>6. \A j \in Index :
        \/ /\ item'[j] = "absent" <=> item[j] = "absent"
           /\ approval'[j] = approval[j]
        \/ /\ item[j] = "absent"
           /\ item'[j] # "absent" /\ approval'[j] # "none"
           /\ Done(j - 1)
  BY <1>2, <1>4, <1>5
<1>. QED
  BY <1>3, <1>6, CommitInv DEF ProcessDrafts, TypeOK, ToldIsFlagged, CountsAreDone, history

LEMMA SendRefusedCommitInv ==
    ASSUME IInv, NEW w \in Workers, SendRefusedCommit(w)
    PROVE  IInv'
<1>. USE DEF IInv
<1>1. /\ worker[w].seq \in Sequence
      /\ worker[w].as \in {"stopped", "completed"}
      /\ worker[w].item \in Index
      /\ item[worker[w].item] # "absent"
  BY WorkTypes DEF SendRefusedCommit, WorkersFit, Fits
<1>2. seq' \in Sequence /\ seq'.count = seq.count
  BY <1>1, WriteKeepsCount DEF SendRefusedCommit, TypeOK
<1>3. \A i \in Index : item'[i] = "absent" <=> item[i] = "absent"
  BY <1>1 DEF SendRefusedCommit, TypeOK
<1>. QED
  BY <1>2, <1>3, CommitInv DEF SendRefusedCommit, TypeOK, ToldIsFlagged, CountsAreDone, history

LEMMA SendCommitInv ==
    ASSUME IInv, NEW w \in Workers, SendCommit(w)
    PROVE  IInv'
<1>. USE DEF IInv
<1>. DEFINE i == worker[w].item
<1>1. worker[w].seq \in Sequence /\ i \in Index /\ item[i] # "absent" /\ message[i] = "sent"
  BY WorkTypes DEF SendCommit, WorkersFit, Fits, Sending, Holding
<1>2. i \in Nat /\ 1 <= i /\ i <= MaxFollowups
  BY <1>1, MaxAssumption DEF Index
<1>3. Done(i)
  <2>1. Done(i - 1) /\ i \in mailed
    BY <1>1 DEF CountsAreDone, DraftsAreApproved
  <2>. QED
    BY <1>1, <1>2, <2>1 DEF Done
<1>4. seq' \in Sequence /\ seq'.count \in {seq.count, i}
  BY <1>1, <1>2, AdvanceCounts DEF SendCommit, TypeOK
<1>5. \A j \in Index : item'[j] = "absent" <=> item[j] = "absent"
  BY <1>1 DEF SendCommit, TypeOK
<1>. QED
  BY <1>3, <1>4, <1>5, CommitInv DEF SendCommit, TypeOK, ToldIsFlagged, CountsAreDone, history

LEMMA EventCommitInv ==
    ASSUME IInv, NEW w \in Workers, EventCommit(w)
    PROVE  IInv'
<1>. USE DEF IInv
<1>1. /\ worker[w].seq \in Sequence
      /\ worker[w].lead \in Lead
      /\ worker[w].event \in Events
      /\ \A i \in worker[w].open : item[i] # "absent"
  BY WorkTypes DEF EventCommit, WorkersFit, Fits
<1>2. lead' \in Lead /\ lead.flags \subseteq lead'.flags
      /\ (worker[w].event # "customer" => worker[w].event \in lead'.flags)
  BY <1>1 DEF EventCommit, LeadAfter, TypeOK, Lead
<1>3. seq' \in Sequence /\ seq'.count = seq.count
  BY <1>1, WriteKeepsCount DEF EventCommit, Stop, TypeOK
<1>4. \A i \in Index : item'[i] = "absent" <=> item[i] = "absent"
  BY <1>1 DEF EventCommit
<1>5. told' \subseteq Events /\ told' \subseteq lead'.flags \cup {"customer"}
  BY <1>1, <1>2 DEF EventCommit, TypeOK, ToldIsFlagged
<1>6. item' \in [Index -> {"absent", "pending_approval", "sending", "sent", "skipped",
                           "cancelled"}]
  BY DEF EventCommit, TypeOK
<1>. QED
  BY <1>2, <1>3, <1>4, <1>5, <1>6, CommitInv DEF EventCommit, TypeOK, CountsAreDone

----------------------------------------------------------------------------
(* The three steps of the email service.                                   *)

LEMMA PostInv ==
    ASSUME IInv, NEW w \in Workers, Post(w)
    PROVE  IInv'
<1>. USE DEF IInv
<1>. DEFINE i == worker[w].item
<1>1. PICK accepts \in BOOLEAN, answers \in BOOLEAN :
        /\ mailed' = IF accepts THEN mailed \cup {i} ELSE mailed
        /\ ignored' = IF accepts THEN ignored \cup worker[w].after ELSE ignored
        /\ Goto(w, [worker[w] EXCEPT !.pc = IF accepts /\ answers THEN "accepted"
                                                                   ELSE "refused"])
  BY DEF Post
<1>. DEFINE work == [worker[w] EXCEPT !.pc = IF accepts /\ answers THEN "accepted"
                                                                    ELSE "refused"]
<1>2. /\ worker[w].pc = "sending"
      /\ message[i] = "absent"
      /\ UNCHANGED <<lead, seq, item, approval, message, told>>
  BY DEF Post, rows
<1>3. /\ i \in Index
      /\ item[i] # "absent"
      /\ approval[i] = "approved"
      /\ worker[w].after \subseteq {"customer"} \cap Events
  BY <1>2, WorkTypes DEF WorkersFit, Fits, Sending, Holding
<1>4. /\ work \in Work
      /\ work.pc \in {"accepted", "refused"}
      /\ work.pc = "accepted" => accepts
      /\ work.item = i
      /\ work.after = worker[w].after
  BY <1>2, WorkTypes DEF Work, Sending, Holding, Idle
<1>5. worker' \in [Workers -> Work] /\ worker'[w] = work
  BY <1>1, <1>4 DEF TypeOK, Goto
<1>. HIDE DEF work
<1>6. TypeOK'
  BY <1>1, <1>2, <1>3, <1>5 DEF TypeOK
<1>7. StopIsHeeded'
  BY <1>1, <1>3 DEF StopIsHeeded
<1>8. Keeps
  BY <1>1, <1>2 DEF Keeps
<1>9. DraftsAreApproved'
  BY <1>1, <1>2, <1>3 DEF DraftsAreApproved
<1>10. CountsAreDone'
  BY <1>1, <1>2 DEF CountsAreDone, Done
<1>11. Fits(worker[w])'
  BY <1>1, <1>2, <1>3, <1>4, <1>5 DEF Fits, Sending, Holding
<1>12. ~Locked(w, i)
  BY <1>2 DEF Locked, OneHolder, Holding
<1>13. Goto(w, work)
  BY <1>1 DEF work
<1>. QED
  BY <1>2, <1>4, <1>6, <1>7, <1>8, <1>9, <1>10, <1>11, <1>12, <1>13, StepInv
     DEF ToldIsFlagged, Holding

\* The message and its item are committed with an outcome.
LEMMA RecordInv ==
    ASSUME IInv, NEW w \in Workers, NEW outcome \in {"sent", "failed"}, NEW work \in Work,
           worker[w].pc \in {"accepted", "refused"},
           outcome = "sent" => worker[w].pc = "accepted",
           message' = [message EXCEPT ![worker[w].item] = outcome],
           item' = [item EXCEPT ![worker[w].item] = "sending"],
           Goto(w, work),
           UNCHANGED <<lead, seq, approval, mailed, history>>,
           \/ work = Idle
           \/ /\ outcome = "sent"
              /\ work.pc = "recorded"
              /\ work.item = worker[w].item
              /\ work.after = worker[w].after
    PROVE  IInv'
<1>. USE DEF IInv
<1>. DEFINE i == worker[w].item
<1>1. /\ i \in Index
      /\ message[i] = "absent"
      /\ item[i] # "absent"
      /\ approval[i] = "approved"
      /\ worker[w].after \subseteq {"customer"}
      /\ outcome = "sent" => i \in mailed
  BY WorkTypes DEF WorkersFit, Fits, Sending, Holding
<1>2. \A j \in Index : /\ message'[j] = IF j = i THEN outcome ELSE message[j]
                       /\ item'[j] = IF j = i THEN "sending" ELSE item[j]
  BY <1>1 DEF TypeOK
<1>3. worker' \in [Workers -> Work] /\ worker'[w] = work
  BY DEF TypeOK, Goto
<1>4. TypeOK'
  BY <1>3 DEF TypeOK, history
<1>5. Keeps
  BY <1>1, <1>2 DEF Keeps
<1>6. DraftsAreApproved'
  BY <1>1, <1>2 DEF DraftsAreApproved
<1>7. CountsAreDone'
  <2>1. Done(seq.count)'
    BY <1>5, MaxAssumption DEF TypeOK, Sequence, CountsAreDone, Done, Keeps, Index
  <2>2. ASSUME NEW j \in Index, item'[j] # "absent"
        PROVE  Done(j - 1)'
    <3>1. Done(j - 1)
      BY <1>1, <1>2, <2>2 DEF CountsAreDone
    <3>. QED
      BY <1>5, <3>1, MaxAssumption DEF Done, Keeps, Index
  <2>. QED
    BY <2>1, <2>2 DEF CountsAreDone
<1>8. Fits(worker[w])'
  BY <1>1, <1>2, <1>3 DEF Fits, Idle, Sending, Holding
<1>9. work.pc \notin Holding /\ worker[w].pc \in Holding
  BY DEF Idle, Holding
<1>. QED
  BY <1>2, <1>4, <1>5, <1>6, <1>7, <1>8, <1>9, StepInv
     DEF ToldIsFlagged, StopIsHeeded, history

LEMMA RecordSentInv ==
    ASSUME IInv, NEW w \in Workers, RecordSent(w)
    PROVE  IInv'
<1>. DEFINE work == [worker[w] EXCEPT !.pc = "recorded"]
<1>1. /\ work \in Work
      /\ work.pc = "recorded"
      /\ work.item = worker[w].item
      /\ work.after = worker[w].after
  BY WorkTypes DEF IInv, RecordSent, Work, Sending, Holding, Idle
<1>. QED
  BY <1>1, RecordInv DEF RecordSent

LEMMA RecordFailedInv ==
    ASSUME IInv, NEW w \in Workers, RecordFailed(w)
    PROVE  IInv'
<1>1. Idle \in Work
  BY DEF Work
<1>. QED
  BY <1>1, RecordInv DEF RecordFailed

----------------------------------------------------------------------------
(* The invariant and its theorems.                                         *)

LEMMA NextInv == IInv /\ [Next]_vars => IInv'
<1>. SUFFICES ASSUME IInv, [Next]_vars
              PROVE  IInv'
  OBVIOUS
<1>1. CASE UNCHANGED vars
  BY <1>1
     DEF vars, rows, history, IInv, TypeOK, ToldIsFlagged, StopIsHeeded, OneHolder, WorkersFit,
         Fits, DraftsAreApproved, CountsAreDone, Done
<1>2. CASE Tick
  BY <1>2, TickInv
<1>3. ASSUME NEW i \in Index, OwnerResolves(i)
      PROVE  IInv'
  BY <1>3, OwnerResolvesInv
<1>4. ASSUME NEW w \in Workers, Send(w)
      PROVE  IInv'
  BY <1>4, MovesInv, SendRefusedCommitInv, PostInv, RecordSentInv, RecordFailedInv,
     SendCommitInv
     DEF Send
<1>5. ASSUME NEW w \in Workers, Process(w)
      PROVE  IInv'
  BY <1>5, MovesInv, ProcessStopsInv, ProcessDraftsInv DEF Process
<1>6. ASSUME NEW w \in Workers,
             StartRead(w) \/ StartCommit(w) \/ (\E e \in Events : EventRead(w, e))
                \/ EventCommit(w) \/ Abandon(w)
      PROVE  IInv'
  BY <1>6, MovesInv, StartCommitInv, EventCommitInv
<1>. QED
  BY <1>1, <1>2, <1>3, <1>4, <1>5, <1>6 DEF Next

LEMMA Invariant == Spec => []IInv
BY InitInv, NextInv, PTL DEF Spec

\* Every variable keeps its type, so that the count of a sequence never passes the
\* maximum, whatever the commits overwrite.
THEOREM TypeCorrect == Spec => []TypeOK
BY Invariant, PTL DEF IInv

\* No follow-up reaches a lead whose reply, opt-out or blocking was committed before its
\* send began: the flags only grow, and every send reads them.
THEOREM StopsAreHeeded == Spec => []StopIsHeeded
BY Invariant, PTL DEF IInv

\* Follow-ups are mailed in order and approved, and only what was sent is counted.
THEOREM MailsInOrder == Spec => []MailedInOrder
<1>1. IInv => MailedInOrder
  <2>. SUFFICES ASSUME IInv
                PROVE  MailedInOrder
    OBVIOUS
  <2>1. ASSUME NEW i \in mailed
        PROVE  approval[i] = "approved" /\ \A j \in 1..(i - 1) : j \in mailed
    <3>1. i \in Index /\ approval[i] = "approved" /\ item[i] # "absent"
      BY <2>1 DEF IInv, TypeOK, DraftsAreApproved
    <3>. QED
      BY <3>1 DEF IInv, CountsAreDone, Done
  <2>. QED
    BY <2>1 DEF MailedInOrder, IInv, CountsAreDone, Done
<1>. QED
  BY <1>1, Invariant, PTL

=============================================================================
