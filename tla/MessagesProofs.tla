---------------------------- MODULE MessagesProofs ----------------------------
(***************************************************************************)
(* Proofs about sending outreach and notifying the owner, for any rows,    *)
(* sessions and limits.                                                    *)
(*                                                                         *)
(* Once only: the unique key lets one session at a time be past the insert *)
(* for an outreach, and only while no row of it is committed; so a second  *)
(* transaction that posts needs the first to have been lost, and whatever  *)
(* is posted again goes under the key the provider has accepted.           *)
(*                                                                         *)
(* The caps: the messages recorded and the sessions that have read the     *)
(* caps are together at most limit + sessions - 1.  A session that reads   *)
(* the caps establishes it, and one that records moves from one side to    *)
(* the other.  A session may send many notices before it commits: there a  *)
(* session's own are at most a cap, and all together a cap each.           *)
(***************************************************************************)
EXTENDS OutboundEmail, Notifications, FiniteSetTheorems, TLAPS

Flying == Posted \cup {"reserved"}

\* Sessions that have passed the approval gate.
Granted == Flying \cup {"gated", "insert"}

OneInFlight ==
    \A v, w \in Workers :
        worker[v].pc \in Flying /\ worker[w].pc \in Flying /\ worker[v].of = worker[w].of
            => v = w

FlyingHasNoRow == \A w \in Workers : worker[w].pc \in Flying => ledger[worker[w].of] = "absent"

\* What was posted is being recorded, is recorded, or was lost.
PostsAccounted ==
    \A o \in Outreaches : sends[o] > 0 =>
        \/ o \in lost
        \/ ledger[o] # "absent"
        \/ \E w \in Workers : worker[w].pc \in Posted /\ worker[w].of = o

\* The provider mailed once what it accepted, and nothing else.
MailIsAccepted == \A o \in Outreaches : mailed[o] = IF <<o>> \in accepted THEN 1 ELSE 0

AcceptedIsMailed == \A w \in Workers : worker[w].pc = "accepted" => mailed[worker[w].of] > 0

GrantsAreApproved ==
    /\ \A o \in Outreaches : \A n \in DOMAIN approval[o] :
            approval[o][n] = "approved" => o \in approved
    /\ \A w \in Workers :
            worker[w].pc = "admitted" => worker[w].approval \in DOMAIN approval[worker[w].of]
    /\ \A w \in Workers : worker[w].pc \in Granted => worker[w].of \in approved

\* A session posts again only with a try left.
PostingHasTries == \A w \in Workers : worker[w].pc = "posting" => Retry(worker[w].tries)

IInv ==
    /\ TypeOK
    /\ PostingHasTries
    /\ OneInFlight
    /\ FlyingHasNoRow
    /\ PostsAccounted
    /\ PostedAgainOnlyIfLost
    /\ MailIsAccepted
    /\ AcceptedIsMailed
    /\ GrantsAreApproved
    /\ SentWasMailedWasApproved

Pcs == {"idle", "requesting", "admitted"} \cup Granted

----------------------------------------------------------------------------
(* Steps.                                                                  *)

LEMMA MailTypes ==
    ASSUME TypeOK, NEW w \in Workers
    PROVE  /\ worker[w].pc \in Pcs
           /\ worker[w].pc # "idle" => worker[w].of \in Outreaches
           /\ worker[w].pc \in Flying \cup {"insert"} => worker[w].followup \in BOOLEAN
           /\ worker[w].pc \in Posted => worker[w].tries \in 1..MaxPosts
<1>1. worker[w] \in Work
  BY DEF TypeOK
<1>. QED
  BY <1>1 DEF Work, Idle, Pcs, Granted, Flying, Posted

LEMMA InitInv == Init => IInv
<1>1. <<>> \in Answers
  BY DEF Answers
<1>. QED
  BY <1>1, LimitsAssumption
   DEF Init, IInv, TypeOK, Work, Idle, OneInFlight, FlyingHasNoRow, PostsAccounted,
       PostedAgainOnlyIfLost, MailIsAccepted, AcceptedIsMailed, GrantsAreApproved,
       PostingHasTries, SentWasMailedWasApproved, Flying, Granted, Posted

\* A session moves on, or ends, without posting or recording.
LEMMA MoveInv ==
    ASSUME IInv, NEW w \in Workers, NEW work \in Work, Goto(w, work),
           UNCHANGED <<outbound, ledger, followup, accepted, mailed, sends, approved>>,
           outreach' \in [Outreaches -> {"draft", "pending_approval", "sent", "failed"}],
           UNCHANGED approval,
           work.pc = "admitted" => work.approval \in DOMAIN approval[work.of],
           lost \subseteq lost', lost' \subseteq Outreaches,
           worker[w].pc \in Posted => worker[w].of \in lost',
           work.pc \notin Posted,
           work.pc \in Granted => work.of \in approved,
           work.pc = "reserved" =>
                /\ ledger[work.of] = "absent"
                /\ \A v \in Workers : ~(worker[v].pc \in Flying /\ worker[v].of = work.of)
    PROVE  IInv'
<1>. USE DEF IInv
<1>1. worker' \in [Workers -> Work] /\ worker'[w] = work
  BY DEF TypeOK, Goto
<1>2. \A v \in Workers : v # w => worker'[v] = worker[v]
  BY DEF TypeOK, Goto
<1>3. TypeOK'
  BY <1>1 DEF TypeOK
<1>4. OneInFlight'
  BY <1>1, <1>2 DEF OneInFlight, Flying
<1>5. FlyingHasNoRow'
  BY <1>1, <1>2 DEF FlyingHasNoRow, Flying
<1>6. PostsAccounted'
  BY <1>1, <1>2 DEF PostsAccounted
<1>7. AcceptedIsMailed'
  BY <1>1, <1>2 DEF AcceptedIsMailed, Posted
<1>8. GrantsAreApproved'
  BY <1>1, <1>2 DEF GrantsAreApproved
<1>9. PostingHasTries'
  BY <1>1, <1>2 DEF PostingHasTries, Posted
<1>. QED
  BY <1>3, <1>4, <1>5, <1>6, <1>7, <1>8, <1>9
     DEF PostedAgainOnlyIfLost, MailIsAccepted, SentWasMailedWasApproved

----------------------------------------------------------------------------
LEMMA PostInv ==
    ASSUME IInv, NEW w \in Workers, Post(w)
    PROVE  IInv'
<1>. DEFINE o == worker[w].of
            tries == IF worker[w].pc = "reserved" THEN 1 ELSE worker[w].tries + 1
<1>. USE DEF IInv
<1>1. PICK accepts \in BOOLEAN, answer \in Posted :
        /\ answer = "accepted" => accepts
        /\ answer = "posting" => Retry(tries)
        /\ accepted' = IF accepts THEN accepted \cup {<<o>>} ELSE accepted
        /\ mailed' = IF accepts /\ <<o>> \notin accepted
                     THEN [mailed EXCEPT ![o] = TwoAtMost(@)]
                     ELSE mailed
        /\ Goto(w, [pc |-> answer, of |-> o, tries |-> tries,
                    followup |-> worker[w].followup])
  BY DEF Post, Key
<1>2. /\ worker[w].pc \in {"reserved", "posting"}
      /\ sends' = IF tries = 1 THEN [sends EXCEPT ![o] = TwoAtMost(@)] ELSE sends
      /\ UNCHANGED <<outbound, outreach, approval, ledger, followup, lost, approved>>
  BY DEF Post, rows
<1>3. o \in Outreaches /\ worker[w].followup \in BOOLEAN
  BY <1>2, MailTypes DEF Flying, Posted
<1>4. ledger[o] = "absent" /\ o \in approved
  BY <1>2 DEF FlyingHasNoRow, GrantsAreApproved, Granted, Flying, Posted
<1>. DEFINE work == [pc |-> answer, of |-> o, tries |-> tries, followup |-> worker[w].followup]
<1>5. /\ worker' = [worker EXCEPT ![w] = work]
      /\ worker'[w] = work
      /\ \A v \in Workers : v # w => worker'[v] = worker[v]
  BY <1>1 DEF Goto, TypeOK
<1>6. TypeOK'
  <2>1. tries \in 1..MaxPosts
    <3>1. CASE worker[w].pc = "reserved"
      BY <3>1, LimitsAssumption
    <3>2. CASE worker[w].pc = "posting"
      <4>1. worker[w].tries \in 1..MaxPosts
        BY <3>2, MailTypes DEF Posted
      <4>2. worker[w].tries < MaxPosts
        BY <3>2 DEF PostingHasTries, Retry
      <4>. QED
        BY <4>1, <4>2, <3>2, LimitsAssumption
    <3>. QED
      BY <1>2, <3>1, <3>2
  <2>2. work \in Work
    BY <1>3, <2>1 DEF Work
  <2>3. worker' \in [Workers -> Work]
    BY <1>5, <2>2 DEF TypeOK
  <2>4. mailed' \in [Outreaches -> 0..2] /\ sends' \in [Outreaches -> 0..2]
    BY <1>1, <1>2, <1>3 DEF TypeOK, TwoAtMost
  <2>. QED
    BY <1>2, <2>3, <2>4 DEF TypeOK
<1>7. OneInFlight'
  BY <1>2, <1>5 DEF OneInFlight, Flying, Posted
<1>8. FlyingHasNoRow'
  BY <1>2, <1>4, <1>5 DEF FlyingHasNoRow
<1>9. PostsAccounted'
  <2>1. worker'[w].pc \in Posted /\ worker'[w].of = o
    BY <1>5
  <2>2. ASSUME NEW p \in Outreaches, p # o, sends'[p] > 0
        PROVE  \/ p \in lost'
               \/ ledger'[p] # "absent"
               \/ \E v \in Workers : worker'[v].pc \in Posted /\ worker'[v].of = p
    <3>1. sends[p] > 0
      BY <1>2, <1>3, <2>2 DEF TypeOK
    <3>. QED
      BY <1>2, <1>5, <2>2, <3>1 DEF PostsAccounted
  <2>. QED
    BY <2>1, <2>2 DEF PostsAccounted
<1>10. PostedAgainOnlyIfLost'
  <2>1. ASSUME NEW p \in Outreaches, sends'[p] > 1 PROVE p \in lost
    <3>1. CASE p = o /\ tries = 1
      <4>1. CASE sends[o] = 0
        BY <1>2, <1>3, <2>1, <3>1, <4>1 DEF TypeOK, TwoAtMost
      <4>2. CASE sends[o] > 0 /\ worker[w].pc = "reserved"
        <5>1. ~\E v \in Workers : worker[v].pc \in Posted /\ worker[v].of = o
          BY <4>2 DEF OneInFlight, Flying, Posted
        <5>. QED
          BY <1>3, <1>4, <3>1, <4>2, <5>1 DEF PostsAccounted
      <4>3. CASE worker[w].pc = "posting"
        <5>1. worker[w].tries \in 1..MaxPosts
          BY <4>3, MailTypes DEF Posted
        <5>. QED
          BY <3>1, <4>3, <5>1, LimitsAssumption
      <4>. QED
        BY <1>2, <1>3, <4>1, <4>2, <4>3 DEF TypeOK
    <3>2. CASE ~(p = o /\ tries = 1)
      <4>1. sends'[p] = sends[p]
        BY <1>2, <1>3, <3>2 DEF TypeOK
      <4>. QED
        BY <2>1, <4>1 DEF PostedAgainOnlyIfLost
    <3>. QED
      BY <3>1, <3>2
  <2>. QED
    BY <1>2, <2>1 DEF PostedAgainOnlyIfLost
<1>11. MailIsAccepted'
  <2>1. ASSUME NEW p \in Outreaches
        PROVE  mailed'[p] = IF <<p>> \in accepted' THEN 1 ELSE 0
    <3>1. mailed[p] = IF <<p>> \in accepted THEN 1 ELSE 0
      BY DEF MailIsAccepted
    <3>2. CASE accepts /\ <<o>> \notin accepted
      <4>1. accepted' = accepted \cup {<<o>>} /\ mailed' = [mailed EXCEPT ![o] = TwoAtMost(@)]
        BY <1>1, <3>2
      <4>2. CASE p = o
        BY <1>3, <3>1, <3>2, <4>1, <4>2 DEF TypeOK, TwoAtMost
      <4>3. CASE p # o
        BY <1>3, <3>1, <4>1, <4>3 DEF TypeOK
      <4>. QED
        BY <4>2, <4>3
    <3>3. CASE ~(accepts /\ <<o>> \notin accepted)
      BY <1>1, <3>1, <3>3
    <3>. QED
      BY <3>2, <3>3
  <2>. QED
    BY <2>1 DEF MailIsAccepted
<1>12. \A p \in Outreaches : mailed[p] > 0 => mailed'[p] > 0
  BY <1>1, <1>3 DEF TypeOK, TwoAtMost
<1>13. AcceptedIsMailed'
  <2>1. accepts => mailed'[o] > 0
    BY <1>1, <1>3, <1>11 DEF MailIsAccepted
  <2>2. \A v \in Workers : worker[v].pc = "accepted" => worker[v].of \in Outreaches
    BY MailTypes
  <2>. QED
    BY <1>1, <1>5, <1>12, <2>1, <2>2 DEF AcceptedIsMailed
<1>14. GrantsAreApproved'
  BY <1>2, <1>4, <1>5 DEF GrantsAreApproved, Posted
<1>15. SentWasMailedWasApproved'
  <2>1. \A p \in Outreaches : mailed'[p] > 0 => mailed[p] > 0 \/ p = o
    BY <1>1, <1>3 DEF TypeOK
  <2>. QED
    BY <1>2, <1>4, <1>12, <2>1 DEF SentWasMailedWasApproved
<1>16. PostingHasTries'
  BY <1>1, <1>5 DEF PostingHasTries
<1>. QED
  BY <1>6, <1>7, <1>8, <1>9, <1>10, <1>11, <1>13, <1>14, <1>15, <1>16

\* What a session in flight posted is recorded, as sent or as failed.
LEMMA RecordInv ==
    ASSUME IInv, NEW w \in Workers, NEW status \in {"sent", "failed"},
           worker[w].pc \in {"accepted", "refused"},
           status = "sent" => worker[w].pc = "accepted",
           ledger' = [ledger EXCEPT ![worker[w].of] = status],
           outreach' = [outreach EXCEPT ![worker[w].of] = status],
           followup' = IF worker[w].followup THEN followup \cup {worker[w].of} ELSE followup,
           Goto(w, Idle),
           UNCHANGED <<outbound, approval, accepted, history>>
    PROVE  IInv'
<1>. USE DEF IInv
<1>1. /\ worker' \in [Workers -> Work]
      /\ worker'[w] = Idle
      /\ \A v \in Workers : v # w => worker'[v] = worker[v]
  BY DEF TypeOK, Goto, Work
<1>2. worker[w].pc \in Posted /\ worker[w].of \in Outreaches
  BY MailTypes DEF Posted
<1>3. TypeOK'
  BY <1>1, <1>2 DEF TypeOK, history
<1>4. OneInFlight' /\ PostingHasTries' /\ AcceptedIsMailed' /\ GrantsAreApproved'
  BY <1>1 DEF Idle, OneInFlight, PostingHasTries, AcceptedIsMailed, GrantsAreApproved,
              Granted, Flying, Posted, history
<1>5. FlyingHasNoRow'
  <2>1. ASSUME NEW v \in Workers, worker'[v].pc \in Flying
        PROVE  v # w /\ worker[v].of # worker[w].of /\ ledger[worker[v].of] = "absent"
    BY <1>1, <1>2, <2>1 DEF Idle, Flying, Posted, OneInFlight, FlyingHasNoRow
  <2>2. \A v \in Workers : worker[v].pc \in Flying => worker[v].of \in Outreaches
    BY MailTypes DEF Flying, Posted
  <2>. QED
    BY <1>1, <2>1, <2>2 DEF FlyingHasNoRow, TypeOK
<1>6. PostsAccounted'
  <2>1. ASSUME NEW p \in Outreaches, sends'[p] > 0
        PROVE  \/ p \in lost'
               \/ ledger'[p] # "absent"
               \/ \E v \in Workers : worker'[v].pc \in Posted /\ worker'[v].of = p
    <3>1. CASE p = worker[w].of
      BY <1>2, <3>1 DEF TypeOK
    <3>2. CASE p # worker[w].of
      BY <1>1, <1>2, <2>1, <3>2 DEF PostsAccounted, TypeOK, history
    <3>. QED
      BY <3>1, <3>2
  <2>. QED
    BY <2>1 DEF PostsAccounted
<1>7. SentWasMailedWasApproved'
  BY <1>2 DEF SentWasMailedWasApproved, AcceptedIsMailed, TypeOK, history
<1>. QED
  BY <1>3, <1>4, <1>5, <1>6, <1>7 DEF PostedAgainOnlyIfLost, MailIsAccepted, history

LEMMA NextInv == IInv /\ [Next]_vars => IInv'
<1>. SUFFICES ASSUME IInv, [Next]_vars PROVE IInv'
  OBVIOUS
<1>0. TypeOK
  BY DEF IInv
<1>. USE DEF rows, history
<1>1. CASE OwnerSwitches
  BY <1>1 DEF OwnerSwitches, IInv, TypeOK, OneInFlight, FlyingHasNoRow, PostsAccounted,
              PostedAgainOnlyIfLost, MailIsAccepted, AcceptedIsMailed, GrantsAreApproved,
              SentWasMailedWasApproved, PostingHasTries
<1>2. ASSUME NEW o \in Outreaches, OwnerResolves(o) PROVE IInv'
  <2>1. PICK n \in DOMAIN approval[o], outcome \in {"approved", "refused"} :
           /\ approval' = [approval EXCEPT ![o][n] = outcome]
           /\ approved' = IF outcome = "approved" THEN approved \cup {o} ELSE approved
    BY <1>2 DEF OwnerResolves
  <2>3. /\ approval'[o] = [approval[o] EXCEPT ![n] = outcome]
        /\ \A p \in Outreaches : p # o => approval'[p] = approval[p]
    BY <1>0, <2>1 DEF TypeOK
  <2>4. /\ approval'[o] \in Seq({"pending", "approved", "refused"})
        /\ DOMAIN approval'[o] = DOMAIN approval[o]
    BY <1>0, <2>3 DEF TypeOK, Answers
  <2>5. approval' \in [Outreaches -> Answers]
    <3>1. approval' = [p \in Outreaches |-> approval'[p]]
      BY <1>0, <2>1 DEF TypeOK
    <3>2. ASSUME NEW p \in Outreaches PROVE approval'[p] \in Answers
      BY <1>0, <2>3, <2>4 DEF TypeOK, Answers
    <3>. QED
      BY <3>1, <3>2
  <2>6. approved \subseteq approved' /\ approved' \subseteq Outreaches
    BY <1>0, <2>1 DEF TypeOK
  <2>7. GrantsAreApproved'
    <3>1. ASSUME NEW p \in Outreaches, NEW k \in DOMAIN approval'[p],
                 approval'[p][k] = "approved"
          PROVE  p \in approved'
      <4>1. CASE p = o /\ k = n
        BY <2>1, <2>3, <3>1, <4>1
      <4>2. CASE ~(p = o /\ k = n)
        <5>1. k \in DOMAIN approval[p] /\ approval[p][k] = "approved"
          BY <2>3, <2>4, <3>1, <4>2
        <5>. QED
          BY <2>6, <5>1 DEF IInv, GrantsAreApproved
      <4>. QED
        BY <4>1, <4>2
    <3>2. \A p \in Outreaches : DOMAIN approval'[p] = DOMAIN approval[p]
      BY <2>3, <2>4
    <3>3. \A w \in Workers : worker[w].pc = "admitted" => worker[w].of \in Outreaches
      BY <1>0, MailTypes
    <3>4. UNCHANGED worker
      BY <1>2 DEF OwnerResolves
    <3>. QED
      BY <2>6, <3>1, <3>2, <3>3, <3>4 DEF IInv, GrantsAreApproved
  <2>2. UNCHANGED <<outbound, outreach, ledger, followup, worker, accepted, mailed, sends, lost>>
    BY <1>2 DEF OwnerResolves
  <2>. QED
    BY <2>2, <2>5, <2>6, <2>7 DEF IInv, TypeOK, OneInFlight, FlyingHasNoRow, PostsAccounted,
                      PostedAgainOnlyIfLost, MailIsAccepted, AcceptedIsMailed,
                      SentWasMailedWasApproved, PostingHasTries
<1>3. ASSUME NEW w \in Workers, NEW o \in Outreaches, RequestApproval(w, o) PROVE IInv'
  <2>1. [pc |-> "requesting", of |-> o] \in Work
    BY DEF Work
  <2>. QED
    BY <1>0, <1>3, <2>1, MoveInv DEF RequestApproval, Idle, TypeOK, Granted, Flying, Posted
<1>4. ASSUME NEW w \in Workers, NEW o \in Outreaches, Admit(w, o) PROVE IInv'
  <2>1. approval[o] \in Seq({"pending", "approved", "refused"}) /\ approval[o] # <<>>
    BY <1>0, <1>4 DEF Admit, TypeOK, Answers
  <2>2. Len(approval[o]) \in Nat /\ Len(approval[o]) \in DOMAIN approval[o]
    BY <2>1
  <2>3. [pc |-> "admitted", of |-> o, approval |-> Len(approval[o])] \in Work
    BY <2>2 DEF Work
  <2>. QED
    BY <1>0, <1>4, <2>2, <2>3, MoveInv DEF Admit, Idle, TypeOK, Granted, Flying, Posted
<1>5. ASSUME NEW w \in Workers, Gate(w) PROVE IInv'
  <2>1. worker[w].of \in Outreaches /\ worker[w].pc = "admitted"
    BY <1>0, <1>5, MailTypes DEF Gate
  <2>2. worker[w].of \in approved
    BY <1>5, <2>1 DEF Gate, IInv, GrantsAreApproved
  <2>3. [pc |-> "gated", of |-> worker[w].of] \in Work
    BY <2>1 DEF Work
  <2>. QED
    BY <1>0, <1>5, <2>1, <2>2, <2>3, MoveInv DEF Gate, TypeOK, Posted, Granted
<1>6. ASSUME NEW w \in Workers, NEW o \in Outreaches, LookUp(w, o) PROVE IInv'
  <2>1. [pc |-> "insert", of |-> o, followup |-> Prior(o) > 0] \in Work
    BY DEF Work
  <2>2. o \in approved
    BY <1>6 DEF LookUp, IInv, GrantsAreApproved, Granted
  <2>. QED
    BY <1>0, <1>6, <2>1, <2>2, MoveInv DEF LookUp, TypeOK, Posted
<1>7. ASSUME NEW w \in Workers, RequestCommit(w) PROVE IInv'
  <2>. DEFINE o == worker[w].of
  <2>1. /\ o \in Outreaches
        /\ outreach' = [outreach EXCEPT ![o] = "pending_approval"]
        /\ approval' = [approval EXCEPT ![o] = Append(@, "pending")]
        /\ worker' = [worker EXCEPT ![w] = Idle]
        /\ UNCHANGED <<outbound, ledger, followup, accepted, history>>
    BY <1>0, <1>7, MailTypes DEF RequestCommit, Goto
  <2>2. /\ approval'[o] = Append(approval[o], "pending")
        /\ \A p \in Outreaches : p # o => approval'[p] = approval[p]
        /\ approval[o] \in Answers
        /\ worker'[w] = Idle
        /\ \A v \in Workers : v # w => worker'[v] = worker[v]
    BY <1>0, <2>1 DEF TypeOK, Answers
  <2>3. /\ approval'[o] \in Answers
        /\ DOMAIN approval[o] = 1..Len(approval[o])
        /\ DOMAIN approval'[o] = 1..(Len(approval[o]) + 1)
        /\ Len(approval[o]) \in Nat
        /\ \A n \in 1..Len(approval[o]) : approval'[o][n] = approval[o][n]
        /\ approval'[o][Len(approval[o]) + 1] = "pending"
    BY <2>2 DEF Answers
  <2>4. TypeOK'
    <3>1. Idle \in Work
      BY DEF Work
    <3>. QED
      BY <1>0, <2>1, <2>3, <3>1 DEF TypeOK
  <2>5. GrantsAreApproved'
    <3>1. ASSUME NEW p \in Outreaches, NEW n \in DOMAIN approval'[p],
                 approval'[p][n] = "approved"
          PROVE  n \in DOMAIN approval[p] /\ approval[p][n] = "approved"
      <4>1. CASE p = o
        <5>1. n \in 1..(Len(approval[o]) + 1) /\ approval'[o][n] = "approved"
          BY <2>3, <3>1, <4>1
        <5>2. n # Len(approval[o]) + 1
          BY <2>3, <5>1
        <5>3. n \in 1..Len(approval[o])
          BY <2>3, <5>1, <5>2
        <5>. QED
          BY <2>3, <4>1, <5>1, <5>3
      <4>2. CASE p # o
        BY <2>2, <3>1, <4>2
      <4>. QED
        BY <4>1, <4>2
    <3>2. \A p \in Outreaches : DOMAIN approval[p] \subseteq DOMAIN approval'[p]
      BY <2>2, <2>3
    <3>3. \A v \in Workers : worker[v].pc = "admitted" => worker[v].of \in Outreaches
      BY <1>0, MailTypes
    <3>. QED
      BY <2>1, <2>2, <3>1, <3>2, <3>3
         DEF IInv, GrantsAreApproved, Idle, Granted, Flying, Posted
  <2>. QED
    BY <1>7, <2>1, <2>2, <2>4, <2>5
       DEF RequestCommit, IInv, OneInFlight, FlyingHasNoRow, PostsAccounted, Idle, Flying, Posted,
           PostedAgainOnlyIfLost, MailIsAccepted, AcceptedIsMailed, SentWasMailedWasApproved,
           PostingHasTries
<1>8. ASSUME NEW w \in Workers, Reserve(w) PROVE IInv'
  <2>1. worker[w] \in [pc : {"insert"}, of : Outreaches, followup : BOOLEAN]
    BY <1>0, <1>8 DEF Reserve, TypeOK, Work, Idle, Posted
  <2>2. [worker[w] EXCEPT !.pc = "reserved"] \in Work
    BY <2>1 DEF Work
  <2>3. worker[w].of \in approved
    BY <1>8 DEF Reserve, IInv, GrantsAreApproved, Granted
  <2>4. [worker[w] EXCEPT !.pc = "reserved"].pc = "reserved"
        /\ [worker[w] EXCEPT !.pc = "reserved"].of = worker[w].of
    BY <2>1
  <2>5. \A v \in Workers : ~(worker[v].pc \in Flying /\ worker[v].of = worker[w].of)
    BY <1>8 DEF Reserve, InFlight, Flying
  <2>. QED
    BY <1>0, <1>8, <2>2, <2>3, <2>4, <2>5, MoveInv DEF Reserve, TypeOK, Posted
<1>9. ASSUME NEW w \in Workers, Post(w) PROVE IInv'
  BY <1>9, PostInv
<1>10. ASSUME NEW w \in Workers, RecordSent(w) PROVE IInv'
  BY <1>10, RecordInv DEF RecordSent
<1>11. ASSUME NEW w \in Workers, RecordFailed(w) PROVE IInv'
  BY <1>11, RecordInv DEF RecordFailed
<1>12. ASSUME NEW w \in Workers, Abandon(w) PROVE IInv'
  <2>1. Idle \in Work /\ Idle.pc \notin Granted
    BY DEF Work, Idle, Granted, Flying, Posted
  <2>2. lost \subseteq lost' /\ lost' \subseteq Outreaches
        /\ (worker[w].pc \in Posted => worker[w].of \in lost')
    BY <1>0, <1>12, MailTypes DEF Abandon, TypeOK, Posted
  <2>. QED
    BY <1>0, <1>12, <2>1, <2>2, MoveInv DEF Abandon, TypeOK, Idle, Granted, Flying, Posted
<1>13. CASE UNCHANGED vars
  BY <1>13 DEF vars, IInv, TypeOK, OneInFlight, FlyingHasNoRow, PostsAccounted,
               PostedAgainOnlyIfLost, MailIsAccepted, AcceptedIsMailed, GrantsAreApproved,
               SentWasMailedWasApproved, PostingHasTries
<1>. QED
  BY <1>1, <1>2, <1>3, <1>4, <1>5, <1>6, <1>7, <1>8, <1>9, <1>10, <1>11, <1>12, <1>13 DEF Next

LEMMA Inductive == Spec => []IInv
BY InitInv, NextInv, PTL DEF Spec

\* Sending keeps every variable in its type, whatever sessions race or stop midway; in
\* particular a post is tried at most MaxPosts times.
THEOREM TypeCorrect == Spec => []TypeOK
<1>1. IInv => TypeOK
  BY DEF IInv
<1>. QED
  BY <1>1, Inductive, PTL

\* Only the loss of a transaction that posted makes a second one post the outreach.
THEOREM PostsAgainOnlyAfterLoss == Spec => []PostedAgainOnlyIfLost
<1>1. IInv => PostedAgainOnlyIfLost
  BY DEF IInv
<1>. QED
  BY <1>1, Inductive, PTL

\* No recipient gets an outreach twice.
THEOREM MailsOnce == Spec => []MailedOnce
<1>1. IInv => MailedOnce
  <2>1. ASSUME IInv, NEW o \in Outreaches PROVE mailed[o] <= 1
    <3>1. mailed[o] = 0 \/ mailed[o] = 1
      BY <2>1 DEF IInv, MailIsAccepted
    <3>. QED
      BY <3>1
  <2>. QED
    BY <2>1 DEF MailedOnce
<1>. QED
  BY <1>1, Inductive, PTL

\* The ledger calls sent only what was mailed, and nothing is mailed unapproved.
THEOREM SentIsMailedAndApproved == Spec => []SentWasMailedWasApproved
<1>1. IInv => SentWasMailedWasApproved
  BY DEF IInv
<1>. QED
  BY <1>1, Inductive, PTL

----------------------------------------------------------------------------
(* The caps.                                                               *)

\* Sessions that have read the caps.
Capped == {w \in Workers : worker[w].pc \in Flying \cup {"insert"}}

CappedFirst == {w \in Capped : ~worker[w].followup}

CappedFor(l) == {w \in Capped : LeadOf[worker[w].of] = l}

\* What is recorded and the sessions that may record are within n.
Within(recorded, sessions, n) ==
    /\ IsFiniteSet(recorded)
    /\ Cardinality(recorded) + Cardinality(sessions) <= n

CapInv ==
    /\ Within(Sent, Capped, DailyLimit + Others)
    /\ Within(Sent \ followup, CappedFirst, InitialLimit + Others)
    /\ \A l \in Leads : Within(SentTo(l), CappedFor(l), 1 + MaxFollowups + Others)

LEMMA OthersType == Others \in Nat /\ Cardinality(Workers) = 1 + Others
<1>1. Cardinality(Workers) \in Nat /\ Cardinality(Workers) # 0
  BY WorkersAssumption, FS_CardinalityType, FS_EmptySet
<1>. QED
  BY <1>1 DEF Others

\* Fewer records and fewer sessions are within the same bound.
LEMMA WithinLess ==
    ASSUME NEW People, IsFiniteSet(People),
           NEW S, NEW P \in SUBSET People, NEW n \in Nat, Within(S, P, n),
           NEW S2 \in SUBSET S, NEW P2 \in SUBSET P
    PROVE  Within(S2, P2, n)
<1>1. IsFiniteSet(S) /\ IsFiniteSet(P)
  BY FS_Subset DEF Within
<1>2. /\ IsFiniteSet(S2) /\ Cardinality(S2) <= Cardinality(S)
      /\ IsFiniteSet(P2) /\ Cardinality(P2) <= Cardinality(P)
  BY <1>1, FS_Subset
<1>3. /\ Cardinality(S) \in Nat /\ Cardinality(S2) \in Nat
      /\ Cardinality(P) \in Nat /\ Cardinality(P2) \in Nat
  BY <1>1, <1>2, FS_CardinalityType
<1>. QED
  BY <1>2, <1>3 DEF Within

OneMore(S, S2) == \E x : S2 \subseteq S \cup {x}

OneLess(P, P2) == \E w \in P : P2 \subseteq P \ {w}

\* A session that records one message leaves the sum.
LEMMA WithinRecorded ==
    ASSUME NEW People, IsFiniteSet(People),
           NEW S, NEW P \in SUBSET People, NEW n \in Nat, Within(S, P, n),
           NEW S2, OneMore(S, S2), NEW P2, OneLess(P, P2)
    PROVE  Within(S2, P2, n)
<1>. PICK x : S2 \subseteq S \cup {x}
  BY DEF OneMore
<1>. PICK w \in P : P2 \subseteq P \ {w}
  BY DEF OneLess
<1>1. IsFiniteSet(S) /\ IsFiniteSet(P)
  BY FS_Subset DEF Within
<1>2. /\ Cardinality(S) \in Nat /\ Cardinality(P) \in Nat
      /\ IsFiniteSet(S \cup {x}) /\ Cardinality(S \cup {x}) <= Cardinality(S) + 1
      /\ Cardinality(S \cup {x}) \in Nat
      /\ IsFiniteSet(P \ {w}) /\ Cardinality(P \ {w}) = Cardinality(P) - 1
  <2>1. Cardinality(S) \in Nat /\ Cardinality(P) \in Nat
    BY <1>1, FS_CardinalityType
  <2>2. IsFiniteSet(S \cup {x}) /\ Cardinality(S \cup {x}) <= Cardinality(S) + 1
    <3>1. /\ IsFiniteSet(S \cup {x})
          /\ Cardinality(S \cup {x}) = IF x \in S THEN Cardinality(S) ELSE Cardinality(S) + 1
      BY <1>1, FS_AddElement
    <3>. QED
      BY <2>1, <3>1
  <2>3. Cardinality(S \cup {x}) \in Nat
    BY <2>2, FS_CardinalityType
  <2>4. IsFiniteSet(P \ {w}) /\ Cardinality(P \ {w}) = Cardinality(P) - 1
    BY <1>1, FS_RemoveElement
  <2>. QED
    BY <2>1, <2>2, <2>3, <2>4
<1>3. /\ IsFiniteSet(S2) /\ Cardinality(S2) <= Cardinality(S \cup {x})
      /\ IsFiniteSet(P2) /\ Cardinality(P2) <= Cardinality(P \ {w})
  BY <1>2, FS_Subset
<1>4. Cardinality(S2) \in Nat /\ Cardinality(P2) \in Nat
  BY <1>3, FS_CardinalityType
<1>. QED
  BY <1>2, <1>3, <1>4 DEF Within

\* A session that reads fewer than n records lets every session record one.
LEMMA WithinAdmitted ==
    ASSUME NEW People, IsFiniteSet(People), NEW m \in Nat, Cardinality(People) = 1 + m,
           NEW S, IsFiniteSet(S), NEW n \in Nat, Cardinality(S) < n, NEW P \in SUBSET People
    PROVE  Within(S, P, n + m)
<1>1. Cardinality(P) \in Nat /\ Cardinality(P) <= 1 + m
  BY FS_Subset, FS_CardinalityType
<1>2. Cardinality(S) \in Nat
  BY FS_CardinalityType
<1>. QED
  BY <1>1, <1>2 DEF Within

LEMMA CapsInit == Init => CapInv
<1>. SUFFICES ASSUME Init PROVE CapInv
  OBVIOUS
<1>1. Capped = {} /\ Sent = {}
  BY DEF Init, Capped, Sent, Idle, Flying, Posted
<1>2. ASSUME NEW n \in Nat PROVE Within({}, {}, n)
  BY FS_EmptySet DEF Within
<1>3. /\ Sent \ followup = {} /\ CappedFirst = {}
      /\ \A l \in Leads : SentTo(l) = {} /\ CappedFor(l) = {}
  BY <1>1 DEF SentTo, CappedFirst, CappedFor
<1>4. /\ DailyLimit + Others \in Nat
      /\ InitialLimit + Others \in Nat
      /\ 1 + MaxFollowups + Others \in Nat
  BY OthersType, LimitsAssumption
<1>. QED
  BY <1>1, <1>2, <1>3, <1>4 DEF CapInv

\* No message is recorded and no session reads the caps.
LEMMA CapsLess ==
    ASSUME CapInv, Sent' \subseteq Sent, followup \subseteq followup',
           Capped' \subseteq Capped,
           \A w \in Capped' : /\ worker'[w].of = worker[w].of
                              /\ worker'[w].followup = worker[w].followup
    PROVE  CapInv'
<1>1. /\ DailyLimit + Others \in Nat
      /\ InitialLimit + Others \in Nat
      /\ 1 + MaxFollowups + Others \in Nat
  BY OthersType, LimitsAssumption
<1>2. /\ Capped \in SUBSET Workers
      /\ CappedFirst \in SUBSET Workers
      /\ \A l \in Leads : CappedFor(l) \in SUBSET Workers
  BY DEF Capped, CappedFirst, CappedFor
<1>3. Within(Sent', Capped', DailyLimit + Others)
  BY <1>1, <1>2, WorkersAssumption, WithinLess DEF CapInv
<1>4. Within((Sent \ followup)', CappedFirst', InitialLimit + Others)
  <2>1. (Sent \ followup)' \in SUBSET (Sent \ followup)
    OBVIOUS
  <2>2. CappedFirst' \in SUBSET CappedFirst
    BY DEF CappedFirst
  <2>. QED
    BY <1>1, <1>2, <2>1, <2>2, WorkersAssumption, WithinLess DEF CapInv
<1>5. ASSUME NEW l \in Leads PROVE Within(SentTo(l)', CappedFor(l)', 1 + MaxFollowups + Others)
  <2>1. SentTo(l)' \in SUBSET SentTo(l)
    BY DEF SentTo
  <2>2. CappedFor(l)' \in SUBSET CappedFor(l)
    BY DEF CappedFor
  <2>. QED
    BY <1>1, <1>2, <2>1, <2>2, WorkersAssumption, WithinLess DEF CapInv
<1>. QED
  BY <1>3, <1>4, <1>5 DEF CapInv, Others

LEMMA CapsLookUp ==
    ASSUME IInv, CapInv, NEW w \in Workers, NEW o \in Outreaches, LookUp(w, o)
    PROVE  CapInv'
<1>1. /\ worker' = [worker EXCEPT ![w] = [pc |-> "insert", of |-> o, followup |-> Prior(o) > 0]]
      /\ UNCHANGED <<ledger, followup>>
      /\ UnderCaps(o)
  BY DEF LookUp, Goto, rows
<1>2. /\ worker'[w] = [pc |-> "insert", of |-> o, followup |-> Prior(o) > 0]
      /\ \A v \in Workers : v # w => worker'[v] = worker[v]
  BY <1>1 DEF IInv, TypeOK
<1>3. LeadOf[o] \in Leads
  BY DEF Leads
<1>4. /\ IsFiniteSet(Sent) /\ IsFiniteSet(Sent \ followup)
      /\ \A l \in Leads : IsFiniteSet(SentTo(l))
  BY DEF CapInv, Within
<1>5. Prior(o) \in Nat
  BY <1>3, <1>4, FS_CardinalityType DEF Prior
<1>6. /\ Capped' \in SUBSET Workers
      /\ CappedFirst' \in SUBSET Workers
      /\ \A l \in Leads : CappedFor(l)' \in SUBSET Workers
      /\ CappedFirst \in SUBSET Workers
      /\ \A l \in Leads : CappedFor(l) \in SUBSET Workers
  BY DEF Capped, CappedFirst, CappedFor
<1>7. /\ Sent' = Sent
      /\ \A v \in Capped' : v # w => v \in Capped /\ worker'[v] = worker[v]
  BY <1>1, <1>2 DEF Capped, Sent
<1>8. Within(Sent', Capped', DailyLimit + Others)
  BY <1>1, <1>4, <1>6, <1>7, LimitsAssumption, WorkersAssumption, OthersType, WithinAdmitted
     DEF UnderCaps
<1>9. Within((Sent \ followup)', CappedFirst', InitialLimit + Others)
  <2>1. CASE Prior(o) = 0
    <3>1. Cardinality(Sent \ followup) \in Nat
      BY <1>4, FS_CardinalityType
    <3>2. Cardinality(Sent \ followup) < InitialLimit
      BY <1>1, <2>1, <3>1, LimitsAssumption DEF UnderCaps
    <3>3. (Sent \ followup)' = Sent \ followup
      BY <1>1, <1>7
    <3>. QED
      BY <1>4, <1>6, <3>2, <3>3, LimitsAssumption, WorkersAssumption, OthersType, WithinAdmitted
  <2>2. CASE Prior(o) > 0
    <3>1. CappedFirst' \in SUBSET CappedFirst
      <4>1. worker'[w].followup
        <5>1. (Prior(o) > 0) = TRUE
          BY <2>2
        <5>2. worker'[w] = [pc |-> "insert", of |-> o, followup |-> TRUE]
          BY <1>2, <5>1, Zenon
        <5>. QED
          BY <5>2
      <4>. QED
        BY <1>7, <4>1 DEF CappedFirst
    <3>2. InitialLimit + Others \in Nat
      BY OthersType, LimitsAssumption
    <3>3. (Sent \ followup)' \in SUBSET (Sent \ followup)
      BY <1>1, <1>7
    <3>. QED
      BY <1>6, <3>1, <3>2, <3>3, WorkersAssumption, WithinLess DEF CapInv
  <2>. QED
    BY <1>5, <2>1, <2>2
<1>10. ASSUME NEW l \in Leads PROVE Within(SentTo(l)', CappedFor(l)', 1 + MaxFollowups + Others)
  <2>0. SentTo(l)' = SentTo(l)
    BY <1>7 DEF SentTo
  <2>1. CASE l = LeadOf[o]
    <3>1. Cardinality(SentTo(l)) < 1 + MaxFollowups
      BY <1>1, <1>5, <2>1, LimitsAssumption DEF UnderCaps, Prior
    <3>2. 1 + MaxFollowups \in Nat
      BY LimitsAssumption
    <3>. QED
      BY <1>4, <1>6, <2>0, <3>1, <3>2, WorkersAssumption, OthersType, WithinAdmitted
  <2>2. CASE l # LeadOf[o]
    <3>1. CappedFor(l)' \in SUBSET CappedFor(l)
      BY <1>2, <1>7, <2>2 DEF CappedFor
    <3>2. 1 + MaxFollowups + Others \in Nat
      BY OthersType, LimitsAssumption
    <3>. QED
      BY <1>6, <2>0, <3>1, <3>2, WorkersAssumption, WithinLess DEF CapInv
  <2>. QED
    BY <2>1, <2>2
<1>. QED
  BY <1>8, <1>9, <1>10 DEF CapInv, Others

LEMMA CapsRecordSent ==
    ASSUME IInv, CapInv, NEW w \in Workers, RecordSent(w)
    PROVE  CapInv'
<1>. DEFINE o == worker[w].of
<1>1. /\ worker[w].pc = "accepted"
      /\ ledger' = [ledger EXCEPT ![o] = "sent"]
      /\ followup' = IF worker[w].followup THEN followup \cup {o} ELSE followup
      /\ worker' = [worker EXCEPT ![w] = Idle]
  BY DEF RecordSent, Goto
<1>2. worker'[w] = Idle /\ \A v \in Workers : v # w => worker'[v] = worker[v]
  BY <1>1 DEF IInv, TypeOK
<1>3. o \in Outreaches /\ worker[w].followup \in BOOLEAN
  BY <1>1, MailTypes DEF IInv, Flying, Posted
<1>4. w \in Capped
  BY <1>1 DEF Capped, Flying, Posted
<1>5. /\ Sent' \in SUBSET (Sent \cup {o})
      /\ Capped' \in SUBSET (Capped \ {w})
      /\ \A v \in Capped' : worker'[v] = worker[v]
  BY <1>1, <1>2, <1>3 DEF Sent, Capped, Idle, Flying, Posted, IInv, TypeOK
<1>6. /\ Capped \in SUBSET Workers
      /\ CappedFirst \in SUBSET Workers
      /\ \A l \in Leads : CappedFor(l) \in SUBSET Workers
  BY DEF Capped, CappedFirst, CappedFor
<1>7. /\ DailyLimit + Others \in Nat
      /\ InitialLimit + Others \in Nat
      /\ 1 + MaxFollowups + Others \in Nat
  BY OthersType, LimitsAssumption
<1>8. Within(Sent', Capped', DailyLimit + Others)
  <2>1. OneMore(Sent, Sent') /\ OneLess(Capped, Capped')
    BY <1>4, <1>5 DEF OneMore, OneLess
  <2>. QED
    BY <1>6, <1>7, <2>1, WorkersAssumption, WithinRecorded DEF CapInv
<1>9. Within((Sent \ followup)', CappedFirst', InitialLimit + Others)
  <2>1. CappedFirst' \in SUBSET (CappedFirst \ {w})
    BY <1>5 DEF CappedFirst
  <2>2. CASE worker[w].followup
    <3>1. (Sent \ followup)' \in SUBSET (Sent \ followup)
      BY <1>1, <1>5, <2>2
    <3>2. CappedFirst' \in SUBSET CappedFirst
      BY <2>1
    <3>. QED
      BY <1>6, <1>7, <3>1, <3>2, WorkersAssumption, WithinLess DEF CapInv
  <2>3. CASE ~worker[w].followup
    <3>1. w \in CappedFirst
      BY <1>4, <2>3 DEF CappedFirst
    <3>2. (Sent \ followup)' \in SUBSET ((Sent \ followup) \cup {o})
      BY <1>1, <1>5, <2>3
    <3>. QED
      <4>1. OneMore(Sent \ followup, (Sent \ followup)') /\ OneLess(CappedFirst, CappedFirst')
        BY <2>1, <3>1, <3>2 DEF OneMore, OneLess
      <4>. QED
        BY <1>6, <1>7, <4>1, WorkersAssumption, WithinRecorded DEF CapInv
  <2>. QED
    BY <1>3, <2>2, <2>3
<1>10. ASSUME NEW l \in Leads PROVE Within(SentTo(l)', CappedFor(l)', 1 + MaxFollowups + Others)
  <2>1. CappedFor(l)' \in SUBSET (CappedFor(l) \ {w})
    BY <1>5 DEF CappedFor
  <2>2. CASE l = LeadOf[o]
    <3>1. w \in CappedFor(l)
      BY <1>4, <2>2 DEF CappedFor
    <3>2. SentTo(l)' \in SUBSET (SentTo(l) \cup {o})
      BY <1>5 DEF SentTo
    <3>. QED
      <4>1. OneMore(SentTo(l), SentTo(l)') /\ OneLess(CappedFor(l), CappedFor(l)')
        BY <2>1, <3>1, <3>2 DEF OneMore, OneLess
      <4>. QED
        BY <1>6, <1>7, <4>1, WorkersAssumption, WithinRecorded DEF CapInv
  <2>3. CASE l # LeadOf[o]
    <3>1. SentTo(l)' \in SUBSET SentTo(l)
      BY <1>5, <2>3 DEF SentTo
    <3>2. CappedFor(l)' \in SUBSET CappedFor(l)
      BY <2>1
    <3>. QED
      BY <1>6, <1>7, <3>1, <3>2, WorkersAssumption, WithinLess DEF CapInv
  <2>. QED
    BY <2>2, <2>3
<1>. QED
  BY <1>8, <1>9, <1>10 DEF CapInv, Others

LEMMA CapsNext == IInv /\ CapInv /\ [Next]_vars => CapInv'
<1>. SUFFICES ASSUME IInv, CapInv, [Next]_vars PROVE CapInv'
  OBVIOUS
<1>0. TypeOK
  BY DEF IInv
<1>1. ASSUME UNCHANGED <<ledger, followup, worker>> PROVE CapInv'
  BY <1>1, CapsLess DEF Sent, Capped
<1>2. ASSUME NEW w \in Workers, NEW work \in Work, Goto(w, work),
             UNCHANGED <<ledger, followup>>,
             work.pc \in {"idle", "requesting", "admitted", "gated"}
      PROVE  CapInv'
  <2>1. Capped' \subseteq Capped /\ \A v \in Capped' : worker'[v] = worker[v]
    BY <1>0, <1>2 DEF Goto, Capped, TypeOK, Flying, Posted
  <2>. QED
    BY <1>2, <2>1, CapsLess DEF Sent
<1>3. ASSUME NEW w \in Workers, w \in Capped, worker' = [worker EXCEPT ![w] = worker'[w]],
             worker'[w].pc \in Flying \cup {"insert"}, worker'[w].of = worker[w].of,
             worker'[w].followup = worker[w].followup, UNCHANGED <<ledger, followup>>
      PROVE  CapInv'
  <2>1. \A v \in Workers : v # w => worker'[v] = worker[v]
    BY <1>0, <1>3 DEF TypeOK
  <2>2. Capped' \subseteq Capped
        /\ \A v \in Capped' : /\ worker'[v].of = worker[v].of
                              /\ worker'[v].followup = worker[v].followup
    BY <1>3, <2>1 DEF Capped
  <2>. QED
    BY <1>3, <2>2, CapsLess DEF Sent
<1>. USE DEF rows, history
<1>4. CASE OwnerSwitches
  BY <1>1, <1>4 DEF OwnerSwitches
<1>5. ASSUME NEW o \in Outreaches, OwnerResolves(o) PROVE CapInv'
  BY <1>1, <1>5 DEF OwnerResolves
<1>6. ASSUME NEW w \in Workers, NEW o \in Outreaches, RequestApproval(w, o) \/ Admit(w, o)
      PROVE  CapInv'
  <2>1. [pc |-> "requesting", of |-> o] \in Work
    BY DEF Work
  <2>2. approval[o] \in Seq({"pending", "approved", "refused"})
    BY <1>0 DEF TypeOK, Answers
  <2>3. [pc |-> "admitted", of |-> o, approval |-> Len(approval[o])] \in Work
    BY <2>2 DEF Work
  <2>. QED
    BY <1>2, <1>6, <2>1, <2>3 DEF RequestApproval, Admit
<1>7. ASSUME NEW w \in Workers, Gate(w) PROVE CapInv'
  <2>1. [pc |-> "gated", of |-> worker[w].of] \in Work
    BY <1>0, <1>7, MailTypes DEF Gate, Work
  <2>. QED
    BY <1>2, <1>7, <2>1 DEF Gate
<1>8. ASSUME NEW w \in Workers, NEW o \in Outreaches, LookUp(w, o) PROVE CapInv'
  BY <1>8, CapsLookUp
<1>9. ASSUME NEW w \in Workers, RequestCommit(w) \/ Abandon(w) PROVE CapInv'
  <2>1. Idle \in Work /\ Idle.pc = "idle"
    BY DEF Work, Idle
  <2>. QED
    BY <1>2, <1>9, <2>1 DEF RequestCommit, Abandon
<1>10. ASSUME NEW w \in Workers, Reserve(w) PROVE CapInv'
  <2>1. worker[w] \in [pc : {"insert"}, of : Outreaches, followup : BOOLEAN]
    BY <1>0, <1>10 DEF Reserve, TypeOK, Work, Idle, Posted
  <2>2. worker'[w] = [worker[w] EXCEPT !.pc = "reserved"]
        /\ worker' = [worker EXCEPT ![w] = worker'[w]]
        /\ UNCHANGED <<ledger, followup>>
    BY <1>0, <1>10 DEF Reserve, Goto, TypeOK
  <2>3. w \in Capped
    BY <1>10 DEF Reserve, Capped
  <2>. QED
    BY <1>3, <2>1, <2>2, <2>3 DEF Flying
<1>11. ASSUME NEW w \in Workers, Post(w) PROVE CapInv'
  <2>1. PICK answer, tries :
            /\ answer \in Posted
            /\ Goto(w, [pc |-> answer, of |-> worker[w].of,
                        tries |-> tries, followup |-> worker[w].followup])
    BY <1>11 DEF Post
  <2>2. w \in Capped /\ UNCHANGED <<ledger, followup>>
    BY <1>11 DEF Post, Capped, Flying, Posted
  <2>3. /\ worker'[w].pc = answer
        /\ worker'[w].of = worker[w].of
        /\ worker'[w].followup = worker[w].followup
        /\ worker' = [worker EXCEPT ![w] = worker'[w]]
    BY <1>0, <2>1 DEF Goto, TypeOK
  <2>4. answer \in Posted
    BY <2>1
  <2>. QED
    BY <1>3, <2>2, <2>3, <2>4 DEF Flying
<1>12. ASSUME NEW w \in Workers, RecordSent(w) PROVE CapInv'
  BY <1>12, CapsRecordSent
<1>13. ASSUME NEW w \in Workers, RecordFailed(w) PROVE CapInv'
  <2>1. Capped' \subseteq Capped /\ \A v \in Capped' : worker'[v] = worker[v]
    BY <1>0, <1>13 DEF RecordFailed, Goto, Capped, TypeOK, Idle, Flying, Posted
  <2>2. Sent' \subseteq Sent /\ followup \subseteq followup'
    BY <1>0, <1>13 DEF RecordFailed, Sent, TypeOK
  <2>. QED
    BY <2>1, <2>2, CapsLess
<1>14. CASE UNCHANGED vars
  BY <1>1, <1>14 DEF vars
<1>. QED
  BY <1>4, <1>5, <1>6, <1>7, <1>8, <1>9, <1>10, <1>11, <1>12, <1>13, <1>14 DEF Next

LEMMA CapsInductive == Spec => [](IInv /\ CapInv)
BY InitInv, NextInv, CapsInit, CapsNext, PTL DEF Spec

\* What is recorded is within a bound, whoever may still record.
LEMMA WithinBounds ==
    ASSUME NEW People, IsFiniteSet(People),
           NEW S, NEW P \in SUBSET People, NEW n \in Nat, Within(S, P, n)
    PROVE  Cardinality(S) <= n
<1>1. IsFiniteSet(P)
  BY FS_Subset
<1>2. Cardinality(S) \in Nat /\ Cardinality(P) \in Nat
  BY <1>1, FS_CardinalityType DEF Within
<1>. QED
  BY <1>2 DEF Within

\* Sessions that read a cap without a lock pass it by one message each at most, not
\* counting the one that is within it: the cap of the day, the one of its first
\* contacts, and the one on the mail to a lead.
THEOREM CapsOvershoot == Spec => []CapsOvershootBounded
<1>1. CapInv => CapsOvershootBounded
  <2>1. /\ DailyLimit + Others \in Nat /\ Capped \in SUBSET Workers
        /\ InitialLimit + Others \in Nat /\ CappedFirst \in SUBSET Workers
        /\ 1 + MaxFollowups + Others \in Nat
        /\ \A l \in Leads : CappedFor(l) \in SUBSET Workers
    BY OthersType, LimitsAssumption DEF Capped, CappedFirst, CappedFor
  <2>2. CapInv => Cardinality(Sent) <= DailyLimit + Others
    BY <2>1, WorkersAssumption, WithinBounds DEF CapInv
  <2>3. CapInv => Cardinality(Sent \ followup) <= InitialLimit + Others
    BY <2>1, WorkersAssumption, WithinBounds DEF CapInv
  <2>4. ASSUME CapInv, NEW l \in Leads
        PROVE  Cardinality(SentTo(l)) <= 1 + MaxFollowups + Others
    BY <2>1, <2>4, WorkersAssumption, WithinBounds DEF CapInv
  <2>. QED
    BY <2>2, <2>3, <2>4 DEF CapsOvershootBounded
<1>. QED
  BY <1>1, CapsInductive, PTL

----------------------------------------------------------------------------
(* Notices to the owner.  The unique key lets one session at a time hold a *)
(* record of a key, and only while none is committed; so a delivery beyond *)
(* those undone is either recorded or in the hands of that session.        *)

OneHolds == \A r, s \in Senders, k \in Notices : Holds(r, k) /\ Holds(s, k) => r = s

HeldHasNoRecord == \A s \in Senders, k \in Notices : Holds(s, k) => record[k] = "absent"

Posts(s, k) == sender[s].pc = "posting" /\ sender[s].key = k

PendingIsPosted == \A s \in Senders, k \in Notices : flushed[s][k] = "pending" <=> Posts(s, k)

\* A session has delivered notice k, and not committed its record.
OnItsWay(k) == \E s \in Senders : flushed[s][k] = "sent"

DeliveriesAccounted ==
    \A k \in Notices :
        delivered[k] = undone[k] + (IF record[k] = "sent" \/ OnItsWay(k) THEN 1 ELSE 0)

NoticeInv ==
    /\ NoticeTypeOK
    /\ OneHolds
    /\ HeldHasNoRecord
    /\ PendingIsPosted
    /\ DeliveriesAccounted

Statuses == Records \cup {"pending"}
Ages     == {"never", "hour", "day", "old"}

LEMMA StepTypes ==
    ASSUME NoticeTypeOK, NEW s \in Senders
    PROVE  /\ sender[s] \in Steps
           /\ sender[s].pc \in {"insert", "posting"} => sender[s].key \in Notices
           /\ sender[s].pc = "insert" =>
                sender[s].status \in {"pending", "rate_limited", "skipped"}
           /\ sender[s].pc = "posting" => sender[s].attempts \in 0..MaxSendRetries
<1>1. sender[s] \in Steps
  BY DEF NoticeTypeOK
<1>. QED
  BY <1>1 DEF Steps

LEMMA StepMoves ==
    ASSUME NoticeTypeOK, NEW s \in Senders, NEW step \in Steps, Does(s, step)
    PROVE  /\ sender' \in [Senders -> Steps]
           /\ sender'[s] = step
           /\ \A r \in Senders \ {s} : sender'[r] = sender[r]
BY DEF NoticeTypeOK, Does, Steps

LEMMA RestIsStep ==
    /\ AtRest \in Steps /\ AtRest.pc = "idle"
    /\ [pc |-> "poisoned"] \in Steps
BY DEF AtRest, Steps

LEMMA NothingIsFlushed ==
    /\ NothingFlushed \in [Notices -> Records]
    /\ \A k \in Notices : NothingFlushed[k] = "absent"
BY DEF NothingFlushed, Records

LEMMA VerdictType ==
    \A s \in Senders, k \in Notices : Verdict(s, k) \in {"pending", "rate_limited", "skipped"}
BY DEF Verdict

LEMMA FlushMoves ==
    ASSUME NoticeTypeOK, NEW s \in Senders, NEW k \in Notices, NEW status \in Statuses,
           Flush(s, k, status)
    PROVE  /\ flushed' \in [Senders -> [Notices -> Statuses]]
           /\ flushed'[s][k] = status
           /\ \A r \in Senders, j \in Notices :
                r # s \/ j # k => flushed'[r][j] = flushed[r][j]
<1>1. flushed \in [Senders -> [Notices -> Statuses]]
  BY DEF NoticeTypeOK, Statuses
<1>. QED
  BY <1>1 DEF Flush

\* A session records, flushed and alone, what has become of its notice.
LEMMA FlushInv ==
    ASSUME NoticeInv, NEW s \in Senders, NEW k \in Notices, NEW status \in Statuses \ {"absent"},
           Flush(s, k, status), NEW step \in Steps, Does(s, step),
           record[k] = "absent", \A r \in Senders \ {s} : ~Holds(r, k),
           sender[s].pc \in {"insert", "posting"}, sender[s].key = k, flushed[s][k] # "sent",
           step.pc = "posting" => step.key = k,
           status = "pending" <=> step.pc = "posting",
           UNCHANGED <<skipInfo, record>>, sentAge' \in [Notices -> Ages],
           delivered' \in [Notices -> Nat], undone' \in [Notices -> Nat],
           \A j \in Notices \ {k} : delivered'[j] = delivered[j] /\ undone'[j] = undone[j],
           delivered'[k] - delivered[k]
              = undone'[k] - undone[k] + (IF status = "sent" THEN 1 ELSE 0)
    PROVE  NoticeInv'
<1>. USE DEF NoticeInv
<1>1. /\ sender' \in [Senders -> Steps]
      /\ sender'[s] = step
      /\ \A r \in Senders \ {s} : sender'[r] = sender[r]
  BY StepMoves
<1>2. /\ flushed' \in [Senders -> [Notices -> Statuses]]
      /\ flushed'[s][k] = status
      /\ \A r \in Senders, j \in Notices : r # s \/ j # k => flushed'[r][j] = flushed[r][j]
  BY FlushMoves
<1>3. NoticeTypeOK'
  BY <1>1, <1>2 DEF NoticeTypeOK, Statuses, Ages
<1>4. OneHolds' /\ HeldHasNoRecord'
  BY <1>2 DEF OneHolds, HeldHasNoRecord, Holds
<1>5. PendingIsPosted'
  <2>. SUFFICES ASSUME NEW r \in Senders, NEW j \in Notices
                PROVE  flushed'[r][j] = "pending" <=> Posts(r, j)'
    BY DEF PendingIsPosted
  <2>1. CASE r # s
    BY <1>1, <1>2, <2>1 DEF PendingIsPosted, Posts
  <2>2. CASE r = s /\ j = k
    BY <1>1, <1>2, <2>2 DEF Posts
  <2>3. CASE r = s /\ j # k
    <3>1. flushed[s][j] # "pending"
      BY <2>3 DEF PendingIsPosted, Posts
    <3>. QED
      BY <1>1, <1>2, <2>3, <3>1 DEF Posts
  <2>. QED
    BY <2>1, <2>2, <2>3
<1>6. ASSUME NEW j \in Notices
      PROVE  delivered'[j] = undone'[j] + (IF record'[j] = "sent" \/ OnItsWay(j)' THEN 1 ELSE 0)
  <2>0. /\ delivered[j] \in Nat /\ undone[j] \in Nat
        /\ delivered'[j] \in Nat /\ undone'[j] \in Nat
        /\ delivered[j] = undone[j] + (IF record[j] = "sent" \/ OnItsWay(j) THEN 1 ELSE 0)
    BY DEF NoticeTypeOK, DeliveriesAccounted
  <2>1. CASE j = k
    <3>1. ~OnItsWay(j)
      BY <2>1 DEF OnItsWay, Holds
    <3>2. OnItsWay(j)' <=> status = "sent"
      BY <1>2, <2>1 DEF OnItsWay, Holds
    <3>3. record[j] = "absent" /\ record'[j] = "absent"
      BY <2>1
    <3>4. delivered[j] = undone[j]
      BY <2>0, <3>1, <3>3
    <3>5. CASE status = "sent"
      BY <2>0, <2>1, <3>2, <3>4, <3>5
    <3>6. CASE status # "sent"
      BY <2>0, <2>1, <3>2, <3>3, <3>4, <3>6
    <3>. QED
      BY <3>5, <3>6
  <2>2. CASE j # k
    <3>1. OnItsWay(j)' <=> OnItsWay(j)
      BY <1>2, <2>2 DEF OnItsWay
    <3>. QED
      BY <2>0, <2>2, <3>1
  <2>. QED
    BY <2>1, <2>2
<1>. QED
  BY <1>3, <1>4, <1>5, <1>6 DEF DeliveriesAccounted

LEMMA InsertInv ==
    ASSUME NoticeInv, NEW s \in Senders, Insert(s)
    PROVE  NoticeInv'
<1>. DEFINE k == sender[s].key
            status == sender[s].status
            step == IF status = "pending"
                    THEN [pc |-> "posting", key |-> k, attempts |-> 0] ELSE AtRest
<1>0. NoticeTypeOK
  BY DEF NoticeInv
<1>1. /\ sender[s].pc = "insert" /\ k \in Notices
      /\ status \in {"pending", "rate_limited", "skipped"}
  BY <1>0, StepTypes DEF Insert
<1>2. /\ record[k] = "absent" /\ \A r \in Senders : ~Holds(r, k)
      /\ flushed[s][k] = "absent"
  BY DEF Insert, Recorded, Holds
<1>3. /\ Flush(s, k, status) /\ Does(s, step)
      /\ UNCHANGED <<skipInfo, record, sentAge, delivered, undone>>
  BY DEF Insert, Inserted, noticeHistory
<1>4. /\ step \in Steps
      /\ step.pc = "posting" => step.key = k
      /\ status = "pending" <=> step.pc = "posting"
  BY <1>1, RestIsStep, NotificationAssumption DEF Steps
<1>5. /\ status \in Statuses \ {"absent"} /\ status # "sent"
  BY <1>1 DEF Statuses, Records
<1>6. /\ sentAge' \in [Notices -> Ages]
      /\ delivered' \in [Notices -> Nat] /\ undone' \in [Notices -> Nat]
      /\ delivered[k] \in Nat /\ undone[k] \in Nat
  BY <1>0, <1>1, <1>3 DEF NoticeTypeOK, Ages
<1>7. delivered'[k] - delivered[k] = undone'[k] - undone[k] + (IF status = "sent" THEN 1 ELSE 0)
  BY <1>3, <1>5, <1>6
<1>. HIDE DEF step, status, k
<1>. QED
  BY <1>1, <1>2, <1>3, <1>4, <1>5, <1>6, <1>7, FlushInv DEF k

LEMMA PostMessageInv ==
    ASSUME NoticeInv, NEW s \in Senders, PostMessage(s)
    PROVE  NoticeInv'
<1>. DEFINE k == sender[s].key
            attempts == sender[s].attempts + 1
<1>0. NoticeTypeOK
  BY DEF NoticeInv
<1>1. /\ sender[s].pc = "posting" /\ k \in Notices /\ sender[s].attempts \in 0..MaxSendRetries
  BY <1>0, StepTypes DEF PostMessage
<1>2. PICK reaches, answered, again \in BOOLEAN, status \in {"sent", "pending", "failed"},
           step \in {[pc |-> "posting", key |-> k, attempts |-> attempts], AtRest} :
        /\ delivered' = [delivered EXCEPT ![k] = @ + (IF reaches THEN 1 ELSE 0)]
        /\ undone' = [undone EXCEPT ![k] = @ + (IF reaches /\ ~answered THEN 1 ELSE 0)]
        /\ sentAge' = IF reaches /\ answered THEN [sentAge EXCEPT ![k] = "hour"] ELSE sentAge
        /\ Flush(s, k, status) /\ Does(s, step)
        /\ status = "sent" <=> reaches /\ answered
        /\ status = "pending" <=> step = [pc |-> "posting", key |-> k, attempts |-> attempts]
        /\ status = "pending" => attempts <= MaxSendRetries
  <2>1. PICK reaches, answered, retryable \in BOOLEAN :
          LET sent == reaches /\ answered
              again == ~sent /\ retryable /\ attempts <= MaxSendRetries
          IN  /\ delivered' = [delivered EXCEPT ![k] = @ + (IF reaches THEN 1 ELSE 0)]
              /\ undone' = [undone EXCEPT ![k] = @ + (IF reaches /\ ~answered THEN 1 ELSE 0)]
              /\ sentAge' = IF sent THEN [sentAge EXCEPT ![k] = "hour"] ELSE sentAge
              /\ Flush(s, k, IF sent THEN "sent" ELSE IF again THEN "pending" ELSE "failed")
              /\ Does(s, IF again THEN [pc |-> "posting", key |-> k, attempts |-> attempts]
                                  ELSE AtRest)
    BY DEF PostMessage
  <2>2. [pc |-> "posting", key |-> k, attempts |-> attempts] # AtRest
    BY RestIsStep
  <2>3. CASE reaches /\ answered
    BY <2>1, <2>2, <2>3
  <2>4. CASE ~(reaches /\ answered) /\ retryable /\ attempts <= MaxSendRetries
    BY <2>1, <2>2, <2>4
  <2>5. CASE ~(reaches /\ answered) /\ ~(retryable /\ attempts <= MaxSendRetries)
    BY <2>1, <2>2, <2>5
  <2>. QED
    BY <2>3, <2>4, <2>5
<1>3. /\ UNCHANGED <<skipInfo, record>>
      /\ delivered \in [Notices -> Nat] /\ undone \in [Notices -> Nat]
      /\ sentAge \in [Notices -> Ages]
  BY <1>0 DEF PostMessage, NoticeTypeOK, Ages
<1>4. flushed[s][k] = "pending"
  BY <1>1 DEF NoticeInv, PendingIsPosted, Posts
<1>5. record[k] = "absent" /\ \A r \in Senders \ {s} : ~Holds(r, k)
  BY <1>1, <1>4 DEF NoticeInv, HeldHasNoRecord, OneHolds, Holds
<1>6. /\ step \in Steps
      /\ step.pc = "posting" => step.key = k
      /\ status = "pending" <=> step.pc = "posting"
  <2>1. attempts <= MaxSendRetries => attempts \in 0..MaxSendRetries
    BY <1>1, NotificationAssumption
  <2>. QED
    BY <1>1, <1>2, <2>1, RestIsStep DEF Steps
<1>7. status \in Statuses \ {"absent"}
  BY <1>2 DEF Statuses, Records
<1>8. /\ sentAge' \in [Notices -> Ages]
      /\ delivered' \in [Notices -> Nat] /\ undone' \in [Notices -> Nat]
      /\ \A j \in Notices \ {k} : delivered'[j] = delivered[j] /\ undone'[j] = undone[j]
      /\ delivered'[k] - delivered[k]
           = undone'[k] - undone[k] + (IF status = "sent" THEN 1 ELSE 0)
  <2>1. sentAge' \in [Notices -> Ages]
    BY <1>2, <1>3 DEF Ages
  <2>2. CASE reaches /\ answered
    BY <1>1, <1>2, <1>3, <2>1, <2>2
  <2>3. CASE ~reaches
    BY <1>1, <1>2, <1>3, <2>1, <2>3
  <2>4. CASE reaches /\ ~answered
    BY <1>1, <1>2, <1>3, <2>1, <2>4
  <2>. QED
    BY <2>2, <2>3, <2>4
<1>. HIDE DEF k, attempts
<1>. QED
  BY <1>1, <1>2, <1>3, <1>4, <1>5, <1>6, <1>7, <1>8, FlushInv DEF k

\* A session gives up all it has flushed: to the committed records, or undone.
LEMMA EmptiesMoves ==
    ASSUME NoticeTypeOK, NEW s \in Senders, flushed' = [flushed EXCEPT ![s] = NothingFlushed]
    PROVE  /\ flushed' \in [Senders -> [Notices -> Statuses]]
           /\ \A k \in Notices : flushed'[s][k] = "absent"
           /\ \A r \in Senders \ {s} : flushed'[r] = flushed[r]
<1>1. /\ flushed \in [Senders -> [Notices -> Statuses]]
      /\ NothingFlushed \in [Notices -> Statuses]
  BY NothingIsFlushed DEF NoticeTypeOK, Statuses
<1>. QED
  BY <1>1, NothingIsFlushed

LEMMA CommitNoticesInv ==
    ASSUME NoticeInv, NEW s \in Senders, CommitNotices(s)
    PROVE  NoticeInv'
<1>. USE DEF NoticeInv, noticeHistory
<1>1. /\ flushed' \in [Senders -> [Notices -> Statuses]]
      /\ \A k \in Notices : flushed'[s][k] = "absent"
      /\ \A r \in Senders \ {s} : flushed'[r] = flushed[r]
  BY EmptiesMoves DEF CommitNotices
<1>2. UNCHANGED <<skipInfo, sentAge, sender, delivered, undone>>
  BY DEF CommitNotices
<1>3. \A k \in Notices : flushed[s][k] \in Records
  BY RestIsStep DEF CommitNotices, PendingIsPosted, Posts, NoticeTypeOK, Records
<1>4. /\ record' \in [Notices -> Records]
      /\ \A k \in Notices : record'[k] = IF Holds(s, k) THEN flushed[s][k] ELSE record[k]
  BY <1>3 DEF CommitNotices, NoticeTypeOK
<1>5. NoticeTypeOK'
  BY <1>1, <1>2, <1>4 DEF NoticeTypeOK, Statuses
<1>6. OneHolds' /\ HeldHasNoRecord'
  BY <1>1, <1>4 DEF OneHolds, HeldHasNoRecord, Holds
<1>7. PendingIsPosted'
  BY <1>1, <1>2, RestIsStep DEF CommitNotices, PendingIsPosted, Posts
<1>8. ASSUME NEW k \in Notices
      PROVE  (record'[k] = "sent" \/ OnItsWay(k)') <=> (record[k] = "sent" \/ OnItsWay(k))
  <2>1. CASE Holds(s, k)
    BY <1>1, <1>4, <2>1 DEF OnItsWay, OneHolds, HeldHasNoRecord, Holds
  <2>2. CASE ~Holds(s, k)
    BY <1>1, <1>4, <2>2 DEF OnItsWay, Holds
  <2>. QED
    BY <2>1, <2>2
<1>9. DeliveriesAccounted'
  BY <1>2, <1>8 DEF DeliveriesAccounted
<1>. QED
  BY <1>5, <1>6, <1>7, <1>9

LEMMA UndoMoves ==
    ASSUME NoticeTypeOK, NEW s \in Senders, Undo(s)
    PROVE  /\ flushed' \in [Senders -> [Notices -> Statuses]]
           /\ \A k \in Notices : flushed'[s][k] = "absent"
           /\ \A r \in Senders \ {s} : flushed'[r] = flushed[r]
           /\ undone' \in [Notices -> Nat]
           /\ \A k \in Notices :
                undone'[k] = undone[k] + (IF flushed[s][k] = "sent" THEN 1 ELSE 0)
           /\ sentAge' \in [Notices -> Ages]
           /\ \A k \in Notices :
                sentAge'[k] = IF flushed[s][k] = "sent" THEN "never" ELSE sentAge[k]
           /\ UNCHANGED <<skipInfo, record, delivered>>
<1>1. flushed' = [flushed EXCEPT ![s] = NothingFlushed]
  BY DEF Undo
<1>2. /\ flushed' \in [Senders -> [Notices -> Statuses]]
      /\ \A k \in Notices : flushed'[s][k] = "absent"
      /\ \A r \in Senders \ {s} : flushed'[r] = flushed[r]
  BY <1>1, EmptiesMoves
<1>3. undone \in [Notices -> Nat] /\ sentAge \in [Notices -> Ages]
  BY DEF NoticeTypeOK, Ages
<1>4. /\ undone' = [k \in Notices |-> undone[k] + (IF flushed[s][k] = "sent" THEN 1 ELSE 0)]
      /\ sentAge' = [k \in Notices |-> IF flushed[s][k] = "sent" THEN "never" ELSE sentAge[k]]
      /\ UNCHANGED <<skipInfo, record, delivered>>
  BY DEF Undo
<1>5. undone' \in [Notices -> Nat] /\ sentAge' \in [Notices -> Ages]
  BY <1>3, <1>4 DEF Ages
<1>. QED
  BY <1>2, <1>4, <1>5

LEMMA UndoInv ==
    ASSUME NoticeInv, NEW s \in Senders, Undo(s),
           NEW step \in {AtRest, [pc |-> "poisoned"]}, Does(s, step)
    PROVE  NoticeInv'
<1>. USE DEF NoticeInv
<1>1. /\ flushed' \in [Senders -> [Notices -> Statuses]]
      /\ \A k \in Notices : flushed'[s][k] = "absent"
      /\ \A r \in Senders \ {s} : flushed'[r] = flushed[r]
      /\ undone' \in [Notices -> Nat] /\ sentAge' \in [Notices -> Ages]
      /\ \A k \in Notices : undone'[k] = undone[k] + (IF flushed[s][k] = "sent" THEN 1 ELSE 0)
      /\ UNCHANGED <<skipInfo, record, delivered>>
  BY UndoMoves
<1>2. /\ sender' \in [Senders -> Steps]
      /\ sender'[s] = step /\ step.pc # "posting"
      /\ \A r \in Senders \ {s} : sender'[r] = sender[r]
  <2>1. step \in Steps /\ step.pc # "posting"
    BY RestIsStep
  <2>. QED
    BY <2>1, StepMoves
<1>3. NoticeTypeOK'
  BY <1>1, <1>2 DEF NoticeTypeOK, Statuses, Ages
<1>4. OneHolds' /\ HeldHasNoRecord'
  BY <1>1 DEF OneHolds, HeldHasNoRecord, Holds
<1>5. PendingIsPosted'
  BY <1>1, <1>2 DEF PendingIsPosted, Posts
<1>6. ASSUME NEW k \in Notices
      PROVE  delivered'[k] = undone'[k] + (IF record'[k] = "sent" \/ OnItsWay(k)' THEN 1 ELSE 0)
  <2>0. /\ delivered[k] = undone[k] + (IF record[k] = "sent" \/ OnItsWay(k) THEN 1 ELSE 0)
        /\ undone[k] \in Nat
    BY DEF DeliveriesAccounted, NoticeTypeOK
  <2>1. CASE flushed[s][k] = "sent"
    <3>1. OnItsWay(k) /\ ~OnItsWay(k)' /\ record[k] = "absent"
      BY <1>1, <2>1 DEF OnItsWay, OneHolds, HeldHasNoRecord, Holds
    <3>. QED
      BY <1>1, <2>0, <2>1, <3>1
  <2>2. CASE flushed[s][k] # "sent"
    <3>1. OnItsWay(k)' <=> OnItsWay(k)
      BY <1>1, <2>2 DEF OnItsWay
    <3>. QED
      BY <1>1, <2>0, <2>2, <3>1
  <2>. QED
    BY <2>1, <2>2
<1>. QED
  BY <1>3, <1>4, <1>5, <1>6 DEF DeliveriesAccounted

LEMMA NoticeInitInv == NoticeInit => NoticeInv
<1>. SUFFICES ASSUME NoticeInit PROVE NoticeInv
  OBVIOUS
<1>1. \A s \in Senders : sender[s] = AtRest /\ sender[s].pc = "idle"
  BY RestIsStep DEF NoticeInit
<1>2. \A s \in Senders, k \in Notices : flushed[s][k] = "absent" /\ record[k] = "absent"
  BY NothingIsFlushed DEF NoticeInit
<1>3. NoticeTypeOK
  BY RestIsStep, NothingIsFlushed DEF NoticeInit, NoticeTypeOK
<1>4. OneHolds /\ HeldHasNoRecord /\ PendingIsPosted
  BY <1>1, <1>2 DEF OneHolds, HeldHasNoRecord, PendingIsPosted, Holds, Posts
<1>5. \A k \in Notices : delivered[k] = 0 /\ undone[k] = 0
  BY DEF NoticeInit
<1>6. \A k \in Notices : ~OnItsWay(k)
  BY <1>2, SMT DEF OnItsWay
<1>7. DeliveriesAccounted
  <2>. SUFFICES ASSUME NEW k \in Notices
                PROVE  delivered[k] = undone[k] + (IF record[k] = "sent" \/ OnItsWay(k) THEN 1 ELSE 0)
    BY DEF DeliveriesAccounted
  <2>1. record[k] # "sent"
    BY NothingIsFlushed DEF NoticeInit
  <2>. QED
    BY <1>5, <1>6, <2>1
<1>. QED
  BY <1>3, <1>4, <1>7 DEF NoticeInv

\* A step that neither flushes nor posts.
LEMMA NoticeQuietInv ==
    ASSUME NoticeInv, UNCHANGED <<skipInfo, record, flushed, delivered, undone>>,
           sentAge' \in [Notices -> Ages], sender' \in [Senders -> Steps],
           \A s \in Senders : sender'[s] = sender[s]
                              \/ (sender[s].pc # "posting" /\ sender'[s].pc # "posting")
    PROVE  NoticeInv'
<1>1. NoticeTypeOK'
  BY DEF NoticeInv, NoticeTypeOK, Ages
<1>2. OneHolds' /\ HeldHasNoRecord'
  BY DEF NoticeInv, OneHolds, HeldHasNoRecord, Holds
<1>3. PendingIsPosted'
  BY DEF NoticeInv, PendingIsPosted, Posts
<1>4. DeliveriesAccounted'
  BY DEF NoticeInv, DeliveriesAccounted, OnItsWay
<1>. QED
  BY <1>1, <1>2, <1>3, <1>4 DEF NoticeInv

LEMMA NoticeNextInv == NoticeInv /\ [NoticeNext]_noticeVars => NoticeInv'
<1>. SUFFICES ASSUME NoticeInv, [NoticeNext]_noticeVars PROVE NoticeInv'
  OBVIOUS
<1>. USE DEF noticeHistory, noticeRows
<1>0. /\ NoticeTypeOK /\ sentAge \in [Notices -> Ages] /\ sender \in [Senders -> Steps]
  BY DEF NoticeInv, NoticeTypeOK, Ages
<1>1. ASSUME NEW k \in Notices, TimePasses(k) PROVE NoticeInv'
  <2>1. sentAge' \in [Notices -> Ages]
    BY <1>0, <1>1 DEF TimePasses, Ages
  <2>. QED
    BY <1>0, <1>1, <2>1, NoticeQuietInv DEF TimePasses
<1>2. ASSUME NEW s \in Senders, NEW k \in Notices, Decide(s, k) PROVE NoticeInv'
  <2>. DEFINE step == [pc |-> "insert", key |-> k, status |-> Verdict(s, k)]
  <2>1. step \in Steps /\ step.pc = "insert"
    BY VerdictType DEF Steps
  <2>2. sender[s].pc = "idle" /\ Does(s, step)
        /\ UNCHANGED <<skipInfo, record, flushed, sentAge, delivered, undone>>
    BY <1>2, RestIsStep DEF Decide
  <2>. HIDE DEF step
  <2>3. /\ sender' \in [Senders -> Steps] /\ sender'[s] = step
        /\ \A r \in Senders \ {s} : sender'[r] = sender[r]
    BY <1>0, <2>1, <2>2, StepMoves
  <2>. QED
    BY <1>0, <2>1, <2>2, <2>3, NoticeQuietInv
<1>3. ASSUME NEW s \in Senders, KeyTaken(s) PROVE NoticeInv'
  BY <1>3, UndoInv DEF KeyTaken
<1>4. ASSUME NEW s \in Senders, RollBackNotices(s) PROVE NoticeInv'
  BY <1>4, UndoInv DEF RollBackNotices
<1>5. CASE UNCHANGED noticeVars
  BY <1>0, <1>5, NoticeQuietInv DEF noticeVars
<1>. QED
  BY <1>1, <1>2, <1>3, <1>4, <1>5, InsertInv, PostMessageInv, CommitNoticesInv
     DEF NoticeNext

LEMMA NoticeInductive == NoticeSpec => []NoticeInv
BY NoticeInitInv, NoticeNextInv, PTL DEF NoticeSpec

\* NoticeTypeOK: the rows of the notifications and their sessions have their types.
THEOREM NoticeTypeCorrect == NoticeSpec => []NoticeTypeOK
<1>1. NoticeInv => NoticeTypeOK
  BY DEF NoticeInv
<1>. QED
  BY <1>1, NoticeInductive, PTL

\* NoticedAgainOnlyIfUndone: notify posts a message again only after its answer was lost
\* or its transaction rolled back.
THEOREM NoticesOnlyAgainAfterLoss == NoticeSpec => []NoticedAgainOnlyIfUndone
<1>1. NoticeInv => NoticedAgainOnlyIfUndone
  <2>. SUFFICES ASSUME NoticeInv, NEW k \in Notices
                PROVE  /\ delivered[k] <= undone[k] + 1
                       /\ record[k] = "sent" => delivered[k] = undone[k] + 1
    BY DEF NoticedAgainOnlyIfUndone
  <2>1. undone[k] \in Nat
    BY DEF NoticeInv, NoticeTypeOK
  <2>2. delivered[k] = undone[k] + (IF record[k] = "sent" \/ OnItsWay(k) THEN 1 ELSE 0)
    BY DEF NoticeInv, DeliveriesAccounted
  <2>. QED
    BY <2>1, <2>2
<1>. QED
  BY <1>1, NoticeInductive, PTL

----------------------------------------------------------------------------
(* The caps on notices.  A session sends, before it commits, no more than a *)
(* cap beyond what it sees recorded; so what all have sent is at most a cap *)
(* each, and a commit moves notices from a session to the records.          *)

LEMMA UnionOfBounded ==
    ASSUME NEW People, IsFiniteSet(People), NEW n \in Nat, NEW Of,
           \A p \in People : IsFiniteSet(Of[p]) /\ Cardinality(Of[p]) <= n
    PROVE  LET All == UNION {Of[p] : p \in People}
           IN  IsFiniteSet(All) /\ Cardinality(All) <= Cardinality(People) * n
<1>. DEFINE All == UNION {Of[p] : p \in People}
            Slots == People \X (1..n)
            whose == [x \in All |-> CHOOSE p \in People : x \in Of[p]]
            rank == [p \in People |-> CHOOSE f : f \in Injection(Of[p], 1..n)]
            slot == [x \in All |-> <<whose[x], rank[whose[x]][x]>>]
<1>1. \A x \in All : whose[x] \in People /\ x \in Of[whose[x]]
  OBVIOUS
<1>2. ASSUME NEW p \in People
      PROVE  /\ rank[p] \in [Of[p] -> 1..n]
             /\ \A x, y \in Of[p] : rank[p][x] = rank[p][y] => x = y
  <2>1. PICK m \in Nat : m = Cardinality(Of[p]) /\ m <= n
    BY FS_CardinalityType
  <2>2. IsFiniteSet(1..m) /\ Cardinality(1..m) = m
    BY FS_Interval
  <2>3. PICK f : f \in Injection(Of[p], 1..m)
    BY <2>1, <2>2, FS_SameCardinalityBij DEF ExistsBijection, Bijection
  <2>4. 1..m \subseteq 1..n
    BY <2>1
  <2>5. f \in Injection(Of[p], 1..n)
    BY <2>3, <2>4 DEF Injection
  <2>6. rank[p] \in Injection(Of[p], 1..n)
    BY <2>5
  <2>. HIDE DEF rank
  <2>. QED
    BY <2>6 DEF Injection, IsInjective
<1>3. slot \in Injection(All, Slots)
  <2>1. \A x \in All : slot[x] = <<whose[x], rank[whose[x]][x]>>
    OBVIOUS
  <2>. HIDE DEF whose, rank, All
  <2>2. ASSUME NEW x \in All PROVE rank[whose[x]][x] \in 1..n
    BY <1>1, <1>2
  <2>3. slot \in [All -> Slots]
    BY <1>1, <2>2
  <2>4. ASSUME NEW x \in All, NEW y \in All, slot[x] = slot[y] PROVE x = y
    <3>1. whose[x] = whose[y] /\ rank[whose[x]][x] = rank[whose[y]][y]
      BY <2>1, <2>4
    <3>. QED
      BY <1>1, <1>2, <3>1
  <2>. HIDE DEF slot
  <2>. QED
    BY <2>3, <2>4 DEF Injection, IsInjective
<1>4. IsFiniteSet(Slots) /\ Cardinality(Slots) = Cardinality(People) * n
  <2>. DEFINE Ranks == 1..n
  <2>1. IsFiniteSet(Ranks) /\ Cardinality(Ranks) = n
    BY FS_Interval
  <2>. HIDE DEF Ranks
  <2>2. /\ IsFiniteSet(People \X Ranks)
        /\ Cardinality(People \X Ranks) = Cardinality(People) * Cardinality(Ranks)
    BY <2>1, FS_Product, Zenon
  <2>3. IsFiniteSet(People \X Ranks) /\ Cardinality(People \X Ranks) = Cardinality(People) * n
    BY <2>1, <2>2, Zenon
  <2>. QED
    BY <2>3 DEF Ranks
<1>. HIDE DEF All, Slots, slot
<1>. QED
  BY <1>3, <1>4, FS_Injection DEF All

\* What _count_sent_since counts among the committed records.
Near(ages, keys) == {k \in keys : record[k] = "sent" /\ sentAge[k] \in ages}

\* What a session has sent, or may still send, and has not committed.
Uncommitted(s, ages, keys) ==
    {k \in keys :
        \/ flushed[s][k] = "sent" /\ sentAge[k] \in ages
        \/ sender[s].pc = "insert" /\ sender[s].key = k /\ sender[s].status = "pending"
        \/ Posts(s, k)}

AllSent(ages, keys) == Near(ages, keys) \cup UNION {Uncommitted(s, ages, keys) : s \in Senders}

UnderCap(ages, keys, n) ==
    /\ \A s \in Senders : Cardinality(Uncommitted(s, ages, keys)) <= n
    /\ Cardinality(AllSent(ages, keys)) <= n * Cardinality(Senders)

NoticeCapInv ==
    /\ UnderCap({"hour"}, Notices, MaxPerHour)
    /\ UnderCap({"hour", "day"}, InfoNotices, MaxInfoPerDay)

LEMMA SomeNotices ==
    ASSUME NEW keys \in SUBSET Notices, NEW K \in SUBSET keys
    PROVE  IsFiniteSet(K) /\ Cardinality(K) \in Nat
<1>1. IsFiniteSet(K)
  BY NotificationAssumption, FS_Subset
<1>. QED
  BY <1>1, FS_CardinalityType

LEMMA SendersCount == \E m \in Nat : Cardinality(Senders) = m + 1
<1>1. Cardinality(Senders) \in Nat /\ Cardinality(Senders) # 0
  BY NotificationAssumption, FS_CardinalityType, FS_EmptySet
<1>2. Cardinality(Senders) - 1 \in Nat /\ Cardinality(Senders) = (Cardinality(Senders) - 1) + 1
  BY <1>1
<1>. QED
  BY <1>2

LEMMA CapShrinks ==
    ASSUME NEW keys \in SUBSET Notices, NEW ages, NEW n \in Nat, UnderCap(ages, keys, n),
           Near(ages, keys)' \subseteq AllSent(ages, keys),
           \A s \in Senders : Uncommitted(s, ages, keys)' \subseteq Uncommitted(s, ages, keys)
    PROVE  UnderCap(ages, keys, n)'
<1>1. AllSent(ages, keys)' \subseteq AllSent(ages, keys) /\ AllSent(ages, keys) \subseteq keys
  BY DEF AllSent, Near, Uncommitted
<1>2. /\ Cardinality(AllSent(ages, keys)') <= Cardinality(AllSent(ages, keys))
      /\ Cardinality(AllSent(ages, keys)') \in Nat /\ Cardinality(AllSent(ages, keys)) \in Nat
  <2>1. IsFiniteSet(AllSent(ages, keys))
    BY <1>1, SomeNotices
  <2>. QED
    BY <1>1, <2>1, SomeNotices, FS_Subset
<1>3. ASSUME NEW s \in Senders
      PROVE  /\ Cardinality(Uncommitted(s, ages, keys)') <= Cardinality(Uncommitted(s, ages, keys))
             /\ Cardinality(Uncommitted(s, ages, keys)') \in Nat
             /\ Cardinality(Uncommitted(s, ages, keys)) \in Nat
  <2>1. Uncommitted(s, ages, keys) \subseteq keys
    BY DEF Uncommitted
  <2>2. Uncommitted(s, ages, keys)' \subseteq Uncommitted(s, ages, keys)
    OBVIOUS
  <2>3. IsFiniteSet(Uncommitted(s, ages, keys))
    BY <2>1, SomeNotices
  <2>. QED
    BY <2>1, <2>2, <2>3, SomeNotices, FS_Subset
<1>4. PICK m \in Nat : Cardinality(Senders) = m + 1
  BY SendersCount
<1>5. n * Cardinality(Senders) \in Nat
  <2>1. \A i, j \in Nat : i * j \in Nat
    OBVIOUS
  <2>. QED
    BY <1>4, <2>1
<1>6. /\ Cardinality(AllSent(ages, keys)') <= n * Cardinality(Senders)
      /\ \A s \in Senders : Cardinality(Uncommitted(s, ages, keys)') <= n
  <2>1. Cardinality(AllSent(ages, keys)') <= n * Cardinality(Senders)
    BY <1>2, <1>5 DEF UnderCap
  <2>. QED
    BY <1>3, <2>1 DEF UnderCap
<1>. QED
  BY <1>6 DEF UnderCap

\* A session that sees a place under the cap takes it.
LEMMA CapTaken ==
    ASSUME NEW keys \in SUBSET Notices, NEW ages, NEW n \in Nat, UnderCap(ages, keys, n),
           NEW s \in Senders, NEW k \in keys,
           Cardinality(Near(ages, keys) \cup Uncommitted(s, ages, keys)) < n,
           Near(ages, keys)' = Near(ages, keys),
           Uncommitted(s, ages, keys)' \subseteq Uncommitted(s, ages, keys) \cup {k},
           \A r \in Senders \ {s} : Uncommitted(r, ages, keys)' = Uncommitted(r, ages, keys)
    PROVE  UnderCap(ages, keys, n)'
<1>. DEFINE N == Near(ages, keys)
            H == [r \in Senders |-> Uncommitted(r, ages, keys)]
            Rivals == Senders \ {s}
            Rest == UNION {H[r] : r \in Rivals}
            Mine == N \cup H[s] \cup {k}
<1>1. \A r \in Senders : H[r] = Uncommitted(r, ages, keys) /\ H[r] \subseteq keys /\ N \subseteq keys
  BY DEF Uncommitted, Near
<1>2. PICK m \in Nat : Cardinality(Senders) = m + 1
  BY SendersCount
<1>3. IsFiniteSet(Rivals) /\ Cardinality(Rivals) = m
  <2>1. IsFiniteSet(Rivals) /\ Cardinality(Rivals) = Cardinality(Senders) - 1
    BY NotificationAssumption, FS_RemoveElement
  <2>. QED
    BY <1>2, <2>1
<1>4. \A r \in Rivals : IsFiniteSet(H[r]) /\ Cardinality(H[r]) <= n
  BY <1>1, SomeNotices DEF UnderCap
<1>5. IsFiniteSet(Rest) /\ Cardinality(Rest) <= m * n
  <2>1. IsFiniteSet(UNION {H[r] : r \in Rivals}) /\ Cardinality(UNION {H[r] : r \in Rivals}) <= m * n
    <3>. HIDE DEF Rivals, H
    <3>. QED
      BY <1>3, <1>4, UnionOfBounded
  <2>. QED
    BY <2>1
<1>6. N \cup H[s] \subseteq keys /\ Mine \subseteq keys /\ Rest \cup Mine \subseteq keys
  BY <1>1
<1>7. Cardinality(N \cup H[s]) < n /\ IsFiniteSet(N \cup H[s]) /\ Cardinality(N \cup H[s]) \in Nat
  <2>1. N \cup H[s] = Near(ages, keys) \cup Uncommitted(s, ages, keys)
    OBVIOUS
  <2>. QED
    BY <1>6, <2>1, SomeNotices
<1>8. IsFiniteSet(Mine) /\ Cardinality(Mine) \in Nat /\ Cardinality(Mine) <= n
  <2>. DEFINE Seen == N \cup H[s]
  <2>1. Cardinality(Seen) \in Nat /\ IsFiniteSet(Seen) /\ Cardinality(Seen) < n
    BY <1>7
  <2>. HIDE DEF Seen
  <2>2. /\ IsFiniteSet(Seen \cup {k})
        /\ Cardinality(Seen \cup {k}) \in {Cardinality(Seen), Cardinality(Seen) + 1}
    BY <2>1, FS_AddElement, Zenon
  <2>3. Cardinality(Seen \cup {k}) <= n
    BY <2>1, <2>2
  <2>. QED
    BY <1>6, <2>2, <2>3, SomeNotices DEF Seen
<1>9. /\ IsFiniteSet(Rest \cup Mine) /\ Cardinality(Rest \cup Mine) \in Nat
      /\ Cardinality(Rest \cup Mine) <= n * Cardinality(Senders)
  <2>. HIDE DEF Rest, Mine
  <2>1. /\ IsFiniteSet(Rest \cup Mine)
        /\ Cardinality(Rest \cup Mine)
             = Cardinality(Rest) + Cardinality(Mine) - Cardinality(Rest \cap Mine)
    BY <1>5, <1>8, FS_Union
  <2>2. /\ Cardinality(Rest) \in Nat /\ Cardinality(Rest \cap Mine) \in Nat
        /\ Cardinality(Rest \cup Mine) \in Nat
    BY <1>5, <2>1, FS_Intersection, FS_CardinalityType
  <2>3. m * n \in Nat /\ n * (m + 1) = m * n + n
    <3>1. \A i, j \in Nat : i * j \in Nat /\ j * (i + 1) = i * j + j
      OBVIOUS
    <3>. QED
      BY <3>1
  <2>4. PICK p \in Nat : p = m * n
    BY <2>3
  <2>. QED
    BY <1>2, <1>5, <1>8, <2>1, <2>2, <2>3, <2>4
<1>10. AllSent(ages, keys)' \subseteq Rest \cup Mine
  <2>1. AllSent(ages, keys)'
          = Near(ages, keys)' \cup UNION {Uncommitted(r, ages, keys)' : r \in Senders}
    BY DEF AllSent
  <2>. QED
    BY <1>1, <2>1
<1>11. Cardinality(AllSent(ages, keys)') <= n * Cardinality(Senders)
  <2>. HIDE DEF Rest, Mine
  <2>1. /\ Cardinality(AllSent(ages, keys)') <= Cardinality(Rest \cup Mine)
        /\ Cardinality(AllSent(ages, keys)') \in Nat
    BY <1>6, <1>9, <1>10, SomeNotices, FS_Subset
  <2>2. \A i, j \in Nat : i * j \in Nat
    OBVIOUS
  <2>3. n * Cardinality(Senders) \in Nat
    BY <1>2, <2>2
  <2>. QED
    BY <1>9, <2>1, <2>3
<1>12. Cardinality(Uncommitted(s, ages, keys)') <= n
  <2>. HIDE DEF Mine
  <2>1. Uncommitted(s, ages, keys)' \subseteq Mine
    BY DEF Mine
  <2>2. /\ Cardinality(Uncommitted(s, ages, keys)') <= Cardinality(Mine)
        /\ Cardinality(Uncommitted(s, ages, keys)') \in Nat
    BY <1>6, <1>8, <2>1, SomeNotices, FS_Subset
  <2>. QED
    BY <1>8, <2>2
<1>13. \A r \in Senders : Cardinality(Uncommitted(r, ages, keys)') <= n
  BY <1>12 DEF UnderCap
<1>. QED
  BY <1>11, <1>13 DEF UnderCap

LEMMA OneCapNext ==
    ASSUME NoticeInv, [NoticeNext]_noticeVars, NEW keys \in SUBSET Notices,
           NEW ages \in {{"hour"}, {"hour", "day"}}, NEW n \in Nat, UnderCap(ages, keys, n),
           \A s \in Senders, k \in keys :
                Verdict(s, k) = "pending" => SentSeenBy(s, ages, keys) < n
    PROVE  UnderCap(ages, keys, n)'
<1>. USE DEF noticeHistory, noticeRows
<1>0. NoticeTypeOK /\ OneHolds /\ HeldHasNoRecord /\ PendingIsPosted
  BY DEF NoticeInv
<1>a. ASSUME Near(ages, keys)' \subseteq AllSent(ages, keys),
             \A s \in Senders : Uncommitted(s, ages, keys)' \subseteq Uncommitted(s, ages, keys)
      PROVE  UnderCap(ages, keys, n)'
  BY <1>a, CapShrinks
<1>b. Near(ages, keys) \subseteq AllSent(ages, keys)
  BY DEF AllSent
\* What is undone is in nobody's hands, and was not recorded.
<1>c. ASSUME NEW s \in Senders, Undo(s), NEW step \in {AtRest, [pc |-> "poisoned"]}, Does(s, step)
      PROVE  UnderCap(ages, keys, n)'
  <2>1. /\ \A k \in Notices : flushed'[s][k] = "absent"
        /\ \A r \in Senders \ {s} : flushed'[r] = flushed[r]
        /\ \A k \in Notices :
              sentAge'[k] = IF flushed[s][k] = "sent" THEN "never" ELSE sentAge[k]
        /\ record' = record
    BY <1>0, <1>c, UndoMoves
  <2>2. /\ sender'[s].pc \notin {"insert", "posting"}
        /\ \A r \in Senders \ {s} : sender'[r] = sender[r]
    <3>1. step \in Steps /\ step.pc \notin {"insert", "posting"}
      BY <1>c, RestIsStep
    <3>. QED
      BY <1>0, <1>c, <3>1, StepMoves
  <2>3. \A k \in Notices : sentAge'[k] \in ages => sentAge'[k] = sentAge[k]
    BY <2>1
  <2>4. Near(ages, keys)' \subseteq Near(ages, keys)
    BY <2>1, <2>3 DEF Near
  <2>5. Uncommitted(s, ages, keys)' = {}
    BY <2>1, <2>2 DEF Uncommitted, Posts
  <2>6. ASSUME NEW r \in Senders \ {s}
        PROVE  Uncommitted(r, ages, keys)' \subseteq Uncommitted(r, ages, keys)
    BY <2>1, <2>2, <2>3 DEF Uncommitted, Posts
  <2>. QED
    BY <1>a, <1>b, <2>4, <2>5, <2>6
<1>1. ASSUME NEW k \in Notices, TimePasses(k) PROVE UnderCap(ages, keys, n)'
  <2>1. /\ UNCHANGED <<record, flushed, sender>>
        /\ \A j \in Notices : sentAge'[j] \in ages => sentAge[j] \in ages
    BY <1>0, <1>1 DEF TimePasses, NoticeTypeOK
  <2>2. Near(ages, keys)' \subseteq Near(ages, keys)
    BY <2>1 DEF Near
  <2>3. \A s \in Senders : Uncommitted(s, ages, keys)' \subseteq Uncommitted(s, ages, keys)
    BY <2>1 DEF Uncommitted, Posts
  <2>. QED
    BY <1>a, <1>b, <2>2, <2>3
<1>2. ASSUME NEW s \in Senders, NEW k \in Notices, Decide(s, k) PROVE UnderCap(ages, keys, n)'
  <2>. DEFINE step == [pc |-> "insert", key |-> k, status |-> Verdict(s, k)]
  <2>1. step \in Steps
    BY VerdictType DEF Steps
  <2>2. Does(s, step) /\ UNCHANGED <<record, flushed, sentAge>> /\ sender[s].pc = "idle"
    BY <1>2, RestIsStep DEF Decide
  <2>3. sender'[s] = step /\ \A r \in Senders \ {s} : sender'[r] = sender[r]
    BY <1>0, <2>1, <2>2, StepMoves
  <2>4. Near(ages, keys)' = Near(ages, keys)
    BY <2>2 DEF Near
  <2>5. \A r \in Senders \ {s} : Uncommitted(r, ages, keys)' = Uncommitted(r, ages, keys)
    BY <2>2, <2>3 DEF Uncommitted, Posts
  <2>6. CASE k \in keys /\ Verdict(s, k) = "pending"
    <3>1. Uncommitted(s, ages, keys)' \subseteq Uncommitted(s, ages, keys) \cup {k}
      BY <2>2, <2>3 DEF Uncommitted, Posts
    <3>2. Near(ages, keys) \cup Uncommitted(s, ages, keys)
            = {j \in keys : "sent" \in {record[j], flushed[s][j]} /\ sentAge[j] \in ages}
      BY <2>2 DEF Near, Uncommitted, Posts
    <3>3. Cardinality(Near(ages, keys) \cup Uncommitted(s, ages, keys)) < n
      BY <2>6, <3>2 DEF SentSeenBy
    <3>. QED
      BY <2>4, <2>5, <2>6, <3>1, <3>3, CapTaken
  <2>7. CASE ~(k \in keys /\ Verdict(s, k) = "pending")
    <3>1. Uncommitted(s, ages, keys)' \subseteq Uncommitted(s, ages, keys)
      BY <2>2, <2>3, <2>7 DEF Uncommitted, Posts
    <3>. QED
      BY <1>a, <1>b, <2>4, <2>5, <3>1
  <2>. QED
    BY <2>6, <2>7
<1>3. ASSUME NEW s \in Senders, Insert(s) PROVE UnderCap(ages, keys, n)'
  <2>. DEFINE k == sender[s].key
              status == sender[s].status
              step == IF status = "pending"
                      THEN [pc |-> "posting", key |-> k, attempts |-> 0] ELSE AtRest
  <2>1. /\ sender[s].pc = "insert" /\ k \in Notices /\ status \in Statuses \ {"absent"}
        /\ status # "sent" /\ Flush(s, k, status) /\ Does(s, step)
        /\ UNCHANGED <<record, sentAge>>
    BY <1>0, <1>3, StepTypes DEF Insert, Inserted, Statuses, Records
  <2>2. /\ step \in Steps
        /\ step.pc = "posting" => step.key = k /\ status = "pending"
        /\ step.pc # "insert"
    BY <2>1, RestIsStep, NotificationAssumption DEF Steps
  <2>. HIDE DEF step, status
  <2>3. sender'[s] = step /\ \A r \in Senders \ {s} : sender'[r] = sender[r]
    BY <1>0, <2>1, <2>2, StepMoves
  <2>4. /\ flushed'[s][k] = status
        /\ \A r \in Senders, j \in Notices : r # s \/ j # k => flushed'[r][j] = flushed[r][j]
    BY <1>0, <2>1, FlushMoves
  <2>5. Near(ages, keys)' = Near(ages, keys)
    BY <2>1 DEF Near
  <2>6. \A r \in Senders \ {s} : Uncommitted(r, ages, keys)' = Uncommitted(r, ages, keys)
    BY <2>1, <2>3, <2>4 DEF Uncommitted, Posts
  <2>7. Uncommitted(s, ages, keys)' \subseteq Uncommitted(s, ages, keys)
    BY <2>1, <2>2, <2>3, <2>4 DEF Uncommitted, Posts, status
  <2>. QED
    BY <1>a, <1>b, <2>5, <2>6, <2>7
<1>4. ASSUME NEW s \in Senders, PostMessage(s) PROVE UnderCap(ages, keys, n)'
  <2>. DEFINE k == sender[s].key
              again == [pc |-> "posting", key |-> k, attempts |-> sender[s].attempts + 1]
  <2>1. /\ sender[s].pc = "posting" /\ k \in Notices
        /\ sender[s].attempts \in 0..MaxSendRetries /\ record' = record
    BY <1>0, <1>4, StepTypes DEF PostMessage
  <2>2. PICK status \in {"sent", "pending", "failed"}, step \in {again, AtRest} :
          /\ Flush(s, k, status) /\ Does(s, step)
          /\ \A j \in Notices \ {k} : sentAge'[j] = sentAge[j]
          /\ step = again => sender[s].attempts + 1 <= MaxSendRetries
    <3>1. PICK sent, more \in BOOLEAN :
            /\ sentAge' = IF sent THEN [sentAge EXCEPT ![k] = "hour"] ELSE sentAge
            /\ Flush(s, k, IF sent THEN "sent" ELSE IF more THEN "pending" ELSE "failed")
            /\ Does(s, IF more THEN again ELSE AtRest)
            /\ more => sender[s].attempts + 1 <= MaxSendRetries
      <4>1. PICK reaches, answered, retryable \in BOOLEAN :
              LET sent == reaches /\ answered
                  more == ~sent /\ retryable /\ sender[s].attempts + 1 <= MaxSendRetries
              IN  /\ sentAge' = IF sent THEN [sentAge EXCEPT ![k] = "hour"] ELSE sentAge
                  /\ Flush(s, k, IF sent THEN "sent" ELSE IF more THEN "pending" ELSE "failed")
                  /\ Does(s, IF more THEN again ELSE AtRest)
        BY <1>4 DEF PostMessage
      <4>. DEFINE sent == reaches /\ answered
                  more == ~sent /\ retryable /\ sender[s].attempts + 1 <= MaxSendRetries
      <4>2. sent \in BOOLEAN /\ more \in BOOLEAN
        OBVIOUS
      <4>. QED
        BY <4>1, <4>2
    <3>2. \A j \in Notices \ {k} : sentAge'[j] = sentAge[j]
      BY <1>0, <3>1 DEF NoticeTypeOK
    <3>3. again # AtRest
      BY RestIsStep
    <3>. QED
      BY <3>1, <3>2, <3>3
  <2>3. step \in Steps /\ (step.pc = "posting" => step.key = k) /\ step.pc # "insert"
    <3>1. sender[s].attempts + 1 <= MaxSendRetries
            => sender[s].attempts + 1 \in 0..MaxSendRetries
      BY <2>1, NotificationAssumption
    <3>. QED
      BY <2>1, <2>2, <3>1, RestIsStep DEF Steps
  <2>4. sender'[s] = step /\ \A r \in Senders \ {s} : sender'[r] = sender[r]
    BY <1>0, <2>2, <2>3, StepMoves
  <2>5. \A r \in Senders, j \in Notices : r # s \/ j # k => flushed'[r][j] = flushed[r][j]
    <3>1. status \in Statuses
      BY DEF Statuses, Records
    <3>. QED
      BY <1>0, <2>1, <2>2, <3>1, FlushMoves
  <2>6. flushed[s][k] = "pending"
    BY <1>0, <2>1 DEF PendingIsPosted, Posts
  <2>7. record[k] = "absent" /\ \A r \in Senders \ {s} : flushed[r][k] = "absent"
    BY <1>0, <2>1, <2>6 DEF HeldHasNoRecord, OneHolds, Holds
  <2>8. Near(ages, keys)' \subseteq Near(ages, keys)
    BY <2>1, <2>2, <2>7 DEF Near
  <2>9. \A r \in Senders \ {s} : Uncommitted(r, ages, keys)' \subseteq Uncommitted(r, ages, keys)
    BY <2>1, <2>2, <2>4, <2>5, <2>7 DEF Uncommitted, Posts
  <2>10. Uncommitted(s, ages, keys)' \subseteq Uncommitted(s, ages, keys)
    <3>. HIDE DEF again
    <3>. QED
      BY <2>1, <2>2, <2>3, <2>4, <2>5 DEF Uncommitted, Posts
  <2>. QED
    BY <1>a, <1>b, <2>8, <2>9, <2>10
<1>5. ASSUME NEW s \in Senders, CommitNotices(s) PROVE UnderCap(ages, keys, n)'
  <2>1. /\ \A k \in Notices : flushed'[s][k] = "absent"
        /\ \A r \in Senders \ {s} : flushed'[r] = flushed[r]
        /\ UNCHANGED <<sentAge, sender>> /\ sender[s].pc = "idle"
        /\ \A k \in Notices : record'[k] = IF Holds(s, k) THEN flushed[s][k] ELSE record[k]
    BY <1>0, <1>5, EmptiesMoves, RestIsStep DEF CommitNotices
  <2>2. Near(ages, keys)' \subseteq Near(ages, keys) \cup Uncommitted(s, ages, keys)
    BY <2>1 DEF Near, Uncommitted
  <2>3. Near(ages, keys) \cup Uncommitted(s, ages, keys) \subseteq AllSent(ages, keys)
    BY DEF AllSent
  <2>4. \A r \in Senders : Uncommitted(r, ages, keys)' \subseteq Uncommitted(r, ages, keys)
    BY <2>1 DEF Uncommitted, Posts
  <2>. QED
    BY <1>a, <2>2, <2>3, <2>4
<1>6. ASSUME NEW s \in Senders, KeyTaken(s) PROVE UnderCap(ages, keys, n)'
  BY <1>6, <1>c DEF KeyTaken
<1>7. ASSUME NEW s \in Senders, RollBackNotices(s) PROVE UnderCap(ages, keys, n)'
  BY <1>7, <1>c DEF RollBackNotices
<1>8. CASE UNCHANGED noticeVars
  BY <1>8, <1>a, <1>b DEF noticeVars, Near, Uncommitted, Posts
<1>. QED
  BY <1>1, <1>2, <1>3, <1>4, <1>5, <1>6, <1>7, <1>8 DEF NoticeNext

LEMMA NoticeCapsNext == NoticeInv /\ NoticeCapInv /\ [NoticeNext]_noticeVars => NoticeCapInv'
<1>. SUFFICES ASSUME NoticeInv, NoticeCapInv, [NoticeNext]_noticeVars PROVE NoticeCapInv'
  OBVIOUS
<1>0. /\ InfoNotices \in SUBSET Notices /\ Notices \in SUBSET Notices
      /\ MaxPerHour \in Nat /\ MaxInfoPerDay \in Nat
  BY NotificationAssumption
<1>1. ASSUME NEW s \in Senders, NEW ages, NEW keys \in SUBSET Notices
      PROVE  SentSeenBy(s, ages, keys) \in Nat
  BY <1>1, SomeNotices DEF SentSeenBy
<1>2. \A s \in Senders, k \in Notices :
          Verdict(s, k) = "pending" => SentSeenBy(s, {"hour"}, Notices) < MaxPerHour
  BY <1>0, <1>1 DEF Verdict
<1>3. \A s \in Senders, k \in InfoNotices :
          Verdict(s, k) = "pending" => SentSeenBy(s, {"hour", "day"}, InfoNotices) < MaxInfoPerDay
  BY <1>0, <1>1 DEF Verdict
<1>4. {"hour"} \in {{"hour"}, {"hour", "day"}} /\ {"hour", "day"} \in {{"hour"}, {"hour", "day"}}
  OBVIOUS
<1>5. UnderCap({"hour"}, Notices, MaxPerHour)'
  BY <1>0, <1>2, <1>4, OneCapNext DEF NoticeCapInv
<1>6. UnderCap({"hour", "day"}, InfoNotices, MaxInfoPerDay)'
  BY <1>0, <1>3, <1>4, OneCapNext DEF NoticeCapInv
<1>. QED
  BY <1>5, <1>6 DEF NoticeCapInv

LEMMA NoticeCapsInit == NoticeInit => NoticeCapInv
<1>. SUFFICES ASSUME NoticeInit PROVE NoticeCapInv
  OBVIOUS
<1>1. ASSUME NEW keys \in SUBSET Notices, NEW ages, NEW n \in Nat PROVE UnderCap(ages, keys, n)
  <2>1. \A s \in Senders : sender[s].pc = "idle" /\ \A k \in Notices : flushed[s][k] = "absent"
    BY RestIsStep, NothingIsFlushed DEF NoticeInit
  <2>2. \A k \in Notices : record[k] = "absent"
    BY NothingIsFlushed DEF NoticeInit
  <2>3. \A s \in Senders : Uncommitted(s, ages, keys) = {}
    BY <2>1 DEF Uncommitted, Posts
  <2>4. AllSent(ages, keys) = {}
    BY <2>2, <2>3 DEF AllSent, Near
  <2>5. PICK m \in Nat : Cardinality(Senders) = m + 1
    BY SendersCount
  <2>6. n * (m + 1) >= 0
    <3>1. \A i, j \in Nat : i * (j + 1) >= 0
      OBVIOUS
    <3>. QED
      BY <3>1
  <2>. QED
    BY <2>3, <2>4, <2>5, <2>6, FS_EmptySet DEF UnderCap
<1>. QED
  BY <1>1, NotificationAssumption DEF NoticeCapInv

\* NoticeCapsOvershootBounded: sessions that each count the committed notices and their
\* own, and send any number before they commit, pass each cap to a cap each at most
\* (_count_sent_since, notify, the error monitor's ten before one commit).
THEOREM NoticeCapsOvershoot == NoticeSpec => []NoticeCapsOvershootBounded
<1>1. NoticeSpec => []NoticeCapInv
  BY NoticeInitInv, NoticeNextInv, NoticeCapsInit, NoticeCapsNext, PTL DEF NoticeSpec
<1>2. ASSUME NEW ages, NEW keys \in SUBSET Notices, NEW n \in Nat, UnderCap(ages, keys, n)
      PROVE  SentWithin(ages, keys) <= n * Cardinality(Senders)
  <2>1. AllSent(ages, keys) \subseteq keys /\ Near(ages, keys) \subseteq AllSent(ages, keys)
    BY DEF AllSent, Near, Uncommitted
  <2>2. /\ Cardinality(Near(ages, keys)) <= Cardinality(AllSent(ages, keys))
        /\ Cardinality(Near(ages, keys)) \in Nat /\ Cardinality(AllSent(ages, keys)) \in Nat
    <3>1. IsFiniteSet(AllSent(ages, keys))
      BY <2>1, SomeNotices
    <3>. QED
      BY <2>1, <3>1, SomeNotices, FS_Subset
  <2>3. SentWithin(ages, keys) = Cardinality(Near(ages, keys))
    BY DEF SentWithin, Near
  <2>4. PICK m \in Nat : Cardinality(Senders) = m + 1
    BY SendersCount
  <2>5. n * Cardinality(Senders) \in Nat
    <3>1. \A i, j \in Nat : i * j \in Nat
      OBVIOUS
    <3>. QED
      BY <2>4, <3>1
  <2>. QED
    BY <1>2, <2>2, <2>3, <2>5 DEF UnderCap
<1>3. NoticeCapInv => NoticeCapsOvershootBounded
  BY <1>2, NotificationAssumption DEF NoticeCapInv, NoticeCapsOvershootBounded
<1>. QED
  BY <1>1, <1>3, PTL
=============================================================================
