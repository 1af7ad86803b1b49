------------------------------- MODULE MCCaps -------------------------------
(***************************************************************************)
(* The caps that are counted over rows: of outbound mail and of notices,   *)
(* one kind at a time.  There is always one more to send than concurrent   *)
(* sessions may: of a day, of its first contacts, for a lead; of an hour,  *)
(* of information.                                                         *)
(***************************************************************************)
EXTENDS OutboundEmail, Notifications, TLC

CONSTANTS s1, s2, o1, o2, o3, o4, o5, o6, x1, x2, x3, u1, u2, u3, u4, u5

TwoSessions   == {s1, s2}
SixOutreaches == {o1, o2, o3, o4, o5, o6}
FourForOne    == [o \in SixOutreaches |-> IF o \in {o5, o6} THEN "lead2" ELSE "lead1"]
ThreeNews     == {x1, x2, x3}
FiveAlarms    == {u1, u2, u3, u4, u5}
NewsAndAlarms == ThreeNews \cup FiveAlarms

MCSymmetry == Permutations(TwoSessions)

VARIABLE subject \* the kind of messages that are sent

----------------------------------------------------------------------------
\* All outreaches are approved, as requests and answers leave them.
EmailsReady ==
    /\ outbound = TRUE
    /\ outreach = [o \in Outreaches |-> "pending_approval"]
    /\ approval = [o \in Outreaches |-> <<"approved">>]
    /\ ledger = [o \in Outreaches |-> "absent"]
    /\ followup = {}
    /\ worker = [w \in Workers |-> Idle]
    /\ accepted = {}
    /\ mailed = [o \in Outreaches |-> 0]
    /\ sends = [o \in Outreaches |-> 0]
    /\ lost = {}
    /\ approved = Outreaches

\* The notices of one priority have failed, as refusals of the provider leave them.
NoticesReady(left) ==
    /\ skipInfo \in BOOLEAN
    /\ record = [k \in Notices |-> IF k \in left THEN "absent" ELSE "failed"]
    /\ flushed = [s \in Senders |-> NothingFlushed]
    /\ sentAge = [k \in Notices |-> "never"]
    /\ sender = [s \in Senders |-> AtRest]
    /\ delivered = [k \in Notices |-> 0]
    /\ undone = [k \in Notices |-> 0]

CapsInit ==
    /\ subject \in {"email", "news", "alarms"}
    /\ EmailsReady
    /\ NoticesReady(IF subject = "news" THEN InfoNotices ELSE Notices \ InfoNotices)
    /\ subject = "news" \/ ~skipInfo

CapsNext ==
    \/ subject = "email" /\ Next /\ UNCHANGED <<subject, noticeVars>>
    \/ subject # "email" /\ NoticeNext /\ UNCHANGED <<subject, vars>>

CapsVars == <<subject, vars, noticeVars>>

CapsSpec == CapsInit /\ [][CapsNext]_CapsVars

----------------------------------------------------------------------------
(* What the steps and the caps depend on, for fewer states: rows count by  *)
(* what is in them, whichever they are.                                    *)

Essence(status) == IF status \in {"failed", "rate_limited", "skipped"} THEN "over" ELSE status

\* A record that is not sent is as good as any other, whatever kept it from being sent,
\* and so is one sent too long ago to count.
Counts(k) == IF sentAge[k] = "hour" \/ (sentAge[k] = "day" /\ k \in InfoNotices)
             THEN sentAge[k]
             ELSE "out"

NoticeRow(k) ==
    <<k \in InfoNotices, Counts(k), delivered[k],
      IF Recorded(k) THEN IF Counts(k) = "out" THEN "over" ELSE Essence(record[k]) ELSE "new",
      [s \in Senders |->
        <<Essence(flushed[s][k]),
          IF sender[s].pc \in {"insert", "posting"} /\ sender[s].key = k
          THEN [sender[s] EXCEPT !.key = "this"]
          ELSE [pc |-> IF sender[s].pc = "poisoned" THEN "poisoned" ELSE "elsewhere"]>>]>>

EmailRow(o) ==
    <<LeadOf[o], outreach[o], approval[o], ledger[o], o \in followup,
      [w \in Workers |->
        IF worker[w] # Idle /\ worker[w].of = o THEN [worker[w] EXCEPT !.of = "this"] ELSE Idle]>>

HowMany(keys, row(_)) ==
    LET rows_ == [k \in keys |-> row(k)]
    IN  [r \in {rows_[k] : k \in keys} |-> Cardinality({k \in keys : rows_[k] = r})]

MCView ==
    <<subject, outbound, skipInfo,
      IF subject = "email" THEN HowMany(Outreaches, EmailRow) ELSE HowMany(Notices, NoticeRow)>>
=============================================================================
