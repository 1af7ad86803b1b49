---------------------------- MODULE Notifications ----------------------------
(***************************************************************************)
(* Messages to the owner (services/notification_service.py) through        *)
(* Telegram (providers/notification/telegram_provider.py).                 *)
(*                                                                         *)
(* A notification is sent in its caller's transaction: its record is       *)
(* flushed before the message is posted, again with what became of it, and *)
(* committed or rolled back with whatever else the caller was doing, which *)
(* may be further notifications (the error monitor sends ten before it     *)
(* commits).  Until then the session alone sees its records; the others    *)
(* feel only their unique keys.                                            *)
(***************************************************************************)
EXTENDS Naturals, FiniteSets

CONSTANTS
    Notices,        \* idempotency keys
    InfoNotices,    \* those of priority INFO; the others are IMPORTANT or more
    Senders,        \* database sessions
    MaxPerHour,     \* settings.notification_max_per_hour
    MaxInfoPerDay,  \* settings.notification_max_info_per_day
    MaxSendRetries, \* settings.telegram_max_retries
    MaxPosted       \* bound: no more than this many messages are posted per key

ASSUME NotificationAssumption ==
    /\ IsFiniteSet(Notices) /\ IsFiniteSet(Senders) /\ Senders # {}
    /\ InfoNotices \subseteq Notices
    /\ {MaxPerHour, MaxInfoPerDay, MaxSendRetries, MaxPosted} \subseteq Nat

VARIABLES
    skipInfo,   \* settings.notification_min_priority is above INFO
    record,     \* the committed record of each key
    flushed,    \* each session's record of each key, flushed and not committed
    sentAge,    \* how long ago a sent one was sent: within the hour, the day, or longer
    sender,     \* what each session is doing
    \* history
    delivered,  \* messages of each key that reached the owner
    undone      \* of those, how many left no record: answer lost, or rolled back

noticeHistory == <<delivered, undone>>
noticeRows    == <<skipInfo, record, flushed, sentAge>>
noticeVars    == <<noticeRows, sender, noticeHistory>>

AtRest == [pc |-> "idle"]

NothingFlushed == [k \in Notices |-> "absent"]

\* What _count_sent_since counts in a session: committed records and its own.
SentSeenBy(s, ages, keys) ==
    Cardinality({k \in keys : "sent" \in {record[k], flushed[s][k]} /\ sentAge[k] \in ages})

VerdictOneMore(s, k) ==
    IF k \in InfoNotices /\ skipInfo THEN "skipped"
    ELSE IF SentSeenBy(s, {"hour"}, Notices) > MaxPerHour THEN "rate_limited"
    ELSE IF k \in InfoNotices
            /\ SentSeenBy(s, {"hour", "day"}, InfoNotices) >= MaxInfoPerDay THEN "rate_limited"
    ELSE "pending"

VerdictOneMoreInfo(s, k) ==
    IF k \in InfoNotices /\ skipInfo THEN "skipped"
    ELSE IF SentSeenBy(s, {"hour"}, Notices) >= MaxPerHour THEN "rate_limited"
    ELSE IF k \in InfoNotices
            /\ SentSeenBy(s, {"hour", "day"}, InfoNotices) > MaxInfoPerDay THEN "rate_limited"
    ELSE "pending"

\* What notify decides on before it inserts: the priority, then the caps.
Verdict(s, k) ==
    IF k \in InfoNotices /\ skipInfo THEN "skipped"
    ELSE IF SentSeenBy(s, {"hour"}, Notices) >= MaxPerHour THEN "rate_limited"
    ELSE IF k \in InfoNotices
            /\ SentSeenBy(s, {"hour", "day"}, InfoNotices) >= MaxInfoPerDay THEN "rate_limited"
    ELSE "pending"

\* The unique key of a flushed record makes the inserts of others wait.
Holds(s, k) == flushed[s][k] # "absent"

----------------------------------------------------------------------------
NoticeInit ==
    /\ skipInfo \in BOOLEAN
    /\ record = NothingFlushed
    /\ flushed = [s \in Senders |-> NothingFlushed]
    /\ sentAge = [k \in Notices |-> "never"]
    /\ sender = [s \in Senders |-> AtRest]
    /\ delivered = [k \in Notices |-> 0]
    /\ undone = [k \in Notices |-> 0]

Does(s, step) == sender' = [sender EXCEPT ![s] = step]

Flush(s, k, status) == flushed' = [flushed EXCEPT ![s][k] = status]

\* A sent record leaves the last hour, then the last day.
TimePasses(k) ==
    /\ sentAge[k] \in {"hour", "day"}
    /\ sentAge' = [sentAge EXCEPT ![k] = IF @ = "hour" THEN "day" ELSE "old"]
    /\ UNCHANGED <<skipInfo, record, flushed, sender, noticeHistory>>

Recorded(k) == record[k] # "absent"

\* notify finds no record of the key.  (One that it finds, its own or committed, is
\* returned whatever became of it: no change.)
Decide(s, k) ==
    /\ sender[s] = AtRest
    /\ ~Recorded(k) /\ ~Holds(s, k)
    /\ Does(s, [pc |-> "insert", key |-> k, status |-> Verdict(s, k)])
    /\ UNCHANGED <<noticeRows, noticeHistory>>

\* The record is flushed, and posted next unless it is skipped or over a cap.
Inserted(s) ==
    /\ Flush(s, sender[s].key, sender[s].status)
    /\ Does(s, IF sender[s].status = "pending"
               THEN [pc |-> "posting", key |-> sender[s].key, attempts |-> 0]
               ELSE AtRest)
    /\ UNCHANGED <<skipInfo, record, sentAge, noticeHistory>>

InsertUnkeyed(s) ==
    /\ sender[s].pc = "insert"
    /\ Inserted(s)

Insert(s) ==
    /\ sender[s].pc = "insert"
    /\ ~Recorded(sender[s].key)
    /\ \A other \in Senders : ~Holds(other, sender[s].key)
    /\ Inserted(s)

\* The session's records go, the messages that were sent for them do not.
Undo(s) ==
    /\ undone' = [k \in Notices |-> undone[k] + (IF flushed[s][k] = "sent" THEN 1 ELSE 0)]
    /\ sentAge' = [k \in Notices |-> IF flushed[s][k] = "sent" THEN "never" ELSE sentAge[k]]
    /\ flushed' = [flushed EXCEPT ![s] = NothingFlushed]
    /\ UNCHANGED <<skipInfo, record, delivered>>

\* The key was committed meanwhile, which undoes the transaction of the insert.
\* try_notify swallows the error, and its caller can only roll back.
KeyTaken(s) ==
    /\ sender[s].pc = "insert"
    /\ Recorded(sender[s].key)
    /\ Undo(s)
    /\ Does(s, [pc |-> "poisoned"])

\* One try of the provider: the message may reach the owner and its answer be lost.  A
\* rate limit, a server error, a timeout and a broken connection are tried again.
PostMessage(s) ==
    /\ sender[s].pc = "posting"
    /\ delivered[sender[s].key] < MaxPosted
    /\ \E reaches, answered, retryable \in BOOLEAN :
        LET k == sender[s].key
            attempts == sender[s].attempts + 1
            sent == reaches /\ answered
            again == ~sent /\ retryable /\ attempts <= MaxSendRetries
        IN  /\ delivered' = [delivered EXCEPT ![k] = @ + (IF reaches THEN 1 ELSE 0)]
            /\ undone' = [undone EXCEPT ![k] = @ + (IF reaches /\ ~answered THEN 1 ELSE 0)]
            /\ sentAge' = IF sent THEN [sentAge EXCEPT ![k] = "hour"] ELSE sentAge
            /\ Flush(s, k, IF sent THEN "sent" ELSE IF again THEN "pending" ELSE "failed")
            /\ Does(s, IF again THEN [pc |-> "posting", key |-> k, attempts |-> attempts]
                                ELSE AtRest)
    /\ UNCHANGED <<skipInfo, record>>

\* notify commits, or its caller does, all that the session has flushed.
CommitNotices(s) ==
    /\ sender[s] = AtRest
    /\ flushed[s] # NothingFlushed
    /\ record' = [k \in Notices |-> IF Holds(s, k) THEN flushed[s][k] ELSE record[k]]
    /\ flushed' = [flushed EXCEPT ![s] = NothingFlushed]
    /\ UNCHANGED <<skipInfo, sentAge, sender, noticeHistory>>

\* The caller fails, or the process dies.
RollBackNotices(s) ==
    /\ sender[s] # AtRest \/ flushed[s] # NothingFlushed
    /\ Undo(s)
    /\ Does(s, AtRest)

NoticeNext ==
    \/ \E k \in Notices : TimePasses(k)
    \/ \E s \in Senders :
        \/ \E k \in Notices : Decide(s, k)
        \/ Insert(s)
        \/ KeyTaken(s)
        \/ PostMessage(s)
        \/ CommitNotices(s)
        \/ RollBackNotices(s)

NoticeSpec == NoticeInit /\ [][NoticeNext]_noticeVars

----------------------------------------------------------------------------
(* Properties.                                                             *)

\* What the record of a key can be; while it is pending it is never committed.
Records == {"absent", "sent", "failed", "rate_limited", "skipped"}

Steps ==
    [pc : {"idle", "poisoned"}]
    \cup [pc : {"insert"}, key : Notices, status : {"pending", "rate_limited", "skipped"}]
    \cup [pc : {"posting"}, key : Notices, attempts : 0..MaxSendRetries]

\* Every variable of the notifications holds a value of its type.
NoticeTypeOK ==
    /\ skipInfo \in BOOLEAN
    /\ record \in [Notices -> Records]
    /\ flushed \in [Senders -> [Notices -> Records \cup {"pending"}]]
    /\ sentAge \in [Notices -> {"never", "hour", "day", "old"}]
    /\ sender \in [Senders -> Steps]
    /\ delivered \in [Notices -> Nat]
    /\ undone \in [Notices -> Nat]

\* The owner gets a notice once more only for each time an answer was lost or the
\* caller rolled back after the message had gone: races of sessions add nothing, and a
\* record that says sent has its own delivery.
NoticedAgainOnlyIfUndone ==
    \A k \in Notices :
        /\ delivered[k] <= undone[k] + 1
        /\ record[k] = "sent" => delivered[k] = undone[k] + 1

SentWithin(ages, keys) ==
    Cardinality({k \in keys : record[k] = "sent" /\ sentAge[k] \in ages})

\* A session counts committed records and its own, and may send a whole cap of notices
\* before it commits: so sessions that notify at once pass each cap, and record at most
\* a cap each, however they interleave, retry, commit and roll back.
NoticeCapsOvershootBounded ==
    /\ SentWithin({"hour"}, Notices) <= MaxPerHour * Cardinality(Senders)
    /\ SentWithin({"hour", "day"}, InfoNotices) <= MaxInfoPerDay * Cardinality(Senders)
=============================================================================
