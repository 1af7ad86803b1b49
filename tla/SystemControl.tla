--------------------------- MODULE SystemControl ---------------------------
(***************************************************************************)
(* The singleton row of owner controls (owner/controls.py) and the owner   *)
(* requests that change it concurrently.                                   *)
(*                                                                         *)
(* A request runs in a database session of its own: it loads the row,      *)
(* changes the loaded object and commits.  No row is locked and there is   *)
(* no version column, and the commit writes only the columns whose value   *)
(* differs from what was loaded (Flush), so requests can lose updates.     *)
(***************************************************************************)
CONSTANTS
    Sessions,     \* database sessions of owner requests
    Toggled       \* the controls that owners switch one at a time

Controls == {"ai_operations", "outbound", "spending", "browser_automation"}
Modes    == {"normal", "safe_mode", "paused_by_owner"}

ASSUME ToggledAssumption == Toggled \subseteq Controls

VARIABLES
    row,      \* the committed row: its mode and the set of enabled controls
    session,  \* what each owner request is doing, with the row it loaded
    \* history, read by no action of the system
    held      \* the holds in force: see Holds

vars == <<row, session, held>>

Row == [mode : Modes, on : SUBSET Controls]

Idle == [pc |-> "idle"]

Requests ==
    [op : {"pause_all", "enter_safe_mode", "clear_safe_mode"}]
        \cup [op : {"set_control"}, control : Toggled, enabled : BOOLEAN]

----------------------------------------------------------------------------
(* What each request does to the row object it loaded.                     *)

PauseAll(r) == [mode |-> "paused_by_owner", on |-> {}]

\* Enabling AI is the one switch that also leaves the pause.
SetControl(r, c, enabled) ==
    [mode |-> IF /\ c = "ai_operations"
                 /\ enabled
                 /\ r.mode = "paused_by_owner"
              THEN "normal"
              ELSE r.mode,
     on   |-> IF enabled THEN r.on \cup {c} ELSE r.on \ {c}]

EnterSafeModeSwitchesOnly(r) == [mode |-> r.mode, on |-> r.on \ {"outbound", "spending"}]

EnterSafeMode(r) ==
    [mode |-> IF r.mode = "paused_by_owner" THEN r.mode ELSE "safe_mode",
     on   |-> r.on \ {"outbound", "spending"}]

ClearSafeMode(r) == [mode |-> "normal", on |-> r.on \cup {"outbound", "spending"}]

Applied(q, r) ==
    CASE q.op = "pause_all"       -> PauseAll(r)
      [] q.op = "enter_safe_mode" -> EnterSafeMode(r)
      [] q.op = "clear_safe_mode" -> ClearSafeMode(r)
      [] q.op = "set_control"     -> SetControl(r, q.control, q.enabled)

\* What a request refuses on the row it loaded: clear_safe_mode under a pause,
\* and the endpoints that resume outbound or spending under Safe Mode.
Refused(q, r) ==
    \/ q.op = "clear_safe_mode" /\ r.mode = "paused_by_owner"
    \/ /\ q.op = "set_control"
       /\ q.enabled
       /\ q.control \in {"outbound", "spending"}
       /\ r.mode = "safe_mode"

\* Write every column, as a driver without change tracking would.
FlushAll(db, loaded, new) == new

\* The flush of a changed object writes the columns whose value differs from the
\* loaded one, and leaves the others as they are in the database.
Flush(db, loaded, new) ==
    [mode |-> IF new.mode = loaded.mode THEN db.mode ELSE new.mode,
     on   |-> (db.on \ (loaded.on \ new.on)) \cup (new.on \ loaded.on)]

----------------------------------------------------------------------------
(* The checks governed code makes.                                         *)

AiAllowed(r) == r.mode # "paused_by_owner" /\ "ai_operations" \in r.on

SwitchAllowedByMode(r, c) == r.mode # "safe_mode"

\* The second read: Safe Mode denies outbound and spending whatever the switch.
SwitchAllowed(r, c) ==
    /\ c \in r.on
    /\ c \in {"outbound", "spending"} => r.mode # "safe_mode"

Governed == {"outbound", "spending", "browser_automation"}

----------------------------------------------------------------------------
(* History.  A hold is a control an owner request switched off, or Safe     *)
(* Mode itself, while no request that releases it was under way; it lasts   *)
(* until such a request is made.                                            *)

Holds == Controls \cup {"safe_mode"}

Releases(q, h) ==
    \/ q.op = "clear_safe_mode" /\ h \in {"outbound", "spending", "safe_mode"}
    \/ q.op = "set_control" /\ q.enabled /\ q.control = h
    \/ /\ q.op = "set_control" /\ q.enabled
       /\ q.control = "ai_operations" /\ h = "safe_mode"

Takes(q, h) ==
    \/ q.op = "pause_all" /\ h \in Controls
    \/ q.op = "enter_safe_mode" /\ h \in {"outbound", "spending", "safe_mode"}
    \/ q.op = "set_control" /\ ~q.enabled /\ q.control = h

Unreleased(H, q) == {h \in H : ~Releases(q, h)}

Active(s) == session[s].pc = "loaded"

\* The holds that no request under way other than s tries to release.
CleanFor(s) ==
    {h \in Holds : \A u \in Sessions \ {s} : Active(u) => ~Releases(session[u].request, h)}

----------------------------------------------------------------------------
Init ==
    /\ row = [mode |-> "normal", on |-> Controls]
    /\ session = [s \in Sessions |-> Idle]
    /\ held = {}

\* A request loads the row.  Its "clean" field is history: the holds no request
\* overlapping this one tries to release.
Load(s, q) ==
    /\ session[s] = Idle
    /\ ~Refused(q, row)
    /\ session' =
        [t \in Sessions |->
            IF t = s
            THEN [pc |-> "loaded", request |-> q, loaded |-> row, clean |-> CleanFor(s)]
            ELSE IF Active(t)
                 THEN [session[t] EXCEPT !.clean = Unreleased(@, q)]
                 ELSE session[t]]
    /\ held' = Unreleased(held, q)
    /\ UNCHANGED row

\* The request changes its object and commits.
Commit(s) ==
    /\ Active(s)
    /\ LET q == session[s].request
           loaded == session[s].loaded
       IN  /\ row' = Flush(row, loaded, Applied(q, loaded))
           /\ held' = held \cup {h \in session[s].clean : Takes(q, h)}
    /\ session' = [session EXCEPT ![s] = Idle]

\* The request's process dies, or the commit fails: the row is as it was.
Abandon(s) ==
    /\ Active(s)
    /\ session' = [session EXCEPT ![s] = Idle]
    /\ UNCHANGED <<row, held>>

Next ==
    \/ \E s \in Sessions, q \in Requests : Load(s, q)
    \/ \E s \in Sessions : Commit(s) \/ Abandon(s)

Spec == Init /\ [][Next]_vars

----------------------------------------------------------------------------
(* Properties.                                                             *)

SessionState ==
    {Idle} \cup [pc : {"loaded"}, request : Requests, loaded : Row, clean : SUBSET Holds]

\* Every variable holds a value of its type.
TypeOK ==
    /\ row \in Row
    /\ session \in [Sessions -> SessionState]
    /\ held \subseteq Holds

\* A control switched off (by pause-all, Safe Mode or its own switch) while no
\* request was trying to switch it on stays off, whatever concurrent requests
\* overwrite, until a request that switches it on is made.  For the AI switch
\* this is what keeps a pause of all operations effective although a Safe Mode
\* request that loaded the row before the pause overwrites the pause mode itself.
HeldStaysOff == held \cap row.on = {}

\* Safe Mode entered while nobody was clearing it or resuming AI denies outbound
\* and spending until somebody does, even when a resume-outbound request that
\* read the row before Safe Mode switches outbound back on under it.
SafeModeHolds ==
    "safe_mode" \in held =>
        \A c \in {"outbound", "spending"} : ~(AiAllowed(row) /\ SwitchAllowed(row, c))
=============================================================================
