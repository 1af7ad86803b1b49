------------------------ MODULE SystemControlProofs ------------------------
(***************************************************************************)
(* Proofs about the owner's controls: whatever sessions there are and      *)
(* whichever controls are switched one at a time, what was switched off    *)
(* stays off, and Safe Mode keeps denying, until a request releases it.    *)
(*                                                                         *)
(* The argument: only a request that releases a hold can undo it, because  *)
(* a commit writes only what it changed; a hold in force has no releasing  *)
(* request under way; and a hold is taken only by a request none overlaps  *)
(* that releases it, so what that request read about it is still true.     *)
(***************************************************************************)
EXTENDS GovernedWork, TLAPS

\* A hold in force has no request under way that releases it.
HeldUnreleased ==
    \A s \in Sessions, h \in Holds :
        Active(s) /\ Releases(session[s].request, h) => h \notin held

\* What a request may take is released by no other request under way.
CleanUnreleased ==
    \A s, t \in Sessions, h \in Holds :
        s # t /\ Active(s) /\ Active(t) /\ h \in session[s].clean
            => ~Releases(session[t].request, h)

\* What a request may take, and found off, is still off.
CleanStillOff ==
    \A s \in Sessions, c \in Controls :
        Active(s) /\ c \in session[s].clean /\ c \in row.on
            => c \in session[s].loaded.on

\* The posture is as restrictive as Safe Mode.
Guarded(r) == r.mode \in {"safe_mode", "paused_by_owner"}

\* A guarded posture that a request may rely on is still guarded.
CleanStillGuarded ==
    \A s \in Sessions :
        Active(s) /\ "safe_mode" \in session[s].clean /\ Guarded(session[s].loaded)
            => Guarded(row)

HeldGuarded == "safe_mode" \in held => Guarded(row)

IInv ==
    /\ TypeOK
    /\ HeldStaysOff
    /\ HeldGuarded
    /\ HeldUnreleased
    /\ CleanUnreleased
    /\ CleanStillOff
    /\ CleanStillGuarded

----------------------------------------------------------------------------
(* What a request makes of the row it loaded.                              *)

\* A request makes a row of a row.
LEMMA AppliedType ==
    ASSUME NEW q \in Requests, NEW r \in Row
    PROVE  Applied(q, r) \in Row
<1>1. CASE q.op = "pause_all"
  BY <1>1 DEF Applied, PauseAll, Row, Modes, Requests
<1>2. CASE q.op = "enter_safe_mode"
  BY <1>2 DEF Applied, EnterSafeMode, Row, Modes, Requests
<1>3. CASE q.op = "clear_safe_mode"
  BY <1>3 DEF Applied, ClearSafeMode, Row, Modes, Requests, Controls
<1>4. CASE q.op = "set_control"
  <2>1. q.control \in Controls
    BY <1>4, ToggledAssumption DEF Requests
  <2>2. SetControl(r, q.control, q.enabled) \in Row
    BY <2>1 DEF SetControl, Row, Modes
  <2>. QED
    BY <1>4, <2>2 DEF Applied
<1>. QED
  BY <1>1, <1>2, <1>3, <1>4 DEF Requests

\* Only a request that releases a control switches it on.
LEMMA TurnsOn ==
    ASSUME NEW q \in Requests, NEW r \in Row, NEW c,
           c \in Applied(q, r).on, c \notin r.on
    PROVE  Releases(q, c)
<1>1. q.op # "pause_all"
  BY DEF Applied, PauseAll
<1>2. q.op # "enter_safe_mode"
  BY DEF Applied, EnterSafeMode
<1>3. CASE q.op = "clear_safe_mode"
  BY <1>3 DEF Applied, ClearSafeMode, Releases
<1>4. CASE q.op = "set_control"
  <2>1. Applied(q, r).on = IF q.enabled THEN r.on \cup {q.control} ELSE r.on \ {q.control}
    BY <1>4 DEF Applied, SetControl
  <2>2. q.enabled /\ c = q.control
    BY <2>1
  <2>. QED
    BY <1>4, <2>2 DEF Releases
<1>. QED
  BY <1>1, <1>2, <1>3, <1>4 DEF Requests

\* Only a request that releases Safe Mode leaves a guarded posture.
LEMMA LeavesGuard ==
    ASSUME NEW q \in Requests, NEW r \in Row,
           Guarded(r), ~Guarded(Applied(q, r))
    PROVE  Releases(q, "safe_mode")
<1>1. q.op # "pause_all"
  BY DEF Applied, PauseAll, Guarded
<1>2. q.op # "enter_safe_mode"
  BY DEF Applied, EnterSafeMode, Guarded
<1>3. CASE q.op = "clear_safe_mode"
  BY <1>3 DEF Releases
<1>4. CASE q.op = "set_control"
  <2>1. Applied(q, r).mode = IF q.control = "ai_operations" /\ q.enabled
                                   /\ r.mode = "paused_by_owner"
                             THEN "normal" ELSE r.mode
    BY <1>4 DEF Applied, SetControl
  <2>2. q.control = "ai_operations" /\ q.enabled
    BY <2>1 DEF Guarded
  <2>. QED
    BY <1>4, <2>2 DEF Releases
<1>. QED
  BY <1>1, <1>2, <1>3, <1>4 DEF Requests

\* A request that takes a control leaves it off.
LEMMA TakesOff ==
    ASSUME NEW q \in Requests, NEW r \in Row, NEW c \in Controls, Takes(q, c)
    PROVE  c \notin Applied(q, r).on
<1>1. c # "safe_mode"
  BY DEF Controls
<1>2. CASE q.op = "pause_all"
  BY <1>2 DEF Applied, PauseAll
<1>3. CASE q.op = "enter_safe_mode"
  BY <1>1, <1>3 DEF Applied, EnterSafeMode, Takes
<1>4. CASE q.op = "set_control"
  BY <1>4 DEF Applied, SetControl, Takes
<1>. QED
  BY <1>2, <1>3, <1>4 DEF Takes

\* A request that takes Safe Mode leaves a guarded posture.
LEMMA TakesGuard ==
    ASSUME NEW q \in Requests, NEW r \in Row, Takes(q, "safe_mode")
    PROVE  Guarded(Applied(q, r))
<1>1. q.op = "enter_safe_mode"
  BY ToggledAssumption DEF Takes, Requests, Controls
<1>. QED
  BY <1>1 DEF Applied, EnterSafeMode, Guarded

\* What a session under way holds.
LEMMA ActiveType ==
    ASSUME TypeOK, NEW s \in Sessions, Active(s)
    PROVE  /\ session[s].request \in Requests
           /\ session[s].loaded \in Row
           /\ session[s].clean \subseteq Holds
           /\ session[s] \in [pc : {"loaded"}, request : Requests, loaded : Row,
                              clean : SUBSET Holds]
<1>1. session[s] \in SessionState
  BY DEF TypeOK
<1>2. session[s] # Idle
  BY DEF Active, Idle
<1>. QED
  BY <1>1, <1>2 DEF SessionState

----------------------------------------------------------------------------
(* Type correctness.                                                       *)

LEMMA InitType == Init => TypeOK
BY DEF Init, TypeOK, Row, Modes, SessionState

LEMMA LoadType ==
    ASSUME TypeOK, NEW s \in Sessions, NEW q \in Requests, Load(s, q)
    PROVE  TypeOK'
<1>. DEFINE mine == [pc |-> "loaded", request |-> q, loaded |-> row, clean |-> CleanFor(s)]
            Theirs(t) == IF Active(t)
                         THEN [session[t] EXCEPT !.clean = Unreleased(@, q)]
                         ELSE session[t]
<1>1. session' = [t \in Sessions |-> IF t = s THEN mine ELSE Theirs(t)]
  BY DEF Load
<1>2. mine \in SessionState
  <2>1. CleanFor(s) \subseteq Holds
    BY DEF CleanFor
  <2>. QED
    BY <2>1 DEF SessionState, TypeOK
<1>3. ASSUME NEW t \in Sessions PROVE Theirs(t) \in SessionState
  <2>1. CASE Active(t)
    <3>1. Unreleased(session[t].clean, q) \subseteq Holds
      BY <2>1, ActiveType DEF Unreleased
    <3>. QED
      BY <2>1, <3>1, ActiveType DEF SessionState
  <2>2. CASE ~Active(t)
    BY <2>2 DEF TypeOK
  <2>. QED
    BY <2>1, <2>2
<1>4. session' \in [Sessions -> SessionState]
  <2>. HIDE DEF mine, Theirs
  <2>. QED
    BY <1>1, <1>2, <1>3
<1>5. held' \subseteq Holds
  BY DEF Load, Unreleased, TypeOK
<1>. QED
  BY <1>4, <1>5 DEF Load, TypeOK

LEMMA CommitType ==
    ASSUME TypeOK, NEW s \in Sessions, Commit(s)
    PROVE  TypeOK'
<1>. DEFINE new == Applied(session[s].request, session[s].loaded)
<1>1. new \in Row /\ session[s].loaded \in Row /\ session[s].clean \subseteq Holds
  BY ActiveType, AppliedType DEF Commit
<1>2. row' \in Row
  <2>1. row' = Flush(row, session[s].loaded, new)
    BY DEF Commit
  <2>. HIDE DEF new
  <2>. QED
    BY <1>1, <2>1 DEF Flush, Row, TypeOK
<1>3. session' \in [Sessions -> SessionState]
  BY DEF Commit, TypeOK, SessionState
<1>. QED
  BY <1>1, <1>2, <1>3 DEF Commit, TypeOK

LEMMA AbandonType ==
    ASSUME TypeOK, NEW s \in Sessions, Abandon(s)
    PROVE  TypeOK'
BY DEF Abandon, TypeOK, SessionState

\* Every reachable state is well typed, for any sessions and any controls.
THEOREM TypeCorrect == Spec => []TypeOK
<1>1. TypeOK /\ [Next]_vars => TypeOK'
  <2>. SUFFICES ASSUME TypeOK, [Next]_vars PROVE TypeOK'
    OBVIOUS
  <2>1. CASE Next
    BY <2>1, LoadType, CommitType, AbandonType DEF Next
  <2>2. CASE UNCHANGED vars
    BY <2>2 DEF vars, TypeOK
  <2>. QED
    BY <2>1, <2>2
<1>. QED
  BY <1>1, InitType, PTL DEF Spec

----------------------------------------------------------------------------
(* What is switched off stays off.                                         *)

LEMMA InitInv == Init => IInv
BY InitType DEF Init, IInv, HeldStaysOff, HeldGuarded, HeldUnreleased, CleanUnreleased,
   CleanStillOff, CleanStillGuarded, Active, Idle

\* What Load makes of the sessions.
LEMMA LoadSessions ==
    ASSUME TypeOK, NEW s \in Sessions, NEW q \in Requests, Load(s, q)
    PROVE  /\ ~Active(s)
           /\ Active(s)'
           /\ session'[s].request = q
           /\ session'[s].loaded = row
           /\ session'[s].clean = CleanFor(s)
           /\ \A t \in Sessions \ {s} :
                /\ Active(t)' <=> Active(t)
                /\ Active(t) =>
                    /\ session'[t].request = session[t].request
                    /\ session'[t].loaded = session[t].loaded
                    /\ session'[t].clean = Unreleased(session[t].clean, q)
<1>1. ~Active(s)
  BY DEF Load, Active, Idle
<1>2. session'[s] = [pc |-> "loaded", request |-> q, loaded |-> row, clean |-> CleanFor(s)]
  BY DEF Load
<1>3. ASSUME NEW t \in Sessions \ {s}
      PROVE  session'[t] = IF Active(t)
                           THEN [session[t] EXCEPT !.clean = Unreleased(@, q)]
                           ELSE session[t]
  BY <1>3 DEF Load
<1>4. ASSUME NEW t \in Sessions \ {s}, Active(t)
      PROVE  /\ Active(t)'
             /\ session'[t].request = session[t].request
             /\ session'[t].loaded = session[t].loaded
             /\ session'[t].clean = Unreleased(session[t].clean, q)
  <2>1. session[t] \in [pc : {"loaded"}, request : Requests, loaded : Row,
                        clean : SUBSET Holds]
    BY <1>4, ActiveType
  <2>2. session'[t] = [session[t] EXCEPT !.clean = Unreleased(@, q)]
    BY <1>3, <1>4
  <2>. QED
    BY <2>1, <2>2 DEF Active
<1>5. ASSUME NEW t \in Sessions \ {s}, ~Active(t)
      PROVE  ~Active(t)'
  BY <1>3, <1>5 DEF Active
<1>. QED
  BY <1>1, <1>2, <1>4, <1>5 DEF Active

\* A request that begins releases what it releases and relies on what it reads.
LEMMA LoadInv ==
    ASSUME IInv, NEW s \in Sessions, NEW q \in Requests, Load(s, q)
    PROVE  IInv'
<1>. USE DEF IInv
<1>1. TypeOK'
  BY LoadType
<1>2. row' = row /\ held' = Unreleased(held, q)
  BY DEF Load
<1>3. HeldStaysOff'
  BY <1>2 DEF HeldStaysOff, Unreleased
<1>4. HeldGuarded'
  BY <1>2 DEF HeldGuarded, Unreleased
<1>5. HeldUnreleased'
  <2>. SUFFICES ASSUME NEW t \in Sessions, NEW h \in Holds, Active(t)',
                       Releases(session'[t].request, h)
                PROVE  h \notin held'
    BY DEF HeldUnreleased
  <2>1. CASE t = s
    BY <2>1, <1>2, LoadSessions DEF Unreleased
  <2>2. CASE t # s
    BY <2>2, <1>2, LoadSessions DEF Unreleased, HeldUnreleased
  <2>. QED
    BY <2>1, <2>2
<1>6. CleanUnreleased'
  <2>. SUFFICES ASSUME NEW t \in Sessions, NEW u \in Sessions, NEW h \in Holds,
                       t # u, Active(t)', Active(u)', h \in session'[t].clean
                PROVE  ~Releases(session'[u].request, h)
    BY DEF CleanUnreleased
  <2>1. CASE t = s
    BY <2>1, LoadSessions DEF CleanFor
  <2>2. CASE u = s
    BY <2>2, LoadSessions DEF Unreleased
  <2>3. CASE t # s /\ u # s
    BY <2>3, LoadSessions DEF Unreleased, CleanUnreleased
  <2>. QED
    BY <2>1, <2>2, <2>3
<1>7. CleanStillOff'
  <2>. SUFFICES ASSUME NEW t \in Sessions, NEW c \in Controls, Active(t)',
                       c \in session'[t].clean, c \in row'.on
                PROVE  c \in session'[t].loaded.on
    BY DEF CleanStillOff
  <2>1. CASE t = s
    BY <2>1, <1>2, LoadSessions
  <2>2. CASE t # s
    BY <2>2, <1>2, LoadSessions DEF Unreleased, CleanStillOff
  <2>. QED
    BY <2>1, <2>2
<1>8. CleanStillGuarded'
  <2>. SUFFICES ASSUME NEW t \in Sessions, Active(t)', "safe_mode" \in session'[t].clean,
                       Guarded(session'[t].loaded)
                PROVE  Guarded(row')
    BY DEF CleanStillGuarded, Guarded
  <2>1. CASE t = s
    BY <2>1, <1>2, LoadSessions
  <2>2. CASE t # s
    BY <2>2, <1>2, LoadSessions DEF Unreleased, CleanStillGuarded
  <2>. QED
    BY <2>1, <2>2
<1>. QED
  BY <1>1, <1>3, <1>4, <1>5, <1>6, <1>7, <1>8

\* A commit switches on, and leaves the guarded posture, only if its request releases
\* what it undoes; and it takes only what nobody else under way releases.
LEMMA CommitInv ==
    ASSUME IInv, NEW s \in Sessions, Commit(s)
    PROVE  IInv'
<1>. USE DEF IInv
<1>. DEFINE q == session[s].request
            loaded == session[s].loaded
            new == Applied(q, loaded)
<1>1. TypeOK'
  BY CommitType
<1>2. Active(s) /\ q \in Requests /\ loaded \in Row /\ new \in Row
  BY ActiveType, AppliedType DEF Commit
<1>3. /\ row' = Flush(row, loaded, new)
      /\ held' = held \cup {h \in session[s].clean : Takes(q, h)}
  BY DEF Commit
<1>4. /\ ~Active(s)'
      /\ \A t \in Sessions \ {s} : session'[t] = session[t] /\ (Active(t)' <=> Active(t))
  BY DEF Commit, Active, Idle, TypeOK
<1>5. ASSUME NEW c \in Controls, c \in row'.on, c \notin row.on
      PROVE  Releases(q, c)
  <2>1. c \in new.on /\ c \notin loaded.on
    BY <1>3, <1>5 DEF Flush
  <2>. QED
    BY <1>2, <2>1, TurnsOn
<1>6. ASSUME Guarded(row), ~Guarded(row')
      PROVE  Releases(q, "safe_mode")
  <2>1. new.mode # loaded.mode /\ ~Guarded(new)
    BY <1>3, <1>6 DEF Flush, Guarded
  <2>2. Guarded(loaded)
    <3>1. new.mode = "normal"
      BY <1>2, <2>1 DEF Guarded, Row, Modes
    <3>. QED
      BY <1>2, <2>1, <3>1 DEF Guarded, Row, Modes
  <2>. QED
    BY <1>2, <2>1, <2>2, LeavesGuard
<1>7. ASSUME NEW c \in Controls, c \in session[s].clean, Takes(q, c)
      PROVE  c \notin row'.on
  <2>1. c \notin new.on
    BY <1>2, <1>7, TakesOff
  <2>2. c \in row.on => c \in loaded.on
    BY <1>2, <1>7 DEF CleanStillOff
  <2>. QED
    BY <1>3, <2>1, <2>2 DEF Flush
<1>8. ASSUME "safe_mode" \in session[s].clean, Takes(q, "safe_mode")
      PROVE  Guarded(row')
  <2>1. Guarded(new)
    BY <1>2, <1>8, TakesGuard
  <2>2. CASE new.mode = loaded.mode
    <3>1. Guarded(row)
      BY <1>2, <1>8, <2>1, <2>2 DEF CleanStillGuarded, Guarded
    <3>. QED
      BY <1>3, <2>2, <3>1 DEF Flush, Guarded
  <2>3. CASE new.mode # loaded.mode
    BY <1>3, <2>1, <2>3 DEF Flush, Guarded
  <2>. QED
    BY <2>2, <2>3
<1>. HIDE DEF new, loaded, q
<1>9. HeldStaysOff'
  <2>. SUFFICES ASSUME NEW c \in held', c \in row'.on PROVE FALSE
    BY DEF HeldStaysOff
  <2>1. c \in Controls
    BY <1>1 DEF TypeOK, Row
  <2>2. CASE c \in held
    <3>1. c \notin row.on
      BY <2>2 DEF HeldStaysOff
    <3>2. Releases(q, c)
      BY <1>5, <2>1, <3>1
    <3>. QED
      BY <1>2, <2>1, <2>2, <3>2 DEF HeldUnreleased, Holds, q
  <2>3. CASE c \in session[s].clean /\ Takes(q, c)
    BY <1>7, <2>1, <2>3
  <2>. QED
    BY <1>3, <2>2, <2>3
<1>10. HeldGuarded'
  <2>. SUFFICES ASSUME "safe_mode" \in held', ~Guarded(row') PROVE FALSE
    BY DEF HeldGuarded, Guarded
  <2>1. CASE "safe_mode" \in held
    <3>1. Releases(q, "safe_mode")
      BY <1>6, <2>1 DEF HeldGuarded
    <3>. QED
      BY <1>2, <2>1, <3>1 DEF HeldUnreleased, Holds, q
  <2>2. CASE "safe_mode" \in session[s].clean /\ Takes(q, "safe_mode")
    BY <1>8, <2>2
  <2>. QED
    BY <1>3, <2>1, <2>2
<1>11. HeldUnreleased'
  <2>. SUFFICES ASSUME NEW t \in Sessions, NEW h \in Holds, Active(t)',
                       Releases(session'[t].request, h)
                PROVE  h \notin held'
    BY DEF HeldUnreleased
  <2>1. t # s /\ Active(t) /\ Releases(session[t].request, h)
    BY <1>4
  <2>2. h \notin held
    BY <2>1 DEF HeldUnreleased
  <2>3. h \notin session[s].clean
    BY <1>2, <2>1 DEF CleanUnreleased
  <2>. QED
    BY <1>3, <2>2, <2>3
<1>12. CleanUnreleased'
  <2>. SUFFICES ASSUME NEW t \in Sessions, NEW u \in Sessions, NEW h \in Holds,
                       t # u, Active(t)', Active(u)', h \in session'[t].clean
                PROVE  ~Releases(session'[u].request, h)
    BY DEF CleanUnreleased
  <2>. QED
    BY <1>4 DEF CleanUnreleased
<1>13. CleanStillOff'
  <2>. SUFFICES ASSUME NEW t \in Sessions, NEW c \in Controls, Active(t)',
                       c \in session'[t].clean, c \in row'.on
                PROVE  c \in session'[t].loaded.on
    BY DEF CleanStillOff
  <2>1. t # s /\ Active(t) /\ session'[t] = session[t]
    BY <1>4
  <2>2. ~Releases(q, c)
    BY <1>2, <2>1 DEF CleanUnreleased, Holds, q
  <2>3. c \in row.on
    BY <1>5, <2>2
  <2>. QED
    BY <2>1, <2>3 DEF CleanStillOff
<1>14. CleanStillGuarded'
  <2>. SUFFICES ASSUME NEW t \in Sessions, Active(t)', "safe_mode" \in session'[t].clean,
                       Guarded(session'[t].loaded)
                PROVE  Guarded(row')
    BY DEF CleanStillGuarded, Guarded
  <2>1. t # s /\ Active(t) /\ session'[t] = session[t]
    BY <1>4
  <2>2. ~Releases(q, "safe_mode")
    BY <1>2, <2>1 DEF CleanUnreleased, Holds, q
  <2>3. Guarded(row)
    BY <2>1 DEF CleanStillGuarded
  <2>. QED
    BY <1>6, <2>2, <2>3
<1>. QED
  BY <1>1, <1>9, <1>10, <1>11, <1>12, <1>13, <1>14

\* An abandoned request leaves the row and the holds as they are.
LEMMA AbandonInv ==
    ASSUME IInv, NEW s \in Sessions, Abandon(s)
    PROVE  IInv'
<1>. USE DEF IInv
<1>1. TypeOK'
  BY AbandonType
<1>2. /\ row' = row
      /\ held' = held
      /\ ~Active(s)'
      /\ \A t \in Sessions \ {s} : session'[t] = session[t] /\ (Active(t)' <=> Active(t))
  BY DEF Abandon, Active, Idle, TypeOK
<1>3. HeldStaysOff' /\ HeldGuarded'
  BY <1>2 DEF HeldStaysOff, HeldGuarded, Guarded
<1>4. HeldUnreleased'
  BY <1>2 DEF HeldUnreleased
<1>5. CleanUnreleased'
  BY <1>2 DEF CleanUnreleased
<1>6. CleanStillOff'
  BY <1>2 DEF CleanStillOff
<1>7. CleanStillGuarded'
  BY <1>2 DEF CleanStillGuarded, Guarded
<1>. QED
  BY <1>1, <1>3, <1>4, <1>5, <1>6, <1>7

LEMMA Inductive == Spec => []IInv
<1>1. IInv /\ [Next]_vars => IInv'
  <2>. SUFFICES ASSUME IInv, [Next]_vars PROVE IInv'
    OBVIOUS
  <2>1. CASE Next
    BY <2>1, LoadInv, CommitInv, AbandonInv DEF Next
  <2>2. CASE UNCHANGED vars
    BY <2>2 DEF vars, IInv, TypeOK, HeldStaysOff, HeldGuarded, HeldUnreleased,
       CleanUnreleased, CleanStillOff, CleanStillGuarded, Active, Guarded
  <2>. QED
    BY <2>1, <2>2
<1>. QED
  BY <1>1, InitInv, PTL DEF Spec

\* A control switched off while no request was trying to switch it on stays off until
\* a request that switches it on is made: no interleaving of owner requests, each of
\* which commits over what the others did, brings it back.
THEOREM OffIsKept == Spec => []HeldStaysOff
<1>1. IInv => HeldStaysOff
  BY DEF IInv
<1>. QED
  BY <1>1, Inductive, PTL

\* Safe Mode entered while nobody was clearing it denies outbound and spending until
\* somebody does.
THEOREM SafeModeDenies == Spec => []SafeModeHolds
<1>1. IInv => SafeModeHolds
  BY DEF IInv, HeldGuarded, Guarded, SafeModeHolds, AiAllowed, SwitchAllowed
<1>. QED
  BY <1>1, Inductive, PTL

----------------------------------------------------------------------------
(* Governed work under these controls.                                     *)

\* The holds a check remembers are still in force, it saw AI operations allowed at its
\* first read, and its own switch at the second.
WorkersRemember ==
    \A w \in Workers :
        /\ worker[w].pc \in {"ai_ok", "admitted"} =>
              worker[w].under \subseteq held /\ "ai_operations" \notin worker[w].under
        /\ worker[w].pc = "admitted" => worker[w].control \notin worker[w].under

WorkInv == IInv /\ WorkTypeOK /\ WorkersRemember

LEMMA WorkerType ==
    ASSUME WorkTypeOK, NEW w \in Workers
    PROVE  \/ worker[w] = Idle
           \/ /\ worker[w].pc \in {"ai_ok", "admitted"}
              /\ worker[w].control \in Governed
              /\ worker[w].under \subseteq Holds
              /\ worker[w] = [pc |-> worker[w].pc, control |-> worker[w].control,
                              under |-> worker[w].under]
<1>1. worker[w] \in WorkerState
  BY DEF WorkTypeOK
<1>. QED
  BY <1>1 DEF WorkerState

\* The controls' steps keep their invariant.
LEMMA OwnerInv == ASSUME IInv, [Next]_vars PROVE IInv'
<1>1. CASE Next
  BY <1>1, LoadInv, CommitInv, AbandonInv DEF Next
<1>2. CASE UNCHANGED vars
  BY <1>2 DEF vars, IInv, TypeOK, HeldStaysOff, HeldGuarded, HeldUnreleased,
     CleanUnreleased, CleanStillOff, CleanStillGuarded, Active, Guarded
<1>. QED
  BY <1>1, <1>2

\* What is no longer in force is forgotten.
LEMMA OwnerStepInv == ASSUME WorkInv, OwnerStep PROVE WorkInv'
<1>1. IInv'
  BY OwnerInv DEF WorkInv, OwnerStep
<1>2. ASSUME NEW w \in Workers
      PROVE  /\ worker'[w] \in WorkerState
             /\ worker'[w].pc \in {"ai_ok", "admitted"} =>
                   /\ worker'[w].under \subseteq held'
                   /\ "ai_operations" \notin worker'[w].under
             /\ worker'[w].pc = "admitted" => worker'[w].control \notin worker'[w].under
  <2>1. CASE worker[w] = Idle
    <3>1. worker'[w] = Idle
      BY <2>1 DEF OwnerStep, StillUnder
    <3>. QED
      BY <3>1 DEF WorkerState, Idle
  <2>2. CASE worker[w] # Idle
    <3>1. worker'[w] = [worker[w] EXCEPT !.under = @ \cap held']
      BY <2>2 DEF OwnerStep, StillUnder
    <3>2. /\ worker[w].pc \in {"ai_ok", "admitted"}
          /\ worker[w].control \in Governed
          /\ worker[w].under \subseteq Holds
          /\ worker[w] = [pc |-> worker[w].pc, control |-> worker[w].control,
                          under |-> worker[w].under]
      BY <2>2, WorkerType DEF WorkInv
    <3>3. worker'[w] = [pc |-> worker[w].pc, control |-> worker[w].control,
                        under |-> worker[w].under \cap held']
      BY <3>1, <3>2
    <3>4. worker'[w] \in WorkerState
      BY <3>2, <3>3 DEF WorkerState
    <3>. QED
      BY <3>2, <3>3, <3>4 DEF WorkInv, WorkersRemember
  <2>. QED
    BY <2>1, <2>2
<1>3. worker' \in [Workers -> WorkerState]
  BY <1>2 DEF OwnerStep, StillUnder
<1>. QED
  BY <1>1, <1>2, <1>3 DEF WorkInv, WorkTypeOK, WorkersRemember, IInv

\* A worker's own step, to a state that remembers as it should.
LEMMA WorkerStepInv ==
    ASSUME WorkInv, UNCHANGED vars, NEW w \in Workers, NEW work \in WorkerState,
           worker' = [worker EXCEPT ![w] = work],
           work.pc \in {"ai_ok", "admitted"} =>
               work.under \subseteq held /\ "ai_operations" \notin work.under,
           work.pc = "admitted" => work.control \notin work.under
    PROVE  WorkInv'
<1>1. IInv'
  BY OwnerInv DEF WorkInv
<1>2. held' = held
  BY DEF vars
<1>. QED
  BY <1>1, <1>2 DEF WorkInv, WorkTypeOK, WorkersRemember, IInv

LEMMA CheckAiInv ==
    ASSUME WorkInv, NEW w \in Workers, NEW c \in Governed, CheckAi(w, c)
    PROVE  WorkInv'
<1>1. "ai_operations" \notin held
  BY DEF CheckAi, AiAllowed, WorkInv, IInv, HeldStaysOff
<1>2. held \subseteq Holds
  BY DEF WorkInv, IInv, TypeOK
<1>. DEFINE work == [pc |-> "ai_ok", control |-> c, under |-> held \cap Concerns(c)]
<1>3. work \in WorkerState
  BY <1>2 DEF WorkerState
<1>. QED
  BY <1>1, <1>3, WorkerStepInv DEF CheckAi

LEMMA CheckSwitchInv ==
    ASSUME WorkInv, NEW w \in Workers, CheckSwitch(w)
    PROVE  WorkInv'
<1>1. /\ worker[w].pc = "ai_ok"
      /\ worker[w].control \in Governed
      /\ worker[w].under \subseteq Holds
      /\ worker[w] = [pc |-> worker[w].pc, control |-> worker[w].control,
                      under |-> worker[w].under]
  BY WorkerType DEF WorkInv, CheckSwitch, Idle
<1>2. worker[w].under \subseteq held /\ "ai_operations" \notin worker[w].under
  BY <1>1 DEF WorkInv, WorkersRemember
<1>3. CASE SwitchAllowed(row, worker[w].control)
  <2>. DEFINE work == [worker[w] EXCEPT !.pc = "admitted"]
  <2>1. work = [pc |-> "admitted", control |-> worker[w].control, under |-> worker[w].under]
    BY <1>1
  <2>2. work \in WorkerState
    BY <1>1, <2>1 DEF WorkerState
  <2>3. worker[w].control \notin held
    BY <1>3 DEF SwitchAllowed, WorkInv, IInv, HeldStaysOff
  <2>4. worker' = [worker EXCEPT ![w] = work]
    BY <1>3 DEF CheckSwitch, WorkInv, WorkTypeOK
  <2>5. UNCHANGED vars
    BY DEF CheckSwitch
  <2>. HIDE DEF work
  <2>. QED
    BY <1>2, <2>1, <2>2, <2>3, <2>4, <2>5, WorkerStepInv
<1>4. CASE ~SwitchAllowed(row, worker[w].control)
  <2>1. worker' = [worker EXCEPT ![w] = Idle]
    BY <1>4 DEF CheckSwitch
  <2>. QED
    BY <2>1, WorkerStepInv DEF CheckSwitch, WorkerState, Idle
<1>. QED
  BY <1>3, <1>4

LEMMA WorkInductive == WorkSpec => []WorkInv
<1>1. WorkInit => WorkInv
  BY InitInv, InitType DEF WorkInit, WorkInv, WorkTypeOK, WorkersRemember, WorkerState, Idle
<1>2. WorkInv /\ [WorkNext]_allVars => WorkInv'
  <2>. SUFFICES ASSUME WorkInv, [WorkNext]_allVars PROVE WorkInv'
    OBVIOUS
  <2>1. CASE OwnerStep
    BY <2>1, OwnerStepInv
  <2>2. ASSUME NEW w \in Workers, NEW c \in Governed, CheckAi(w, c) PROVE WorkInv'
    BY <2>2, CheckAiInv
  <2>3. ASSUME NEW w \in Workers, CheckSwitch(w) PROVE WorkInv'
    BY <2>3, CheckSwitchInv
  <2>4. ASSUME NEW w \in Workers, Act(w) PROVE WorkInv'
    BY <2>4, WorkerStepInv DEF Act, WorkerState, Idle
  <2>5. CASE UNCHANGED allVars
    <3>1. UNCHANGED vars /\ UNCHANGED worker
      BY <2>5 DEF allVars
    <3>2. IInv' /\ held' = held
      BY <3>1, OwnerInv DEF WorkInv, vars
    <3>. QED
      BY <3>1, <3>2 DEF WorkInv, WorkTypeOK, WorkersRemember, IInv
  <2>. QED
    BY <2>1, <2>2, <2>3, <2>4, <2>5 DEF WorkNext
<1>. QED
  BY <1>1, <1>2, PTL DEF WorkSpec

\* The types of the row, of the requests and of the workers, for any number of each.
THEOREM WorkTypeCorrect == WorkSpec => []WorkTypeOK
<1>1. WorkInv => WorkTypeOK
  BY DEF WorkInv
<1>. QED
  BY <1>1, WorkInductive, PTL

\* A check whose switch was held off from its beginning, with nobody releasing it, does
\* not admit the work: it saw each switch on at one of its two reads, and a switch seen on
\* was not held then.
THEOREM HeldWorkIsDenied == WorkSpec => []HeldThroughoutDenies
<1>1. WorkInv => HeldThroughoutDenies
  BY DEF WorkInv, WorkersRemember, HeldThroughoutDenies
<1>. QED
  BY <1>1, WorkInductive, PTL
=============================================================================
