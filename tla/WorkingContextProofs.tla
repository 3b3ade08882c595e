----------------------- MODULE WorkingContextProofs -----------------------
(***************************************************************************)
(* The working context for any memories, files, prompts, edges, budgets,   *)
(* notes, moves and faults.  The delivery state agrees with what the agent *)
(* holds (AgentCurrent) and a session's source baseline was earned         *)
(* (BaselineEarned): neither depends on what a packet contains, so these   *)
(* proofs hold for whatever the renderer selects, orders and drops.        *)
(*                                                                         *)
(* The types, and that evidence is withdrawn aloud (WithdrawnTold), need   *)
(* what the renderer computes.  Its two loops, the filter of a list (Only) *)
(* and the appending of lines while they fit (Packed), are recursive       *)
(* functions; what they return is proved by induction over the length of   *)
(* the list, the property being a set of numbers.                          *)
(***************************************************************************)
EXTENDS WorkingContext, FiniteSetTheorems, WellFoundedInduction, TLAPS

(* The columns of the session row. *)
Fields == {"goal", "focus", "active", "notes", "pruned", "bindings", "withdrawals",
           "selected", "fingerprint"}

(* The session row is a record with these fields, whatever their values.   *)
IsRow(s) == s = [x \in Fields |-> s[x]]

-----------------------------------------------------------------------------
(* What the engine's operations do to the fields of the session row.       *)

(* A new session has nothing delivered and nothing bound.                  *)
LEMMA NewSessionFields ==
    ASSUME NEW goal
    PROVE  /\ IsRow(NewSession(goal))
           /\ NewSession(goal).fingerprint = None
           /\ NewSession(goal).bindings = [m \in Memories |-> None]
BY DEF NewSession, IsRow, Fields

(* Setting the focus or the file keeps delivery state and bindings.        *)
LEMMA FocusedFields ==
    ASSUME NEW s, IsRow(s), NEW focus, NEW file
    PROVE  /\ IsRow(Focused(s, focus, file))
           /\ Focused(s, focus, file).fingerprint = s.fingerprint
           /\ Focused(s, focus, file).bindings = s.bindings
BY DEF Focused, IsRow, Fields

(* A compilation records its packet's fingerprint and the bindings found.  *)
LEMMA CompiledFields ==
    ASSUME NEW s, IsRow(s), NEW room, NEW look
    PROVE  /\ IsRow(Compiled(s, room, look).session)
           /\ Compiled(s, room, look).session.fingerprint = Compiled(s, room, look).packet
           /\ Compiled(s, room, look).session.bindings = Bindings(s, look)
           /\ Compiled(s, room, look).changed
                = (Compiled(s, room, look).packet # s.fingerprint)
BY DEF Compiled, IsRow, Fields

(* An inspection keeps the fingerprint and leaves the bindings it found.   *)
LEMMA UnconsumedFields ==
    ASSUME NEW s, IsRow(s), NEW old
    PROVE  /\ IsRow(Unconsumed(s, old))
           /\ Unconsumed(s, old).fingerprint = old.fingerprint
           /\ Unconsumed(s, old).bindings = s.bindings
BY DEF Unconsumed, IsRow, Fields

(* A note changes neither the fingerprint nor the bindings.                *)
LEMMA WithNoteFields ==
    ASSUME NEW s, IsRow(s), NEW n
    PROVE  /\ IsRow(WithNote(s, n))
           /\ WithNote(s, n).fingerprint = s.fingerprint
           /\ WithNote(s, n).bindings = s.bindings
<1> DEFINE kept == IF n.kind = "next_step"
                   THEN Only(s.notes, Range(s.notes) \ NextSteps(s.notes)) ELSE s.notes
           all == Append(kept, n)
           over == IF Len(all) > MaxNotes THEN Len(all) - MaxNotes ELSE 0
           cut == SubSeq(all, over + 1, Len(all))
<1>1. CASE n \in Range(s.notes)
  BY <1>1 DEF WithNote
<1>2. CASE n \notin Range(s.notes)
  <2>1. WithNote(s, n) = [s EXCEPT !.notes = cut, !.pruned = @ + over]
    BY <1>2 DEF WithNote
  <2> HIDE DEF cut, over
  <2>2. QED
    BY <2>1 DEF IsRow, Fields
<1>3. QED
  BY <1>1, <1>2

(* Forgetting the delivery keeps the bindings.                             *)
LEMMA InvalidatedFields ==
    ASSUME NEW s, IsRow(s)
    PROVE  /\ IsRow([s EXCEPT !.fingerprint = None])
           /\ [s EXCEPT !.fingerprint = None].fingerprint = None
           /\ [s EXCEPT !.fingerprint = None].bindings = s.bindings
BY DEF IsRow, Fields

-----------------------------------------------------------------------------
(* Delivery: what the session records and what the agent holds.            *)

(* The locals of a hook. *)
HookFields == {"pc", "event", "focus", "file", "out", "refused"}

(* A hook is a record of them. *)
IsHook(h) == h = [x \in HookFields |-> h[x]]

(* There is a session row, or somebody is at work on one.                  *)
Live == session # None \/ txn # None \/ hook.pc \in {"context", "compile"}

(* The recorded fingerprint is blank or that of the packet the agent holds.*)
Agree == severed = {} => session.fingerprint \in {None, seen}

(* AgentCurrent, extended to a hook at work.  From SessionStart, which     *)
(* empties the agent's context, to its output nothing is known; a hook     *)
(* about to print nothing relies on the agreement, and one about to print  *)
(* the advisory has blanked the fingerprint or severed the two.            *)
DeliveryInv ==
    /\ Live => IsRow(session)
    /\ IsHook(hook)
    /\ hook.pc \in {"idle", "start", "context", "compile", "fail", "deliver"}
    /\ hook.pc = "idle" /\ Live => Agree
    /\ hook.pc \in {"start", "fail"} /\ hook.event # "SessionStart" /\ Live => Agree
    /\ hook.pc \in {"context", "compile"} /\ hook.event # "SessionStart" => Agree
    /\ hook.pc = "deliver" /\ hook.out = None /\ Live => Agree
    /\ hook.pc = "deliver" /\ hook.out = Unavailable /\ Live /\ severed = {}
          => session.fingerprint \in {None, Unavailable}

(* Initially no session exists.                                            *)
LEMMA DeliveryInit == Init => DeliveryInv
<1> SUFFICES ASSUME Init PROVE DeliveryInv
  OBVIOUS
<1>1. session = None /\ txn = None /\ hook = Idle
  BY DEF Init
<1>2. IsHook(hook) /\ hook.pc = "idle"
  BY <1>1 DEF Idle, IsHook, HookFields
<1>3. QED
  BY <1>1, <1>2 DEF DeliveryInv, Live

(* An event looks at the session; SessionStart empties the agent.          *)
LEMMA DeliveryBegin ==
    ASSUME DeliveryInv, NEW event, NEW focus, NEW file, Begin(event, focus, file)
    PROVE  DeliveryInv'
<1>0. hook.pc = "idle" /\ session' = session /\ txn' = txn
      /\ (event # "SessionStart" => seen' = seen)
  BY DEF Begin, Emptied
<1>1. CASE config.enabled /\ (session # None \/ event = "UserPromptSubmit")
  <2> DEFINE h == [Idle EXCEPT !.pc = IF session = None THEN "start" ELSE "context",
                               !.event = event, !.focus = focus, !.file = file]
  <2>1. hook' = h /\ severed' = severed
    BY <1>1 DEF Begin
  <2>2. /\ IsHook(h)
        /\ h.pc = (IF session = None THEN "start" ELSE "context")
        /\ h.event = event
    BY DEF Idle, IsHook, HookFields
  <2> HIDE DEF h
  <2>3. IsHook(hook)' /\ hook'.event = event
        /\ hook'.pc = (IF session = None THEN "start" ELSE "context")
    BY <2>1, <2>2 DEF IsHook
  <2>4. Live' => Live
    BY <1>0, <2>3 DEF Live
  <2>5. session # None => Live
    BY DEF Live
  <2>6. QED
    BY <1>0, <2>1, <2>3, <2>4, <2>5 DEF DeliveryInv, Agree, IsRow
<1>2. CASE ~(config.enabled /\ (session # None \/ event = "UserPromptSubmit"))
  <2>1. hook' = hook /\ (severed' = {} => severed = {} /\ seen' = seen)
    BY <1>0, <1>2 DEF Begin, Unserved
  <2>2. QED
    BY <1>0, <2>1 DEF DeliveryInv, Agree, IsRow, IsHook, Live
<1>3. QED
  BY <1>1, <1>2

(* A store that cannot be opened: an emptied agent is severed from the     *)
(* recorded packet.                                                        *)
LEMMA DeliveryLoadError ==
    ASSUME DeliveryInv, NEW event, LoadError(event)
    PROVE  DeliveryInv'
<1>1. /\ UNCHANGED <<session, txn, hook>> /\ hook.pc = "idle"
      /\ severed' = {} => severed = {} /\ seen' = seen
  BY DEF LoadError, Emptied, Unserved
<1>2. QED
  BY <1>1 DEF DeliveryInv, Agree, IsRow, IsHook, Live

(* A look that fails goes on to the advisory.                              *)
LEMMA DeliveryLookError ==
    ASSUME DeliveryInv, NEW event, LookError(event)
    PROVE  DeliveryInv'
<1>1. /\ UNCHANGED <<session, txn, severed>> /\ hook.pc = "idle"
      /\ event # "SessionStart" => seen' = seen
      /\ hook' = [Idle EXCEPT !.pc = "fail", !.event = event]
  BY DEF LookError, Emptied
<1>2. IsHook(hook)' /\ hook'.pc = "fail" /\ hook'.event = event
  BY <1>1 DEF Idle, IsHook, HookFields
<1>3. Live' => Live
  BY <1>1, <1>2 DEF Live
<1>4. QED
  BY <1>1, <1>2, <1>3 DEF DeliveryInv, Agree, IsRow

(* The process may fail before its refresh is committed.                   *)
LEMMA DeliveryRaise ==
    ASSUME DeliveryInv, hook.pc \in {"start", "context", "compile"}, Raise,
           txn' \in {txn, None}, UNCHANGED <<session, seen, severed>>
    PROVE  DeliveryInv'
<1>1. CASE hook.event = "Get"
  <2>1. hook' = Idle
    BY <1>1 DEF Raise, Exit
  <2>2. IsHook(hook)' /\ hook'.pc = "idle"
    BY <2>1 DEF Idle, IsHook, HookFields
  <2>3. Live' => Live
    BY <2>2 DEF Live
  <2>4. QED
    BY <1>1, <2>2, <2>3 DEF DeliveryInv, Agree, IsRow
<1>2. CASE hook.event # "Get"
  <2>1. hook' = [hook EXCEPT !.pc = "fail"]
    BY <1>2 DEF Raise
  <2>2. IsHook(hook)' /\ hook'.pc = "fail" /\ hook'.event = hook.event
    BY <2>1 DEF DeliveryInv, IsHook, HookFields
  <2>3. Live' => Live
    BY <2>2 DEF Live
  <2>4. QED
    BY <2>2, <2>3 DEF DeliveryInv, Agree, IsRow
<1>3. QED
  BY <1>1, <1>2

(* The session the first prompt starts has nothing delivered yet.          *)
LEMMA DeliveryHookStart ==
    ASSUME DeliveryInv, HookStart
    PROVE  DeliveryInv'
<1>1. /\ IsRow(NewSession(hook.focus))
      /\ NewSession(hook.focus).fingerprint = None
  BY NewSessionFields
<1> HIDE DEF NewSession
<1>2. QED
  BY <1>1 DEF DeliveryInv, Agree, HookStart, IsHook, HookFields, Live

(* A compilation begins, or the budget is too small for it.                *)
LEMMA DeliveryHookContext ==
    ASSUME DeliveryInv, HookContext
    PROVE  DeliveryInv'
<1>1. CASE ~Fits(config.room)
  BY <1>1, DeliveryRaise DEF HookContext
<1>2. CASE Fits(config.room)
  <2>1. /\ hook.pc = "context" /\ hook' = [hook EXCEPT !.pc = "compile"]
        /\ UNCHANGED <<session, seen, severed>>
    BY <1>2 DEF HookContext
  <2>2. IsHook(hook)' /\ hook'.pc = "compile" /\ hook'.event = hook.event
    BY <2>1 DEF DeliveryInv, IsHook, HookFields
  <2>3. Live
    BY <2>1 DEF Live
  <2>4. QED
    BY <2>1, <2>2, <2>3 DEF DeliveryInv, Agree, IsRow
<1>3. QED
  BY <1>1, <1>2

(* What a compilation leaves of a row: a row with the packet's fingerprint *)
(* and the bindings it found.                                              *)
LEMMA OutcomeFields ==
    ASSUME IsRow(session), NEW late
    PROVE  /\ IsRow(Outcome(late).session)
           /\ Outcome(late).session.fingerprint = Outcome(late).packet
           /\ Outcome(late).session.bindings
                = Bindings(Focused(session, txn.focus, txn.file),
                           [hash |-> txn.hash, git |-> late = 0])
           /\ Outcome(late).changed = (Outcome(late).packet # session.fingerprint)
<1> DEFINE f == Focused(session, txn.focus, txn.file)
           look == [hash |-> txn.hash, git |-> late = 0]
<1>1. IsRow(f) /\ f.fingerprint = session.fingerprint
  BY FocusedFields
<1>2. Outcome(late) = Compiled(f, txn.room, look)
  BY DEF Outcome
<1> HIDE DEF f, look
<1>3. /\ IsRow(Compiled(f, txn.room, look).session)
      /\ Compiled(f, txn.room, look).session.fingerprint = Compiled(f, txn.room, look).packet
      /\ Compiled(f, txn.room, look).session.bindings = Bindings(f, look)
      /\ Compiled(f, txn.room, look).changed
           = (Compiled(f, txn.room, look).packet # f.fingerprint)
  BY <1>1, CompiledFields
<1>4. QED
  BY <1>1, <1>2, <1>3 DEF f, look

(* A refresh that prints nothing found the fingerprint the session had.    *)
LEMMA DeliveryHookCompile ==
    ASSUME DeliveryInv, HookCompile
    PROVE  DeliveryInv'
<1>1. PICK late \in 0 .. 1 :
        LET c == Outcome(late)
        IN  /\ Committed(late, c.session)
            /\ hook' = [hook EXCEPT !.pc = "deliver", !.refused = c.refused,
                                    !.out = IF c.changed \/ Forced THEN c.packet ELSE None]
  BY DEF HookCompile
<1> DEFINE c == Outcome(late)
<1>2. hook.pc = "compile" /\ UNCHANGED <<seen, severed>>
  BY DEF HookCompile
<1>3. IsRow(session)
  BY <1>2 DEF DeliveryInv, Live
<1>4. /\ session' = c.session
      /\ hook' = [hook EXCEPT !.pc = "deliver", !.refused = c.refused,
                              !.out = IF c.changed \/ Forced THEN c.packet ELSE None]
  BY <1>1 DEF Committed
<1>5. /\ IsRow(c.session)
      /\ c.session.fingerprint = c.packet
      /\ c.changed = (c.packet # session.fingerprint)
  BY <1>3, OutcomeFields
<1> HIDE DEF c
<1>6. /\ IsHook(hook)' /\ hook'.pc = "deliver"
      /\ hook'.out = IF c.changed \/ Forced THEN c.packet ELSE None
  BY <1>4 DEF DeliveryInv, IsHook, HookFields
<1>7. session'.fingerprint = c.packet /\ IsRow(session)'
  BY <1>4, <1>5 DEF IsRow
<1>8. CASE c.changed \/ Forced
  BY <1>6, <1>7, <1>8 DEF DeliveryInv, Agree
<1>9. CASE ~(c.changed \/ Forced)
  <2>1. hook'.out = None /\ c.packet = session.fingerprint
    BY <1>5, <1>6, <1>9
  <2>2. Agree
    BY <1>2, <1>9 DEF DeliveryInv, Forced
  <2>3. Agree'
    BY <1>2, <1>7, <2>1, <2>2 DEF Agree
  <2>4. QED
    BY <1>6, <1>7, <2>1, <2>3, NoneAssumption DEF DeliveryInv
<1>10. QED
  BY <1>8, <1>9

(* Before the advisory the fingerprint is blanked.                         *)
LEMMA DeliveryInvalidate ==
    ASSUME DeliveryInv, Invalidate
    PROVE  DeliveryInv'
<1>1. /\ hook.pc = "fail" /\ txn = None /\ txn' = None /\ UNCHANGED <<seen, severed>>
      /\ hook' = [hook EXCEPT !.pc = "deliver", !.out = Unavailable]
      /\ session' = IF session = None THEN None ELSE [session EXCEPT !.fingerprint = None]
  BY DEF Invalidate, Unlocked
<1>2. IsHook(hook)' /\ hook'.pc = "deliver" /\ hook'.out = Unavailable
  BY <1>1 DEF DeliveryInv, IsHook, HookFields
<1>3. Live' => session # None
  BY <1>1, <1>2 DEF Live
<1>4. session # None => IsRow(session)' /\ session'.fingerprint = None
  <2>1. session # None => IsRow(session)
    BY DEF DeliveryInv, Live
  <2>2. session # None => /\ IsRow([session EXCEPT !.fingerprint = None])
                          /\ [session EXCEPT !.fingerprint = None].fingerprint = None
    BY <2>1, InvalidatedFields
  <2>3. QED
    BY <1>1, <2>2 DEF IsRow
<1>5. QED
  BY <1>2, <1>3, <1>4 DEF DeliveryInv, Agree

(* InvalidateError keeps DeliveryInv.  (working_hook_output (suppress)) *)
LEMMA DeliveryInvalidateError ==
    ASSUME DeliveryInv, InvalidateError
    PROVE  DeliveryInv'
<1>1. /\ hook.pc = "fail" /\ severed' # {} /\ UNCHANGED <<session, txn, seen>>
      /\ hook' = [hook EXCEPT !.pc = "deliver", !.out = Unavailable]
  BY DEF InvalidateError
<1>2. IsHook(hook)' /\ hook'.pc = "deliver"
  BY <1>1 DEF DeliveryInv, IsHook, HookFields
<1>3. Live' => Live
  BY <1>1, <1>2 DEF Live
<1>4. QED
  BY <1>1, <1>2, <1>3 DEF DeliveryInv, Agree, IsRow

(* Deliver keeps DeliveryInv.  (_emit_hook_context) *)
LEMMA DeliveryDeliver ==
    ASSUME DeliveryInv, Deliver
    PROVE  DeliveryInv'
<1>1. /\ hook.pc = "deliver" /\ UNCHANGED <<session, txn>> /\ hook' = Idle
      /\ seen' = IF hook.out = None THEN seen ELSE hook.out
      /\ severed' = IF ~IsPacket(hook.out) THEN severed
                    ELSE IF session.fingerprint = hook.out THEN {}
                    ELSE severed \cup {"replaced"}
  BY DEF Deliver, Exit
<1>2. IsHook(hook)' /\ hook'.pc = "idle"
  BY <1>1 DEF Idle, IsHook, HookFields
<1>3. Live' => Live
  BY <1>1, <1>2 DEF Live
<1>4. Live => Agree'
  BY <1>1 DEF DeliveryInv, Agree, IsPacket
<1>5. QED
  BY <1>1, <1>2, <1>3, <1>4 DEF DeliveryInv, IsRow

(* Kill keeps DeliveryInv.  (the host's hook timeout) *)
LEMMA DeliveryKill ==
    ASSUME DeliveryInv, Kill
    PROVE  DeliveryInv'
<1>1. IsHook(hook)' /\ hook'.pc = "idle"
  BY DEF Kill, Exit, Idle, IsHook, HookFields
<1>2. /\ session' = session /\ seen' = seen /\ txn' \in {txn, None}
      /\ severed' = {} => severed = {} /\ hook.event # "SessionStart"
                            /\ ~(hook.pc = "deliver" /\ hook.out # None)
  BY DEF Kill, RolledBack
<1>3. hook.pc \in {"start", "context", "compile", "fail", "deliver"}
  BY DEF Kill, DeliveryInv
<1>4. Live' => Live
  BY <1>1, <1>2 DEF Live
<1>5. QED
  BY <1>1, <1>2, <1>3, <1>4 DEF DeliveryInv, Agree, IsRow

(* PreviewOpen keeps DeliveryInv.  (context) *)
LEMMA DeliveryPreviewOpen ==
    ASSUME DeliveryInv, NEW focus, NEW file, PreviewOpen(focus, file)
    PROVE  DeliveryInv'
<1>1. session # None /\ UNCHANGED <<session, hook, seen, severed>>
  BY DEF PreviewOpen
<1>2. Live
  BY <1>1 DEF Live
<1>3. QED
  BY <1>1, <1>2 DEF DeliveryInv, Agree, IsHook, IsRow

(* PreviewCompile keeps DeliveryInv.  (context, consume=False) *)
LEMMA DeliveryPreviewCompile ==
    ASSUME DeliveryInv, PreviewCompile
    PROVE  DeliveryInv'
<1>1. PICK late \in 0 .. 1 : Committed(late, Unconsumed(Outcome(late).session, session))
  BY DEF PreviewCompile
<1> DEFINE t == Outcome(late).session
           u == Unconsumed(t, session)
<1>2. txn # None /\ UNCHANGED <<hook, seen, severed>> /\ session' = u
  BY <1>1 DEF PreviewCompile, Committed
<1>3. Live /\ IsRow(session)
  BY <1>2 DEF DeliveryInv, Live
<1>4. IsRow(t)
  BY <1>3, OutcomeFields
<1> HIDE DEF t
<1>5. IsRow(u) /\ u.fingerprint = session.fingerprint
  BY <1>4, UnconsumedFields
<1> HIDE DEF u
<1>6. IsRow(session)' /\ (Agree => Agree') /\ session'.fingerprint = session.fingerprint
  BY <1>2, <1>5 DEF Agree, IsRow
<1>7. QED
  BY <1>2, <1>3, <1>6 DEF DeliveryInv, IsHook

(* Start keeps DeliveryInv.  (start) *)
LEMMA DeliveryStart ==
    ASSUME DeliveryInv, NEW goal, Start(goal)
    PROVE  DeliveryInv'
<1>1. /\ IsRow(NewSession(goal))
      /\ NewSession(goal).fingerprint = None
  BY NewSessionFields
<1>2. session' = NewSession(goal) /\ UNCHANGED <<hook, seen>>
  BY DEF Start, UserUnchanged
<1>3. IsRow(session)' /\ session'.fingerprint = None
  BY <1>1, <1>2 DEF IsRow
<1>4. QED
  BY <1>2, <1>3 DEF DeliveryInv, Agree, IsHook

(* Note keeps DeliveryInv.  (note) *)
LEMMA DeliveryNote ==
    ASSUME DeliveryInv, NEW kind, NEW file, Note(kind, file)
    PROVE  DeliveryInv'
<1>1. PICK n : session' = WithNote(session, n)
  BY DEF Note
<1>2. session # None /\ UNCHANGED <<hook, seen, severed>>
  BY DEF Note, UserUnchanged
<1>3. Live /\ IsRow(session)
  BY <1>2 DEF DeliveryInv, Live
<1>4. IsRow(WithNote(session, n)) /\ WithNote(session, n).fingerprint = session.fingerprint
  BY <1>3, WithNoteFields
<1>5. IsRow(session)' /\ session'.fingerprint = session.fingerprint
  BY <1>1, <1>4 DEF IsRow
<1>6. QED
  BY <1>2, <1>3, <1>5 DEF DeliveryInv, Agree, IsHook

(* A step that touches neither row, hook nor agent keeps DeliveryInv. *)
LEMMA DeliveryFrame ==
    ASSUME DeliveryInv, UNCHANGED <<session, txn, hook, seen, severed>>
    PROVE  DeliveryInv'
BY DEF DeliveryInv, Agree, IsHook, IsRow, Live

(* The whole next-state relation keeps it.                                 *)
LEMMA DeliveryNext == DeliveryInv /\ [Next]_vars => DeliveryInv'
<1> SUFFICES ASSUME DeliveryInv, [Next]_vars
             PROVE  DeliveryInv'
  OBVIOUS
<1>1. CASE UserPromptSubmit \/ SessionStart \/ ToolUse \/ GetWorkingContext
  BY <1>1, DeliveryBegin DEF UserPromptSubmit, SessionStart, ToolUse, GetWorkingContext
<1>2. CASE \E event \in HookEvents : LoadError(event) \/ LookError(event)
  BY <1>2, DeliveryLoadError, DeliveryLookError
<1>3. CASE HookStart
  BY <1>3, DeliveryHookStart
<1>4. CASE HookContext \/ HookCompile
  BY <1>4, DeliveryHookContext, DeliveryHookCompile
<1>5. CASE HookError
  BY <1>5, DeliveryRaise DEF HookError, RolledBack
<1>6. CASE Invalidate \/ InvalidateError
  BY <1>6, DeliveryInvalidate, DeliveryInvalidateError
<1>7. CASE Deliver \/ Kill
  BY <1>7, DeliveryDeliver, DeliveryKill
<1>8. CASE \/ \E p \in Prompts : PreviewOpen(p, None)
           \/ \E f \in Files : PreviewOpen(None, f)
           \/ PreviewCompile
  BY <1>8, DeliveryPreviewOpen, DeliveryPreviewCompile
<1>9. CASE \E p \in Prompts : Start(p)
  BY <1>9, DeliveryStart
<1>10. CASE Note("decision", None) \/ \E k \in NoteKinds, f \in Files : Note(k, f)
  BY <1>10, DeliveryNote
<1>11. CASE \/ \E m \in Memories : VerifyMemory(m)
            \/ \E e \in BOOLEAN, r \in Rooms : Configure(e, r)
            \/ SwitchLearning
            \/ \E m \in Memories, t \in BOOLEAN : Judge(m, t)
            \/ \E f \in Files, v \in Gone .. newest + 1 : Edit(f, v)
            \/ \E f \in Files : Commit(f)
  <2>1. UNCHANGED <<session, txn, hook, seen, severed>>
    BY <1>11 DEF VerifyMemory, Configure, SwitchLearning, Judge, Edit, Commit, UserUnchanged
  <2>2. QED
    BY <2>1, DeliveryFrame
<1>12. CASE UNCHANGED vars
  BY <1>12, DeliveryFrame DEF vars
<1>13. QED
  BY <1>1, <1>2, <1>3, <1>4, <1>5, <1>6, <1>7, <1>8, <1>9, <1>10, <1>11, <1>12 DEF Next

(* While no hook runs and nothing severed them, the recorded fingerprint   *)
(* is blank or the packet the agent holds (hooks.py 40-91, context() and   *)
(* invalidate_delivery in engine.py), for any constants and any number of  *)
(* failed transactions, failed looks, inspections and killed hooks.  What  *)
(* severs them is in the model: a store that could not be opened at a      *)
(* session start, a failed invalidation, a packet lost with its process, a *)
(* session start served nothing, an explicit --replace.                    *)
THEOREM AgentCurrentHolds == Spec => []AgentCurrent
<1>1. DeliveryInv => AgentCurrent
  BY DEF DeliveryInv, Agree, AgentCurrent, Live
<1>2. QED
  BY <1>1, DeliveryInit, DeliveryNext, PTL DEF Spec

-----------------------------------------------------------------------------
(* Baselines: the source versions a session's memories are bound to.       *)

(* What the editor and git do to a file: the tree is never behind HEAD,    *)
(* and HEAD is the last of the versions that were committed.               *)
VersionsInv ==
    /\ newest \in Nat
    /\ tree \in [Files -> Int] /\ head \in [Files -> Int]
    /\ log \in [Files -> SUBSET Int]
    /\ \A f \in Files : /\ head[f] <= newest /\ head[f] \in log[f]
                        /\ tree[f] = Gone \/ (head[f] <= tree[f] /\ tree[f] <= newest)

(* A memory was last touched at some version that is not newer than HEAD.  *)
TouchedInv ==
    /\ memory \in [Memories -> [digest : Int, trusted : BOOLEAN, committed : Int]]
    /\ \A m \in Memories : Anchor[m] # None => memory[m].committed <= head[Anchor[m]]

(* Every stored acknowledgement is one the user gave.                      *)
ExplicitInv ==
    /\ explicit = [m \in Memories |-> explicit[m]]
    /\ \A m \in Memories :
          explicit[m] # None => <<m, explicit[m].digest, explicit[m].version>> \in acked

(* A binding the session may hold for m: the user acknowledged it, it was  *)
(* at HEAD when m was last touched or before, or its file moved between    *)
(* the look at it and the question to git.                                 *)
EarnedFor(m, b) ==
    b # None => /\ Anchor[m] # None
                /\ \/ <<m, b.digest, b.version>> \in acked
                   \/ /\ b.version \in log[Anchor[m]] /\ b.version \in Int
                      /\ b.version <= memory[m].committed
                   \/ <<m, b.digest, b.version>> \in raced

(* Every baseline in the session row is earned. *)
SessionEarned == Live => \A m \in Memories : EarnedFor(m, session.bindings[m])

(* BaselineEarned with what it rests on: versions of a file only grow      *)
(* along HEAD, so a vote, which moves a memory's last touch to HEAD,       *)
(* cannot move it back behind a version that was bound.                    *)
BaselineInv == VersionsInv /\ TouchedInv /\ ExplicitInv /\ SessionEarned

(* A compilation binds only what was earned: what it finds acknowledged    *)
(* the user acknowledged, what it finds unchanged was bound before, and    *)
(* the bootstrap takes a version committed before the memory's last touch, *)
(* unless the file is no longer what the compilation read.                 *)
LEMMA BindingsEarned ==
    ASSUME VersionsInv, TouchedInv, ExplicitInv, NEW s, NEW look,
           \A m \in Memories : EarnedFor(m, s.bindings[m]),
           NEW m \in Memories
    PROVE  \/ EarnedFor(m, Bindings(s, look)[m])
           \/ Anchor[m] # None /\ Bindings(s, look)[m].version # tree[Anchor[m]]
<1> DEFINE now == Binding(m, look.hash[Anchor[m]])
<1>1. CASE ~(/\ m \in Candidates(s) /\ memory[m].trusted /\ Anchor[m] # None
             /\ Freshness(s, m, look) \in Usable)
  <2>1. Bindings(s, look)[m] = s.bindings[m]
    BY <1>1 DEF Bindings
  <2>2. QED
    BY <2>1
<1>2. CASE /\ m \in Candidates(s) /\ memory[m].trusted /\ Anchor[m] # None
           /\ Freshness(s, m, look) \in Usable
  <2>1. Bindings(s, look)[m] = now
    BY <1>2 DEF Bindings
  <2>2. now.digest = memory[m].digest /\ now.version = look.hash[Anchor[m]]
    BY DEF Binding
  <2> HIDE DEF now
  <2>3. \/ explicit[m] = now
        \/ s.bindings[m] # None /\ s.bindings[m] = now
        \/ InitialSourceFresh(m, look)
    BY <1>2 DEF Freshness, Usable, now
  <2>4. CASE explicit[m] = now
    BY <1>2, <2>1, <2>4 DEF ExplicitInv, EarnedFor
  <2>5. CASE s.bindings[m] # None /\ s.bindings[m] = now
    BY <2>1, <2>5
  <2>6. CASE InitialSourceFresh(m, look) /\ look.hash[Anchor[m]] = tree[Anchor[m]]
    <3>1. Anchor[m] \in Files
      BY <1>2, AnchorAssumption
    <3>2. tree[Anchor[m]] = head[Anchor[m]] /\ head[Anchor[m]] <= memory[m].committed
      BY <2>6 DEF InitialSourceFresh
    <3>3. head[Anchor[m]] \in Int /\ head[Anchor[m]] \in log[Anchor[m]]
      BY <3>1 DEF VersionsInv
    <3>4. /\ now.version \in Int /\ now.version <= memory[m].committed
          /\ now.version \in log[Anchor[m]]
      BY <2>2, <2>6, <3>2, <3>3
    <3>5. QED
      BY <1>2, <2>1, <3>4 DEF EarnedFor
  <2>7. CASE look.hash[Anchor[m]] # tree[Anchor[m]]
    BY <1>2, <2>1, <2>2, <2>7
  <2>8. QED
    BY <2>3, <2>4, <2>5, <2>6, <2>7
<1>3. QED
  BY <1>1, <1>2

(* Nothing is bound, acknowledged or edited at first.                      *)
LEMMA BaselineInit == Init => BaselineInv
<1> SUFFICES ASSUME Init PROVE BaselineInv
  OBVIOUS
<1>1. VersionsInv
  BY DEF Init, VersionsInv, Gone
<1>2. TouchedInv
  BY AnchorAssumption DEF Init, TouchedInv
<1>3. ExplicitInv
  BY DEF Init, ExplicitInv
<1>4. session = None /\ txn = None /\ hook.pc = "idle"
  BY DEF Init, Idle
<1>5. QED
  BY <1>1, <1>2, <1>3, <1>4 DEF BaselineInv, SessionEarned, Live

(* A step of the session that leaves files, memories and acknowledgements  *)
(* alone keeps the invariant when its bindings are earned.                 *)
LEMMA BaselineSession ==
    ASSUME BaselineInv, UNCHANGED <<tree, head, log, newest, memory, explicit, acked>>,
           SessionEarned'
    PROVE  BaselineInv'
<1>1. VersionsInv' /\ TouchedInv' /\ ExplicitInv'
  BY DEF BaselineInv, VersionsInv, TouchedInv, ExplicitInv
<1>2. QED
  BY <1>1 DEF BaselineInv

(* The session's bindings stay as they are, or all are blank.              *)
LEMMA BaselineKept ==
    ASSUME BaselineInv, UNCHANGED <<tree, head, log, newest, memory, explicit, acked, raced>>,
           \/ Live' => Live /\ session'.bindings = session.bindings
           \/ session'.bindings = [m \in Memories |-> None]
    PROVE  BaselineInv'
<1>1. SessionEarned'
  BY DEF BaselineInv, SessionEarned, EarnedFor
<1>2. QED
  BY <1>1, BaselineSession

(* A compilation commits bindings that are earned, or records that their   *)
(* files moved meanwhile.                                                  *)
LEMMA BaselineCommitted ==
    ASSUME BaselineInv, Live, NEW focus, NEW file, NEW look, NEW t, IsRow(session),
           t.bindings = Bindings(Focused(session, focus, file), look),
           session' = t, raced' = raced \cup Moved(t),
           UNCHANGED <<tree, head, log, newest, memory, explicit, acked>>
    PROVE  BaselineInv'
<1> DEFINE f == Focused(session, focus, file)
<1>1. f.bindings = session.bindings
  BY FocusedFields
<1> HIDE DEF f
<1>2. \A m \in Memories : EarnedFor(m, session.bindings[m])
  BY DEF BaselineInv, SessionEarned
<1>3. ASSUME NEW m \in Memories
      PROVE  EarnedFor(m, t.bindings[m]) \/ <<m, t.bindings[m].digest, t.bindings[m].version>> \in raced'
  <2>1. \/ EarnedFor(m, t.bindings[m])
        \/ Anchor[m] # None /\ t.bindings[m].version # tree[Anchor[m]]
    BY <1>1, <1>2, BindingsEarned DEF BaselineInv, f
  <2>2. CASE t.bindings[m] \in {None, session.bindings[m]}
    BY <1>2, <2>2 DEF EarnedFor
  <2>3. CASE /\ t.bindings[m] \notin {None, session.bindings[m]}
             /\ t.bindings[m].version # tree[Anchor[m]]
    BY <2>3 DEF Moved
  <2>4. QED
    BY <2>1, <2>2, <2>3
<1>4. ASSUME NEW m \in Memories
      PROVE  t.bindings[m] # None => Anchor[m] # None
  <2>1. t.bindings[m] # None => Anchor[m] # None \/ t.bindings[m] = f.bindings[m]
    BY DEF Bindings, f
  <2>2. QED
    BY <1>1, <1>2, <2>1 DEF EarnedFor
<1>5. ASSUME NEW m \in Memories, session'.bindings[m] # None
      PROVE  /\ Anchor[m] # None
             /\ \/ <<m, session'.bindings[m].digest, session'.bindings[m].version>> \in acked'
                \/ /\ session'.bindings[m].version \in log'[Anchor[m]]
                   /\ session'.bindings[m].version \in Int
                   /\ session'.bindings[m].version <= memory'[m].committed
                \/ <<m, session'.bindings[m].digest, session'.bindings[m].version>> \in raced'
  BY <1>3, <1>4, <1>5 DEF EarnedFor
<1>6. SessionEarned'
  BY <1>5 DEF SessionEarned, EarnedFor
<1>7. QED
  BY <1>6, BaselineSession

(* HookCompile keeps BaselineInv.  (working_hook_output (context)) *)
LEMMA BaselineHookCompile ==
    ASSUME BaselineInv, DeliveryInv, HookCompile
    PROVE  BaselineInv'
<1>1. PICK late \in 0 .. 1 : Committed(late, Outcome(late).session)
  BY DEF HookCompile
<1>2. Live /\ IsRow(session)
  BY DEF HookCompile, DeliveryInv, Live
<1> DEFINE look == [hash |-> txn.hash, git |-> late = 0]
           t == Outcome(late).session
<1>3. t.bindings = Bindings(Focused(session, txn.focus, txn.file), look)
  BY <1>2, OutcomeFields
<1>4. /\ session' = t /\ raced' = raced \cup Moved(t)
      /\ UNCHANGED <<tree, head, log, newest, memory, explicit, acked>>
  BY <1>1 DEF HookCompile, Committed, HookUnchanged
<1> HIDE DEF look, t
<1>5. QED
  BY <1>2, <1>3, <1>4, BaselineCommitted

(* PreviewCompile keeps BaselineInv.  (context, consume=False) *)
LEMMA BaselinePreviewCompile ==
    ASSUME BaselineInv, DeliveryInv, PreviewCompile
    PROVE  BaselineInv'
<1>1. PICK late \in 0 .. 1 : Committed(late, Unconsumed(Outcome(late).session, session))
  BY DEF PreviewCompile
<1>2. Live /\ IsRow(session)
  BY DEF PreviewCompile, DeliveryInv, Live
<1> DEFINE look == [hash |-> txn.hash, git |-> late = 0]
           c == Outcome(late).session
           t == Unconsumed(c, session)
<1>3. IsRow(c) /\ c.bindings = Bindings(Focused(session, txn.focus, txn.file), look)
  BY <1>2, OutcomeFields
<1> HIDE DEF c
<1>4. t.bindings = Bindings(Focused(session, txn.focus, txn.file), look)
  BY <1>3, UnconsumedFields
<1>5. /\ session' = t /\ raced' = raced \cup Moved(t)
      /\ UNCHANGED <<tree, head, log, newest, memory, explicit, acked>>
  BY <1>1 DEF PreviewCompile, Committed, HookUnchanged, c
<1> HIDE DEF look, t
<1>6. QED
  BY <1>2, <1>4, <1>5, BaselineCommitted

(* Every other step of a hook keeps the bindings, or starts without any.   *)
LEMMA BaselineHook ==
    ASSUME BaselineInv, DeliveryInv,
           \/ \E event, focus, file : Begin(event, focus, file)
           \/ \E event : LoadError(event) \/ LookError(event)
           \/ HookStart \/ HookContext \/ HookError
           \/ Invalidate \/ InvalidateError \/ Deliver \/ Kill
    PROVE  BaselineInv'
<1>0. UNCHANGED <<tree, head, log, newest, memory, explicit, acked, raced>>
  BY DEF Begin, LoadError, LookError, HookStart, HookContext, HookError, Invalidate,
         InvalidateError, Deliver, Kill, HookUnchanged
<1>h. IsHook(hook)
  BY DEF DeliveryInv
<1>1. ASSUME NEW event, NEW focus, NEW file, Begin(event, focus, file)
      PROVE  BaselineInv'
  <2>1. UNCHANGED <<session, txn>> /\ (Live' => Live)
    BY <1>1 DEF Begin, Idle, Live
  <2>2. QED
    BY <1>0, <2>1, BaselineKept
<1>2. ASSUME NEW event, LoadError(event) \/ LookError(event)
      PROVE  BaselineInv'
  <2>1. UNCHANGED <<session, txn>> /\ (Live' => Live)
    BY <1>2 DEF LoadError, LookError, Idle, Live
  <2>2. QED
    BY <1>0, <2>1, BaselineKept
<1>3. CASE HookStart
  <2>1. CASE session # None
    <3>1. session' = session
      BY <1>3, <2>1 DEF HookStart
    <3>2. QED
      BY <1>0, <2>1, <3>1, BaselineKept DEF Live
  <2>2. CASE session = None /\ ~Fits(config.room)
    <3>1. UNCHANGED <<session, txn>> /\ hook' = [hook EXCEPT !.pc = "fail"]
      BY <1>3, <2>2 DEF HookStart
    <3>2. hook'.pc = "fail"
      BY <1>h, <3>1 DEF IsHook, HookFields
    <3>3. QED
      BY <1>0, <3>1, <3>2, BaselineKept DEF Live
  <2>3. CASE session = None /\ Fits(config.room)
    <3>1. session' = NewSession(hook.focus)
      BY <1>3, <2>3 DEF HookStart
    <3>2. session'.bindings = [m \in Memories |-> None]
      BY <3>1, NewSessionFields
    <3>3. QED
      BY <1>0, <3>2, BaselineKept
  <2>4. QED
    BY <2>1, <2>2, <2>3
<1>4. CASE HookContext
  <2>1. session' = session /\ Live
    BY <1>4 DEF HookContext, Live
  <2>2. QED
    BY <1>0, <2>1, BaselineKept
<1>5. CASE HookError
  <2>1. session' = session /\ txn' \in {txn, None} /\ hook'.pc \notin {"context", "compile"}
    BY <1>5, <1>h DEF HookError, RolledBack, Raise, Exit, Idle, IsHook, HookFields
  <2>2. QED
    BY <1>0, <2>1, BaselineKept DEF Live
<1>6. CASE Invalidate
  <2>1. /\ hook'.pc \notin {"context", "compile"} /\ txn' = None
        /\ session = None => session' = None
    BY <1>6, <1>h DEF Invalidate, Unlocked, IsHook, HookFields
  <2>2. Live' => session # None
    BY <2>1 DEF Live
  <2>3. session # None => session'.bindings = session.bindings
    BY <1>6, InvalidatedFields DEF Invalidate, DeliveryInv, Live
  <2>4. QED
    BY <1>0, <2>2, <2>3, BaselineKept DEF Live
<1>7. CASE InvalidateError
  <2>1. UNCHANGED <<session, txn>> /\ hook'.pc \notin {"context", "compile"}
    BY <1>7, <1>h DEF InvalidateError, IsHook, HookFields
  <2>2. QED
    BY <1>0, <2>1, BaselineKept DEF Live
<1>8. CASE Deliver \/ Kill
  <2>1. session' = session /\ txn' \in {txn, None} /\ hook'.pc \notin {"context", "compile"}
    BY <1>8 DEF Deliver, Kill, RolledBack, Exit, Idle
  <2>2. QED
    BY <1>0, <2>1, BaselineKept DEF Live
<1>9. QED
  BY <1>1, <1>2, <1>3, <1>4, <1>5, <1>6, <1>7, <1>8

(* Opening an inspection binds nothing yet.                                *)
LEMMA BaselinePreviewOpen ==
    ASSUME BaselineInv, NEW focus, NEW file, PreviewOpen(focus, file)
    PROVE  BaselineInv'
<1>1. /\ session # None /\ session' = session
      /\ UNCHANGED <<tree, head, log, newest, memory, explicit, acked, raced>>
  BY DEF PreviewOpen
<1>2. QED
  BY <1>1, BaselineKept DEF Live

(* Starting a session and recording a note bind nothing.                   *)
LEMMA BaselineStart ==
    ASSUME BaselineInv, NEW goal, Start(goal)
    PROVE  BaselineInv'
<1>1. session'.bindings = [m \in Memories |-> None]
  BY NewSessionFields DEF Start
<1>2. UNCHANGED <<tree, head, log, newest, memory, explicit, acked, raced>>
  BY DEF Start, UserUnchanged
<1>3. QED
  BY <1>1, <1>2, BaselineKept

(* Note keeps BaselineInv.  (note) *)
LEMMA BaselineNote ==
    ASSUME BaselineInv, DeliveryInv, NEW kind, NEW file, Note(kind, file)
    PROVE  BaselineInv'
<1>1. PICK n : session' = WithNote(session, n)
  BY DEF Note
<1>2. session # None /\ UNCHANGED <<tree, head, log, newest, memory, explicit, acked, raced>>
  BY DEF Note, UserUnchanged
<1>3. session'.bindings = session.bindings
  BY <1>1, <1>2, WithNoteFields DEF DeliveryInv, Live
<1>4. QED
  BY <1>2, <1>3, BaselineKept DEF Live

(* An acknowledgement is remembered with the binding it stores.            *)
LEMMA BaselineVerify ==
    ASSUME BaselineInv, NEW m \in Memories, VerifyMemory(m)
    PROVE  BaselineInv'
<1> DEFINE now == Binding(m, tree[Anchor[m]])
<1>1. /\ explicit' = [explicit EXCEPT ![m] = now]
      /\ acked' = acked \cup {<<m, memory[m].digest, tree[Anchor[m]]>>}
      /\ UNCHANGED <<tree, head, log, newest, memory, session, txn, hook, raced>>
  BY DEF VerifyMemory, UserUnchanged
<1>2. now.digest = memory[m].digest /\ now.version = tree[Anchor[m]]
  BY DEF Binding
<1> HIDE DEF now
<1>3. VersionsInv' /\ TouchedInv'
  BY <1>1 DEF BaselineInv, VersionsInv, TouchedInv
<1>4. explicit' = [n \in Memories |-> explicit'[n]]
  BY <1>1 DEF BaselineInv, ExplicitInv
<1>5. ASSUME NEW n \in Memories, explicit'[n] # None
      PROVE  <<n, explicit'[n].digest, explicit'[n].version>> \in acked'
  <2>1. CASE n = m
    <3>1. explicit'[n] = now
      BY <1>1, <2>1 DEF BaselineInv, ExplicitInv
    <3>2. QED
      BY <1>1, <1>2, <2>1, <3>1
  <2>2. CASE n # m
    <3>1. explicit'[n] = explicit[n]
      BY <1>1, <2>2 DEF BaselineInv, ExplicitInv
    <3>2. QED
      BY <1>1, <1>5, <3>1 DEF BaselineInv, ExplicitInv
  <2>3. QED
    BY <2>1, <2>2
<1>6. SessionEarned'
  BY <1>1 DEF BaselineInv, SessionEarned, EarnedFor, Live
<1>7. QED
  BY <1>3, <1>4, <1>5, <1>6 DEF BaselineInv, ExplicitInv

(* A vote moves the memory's last touch to HEAD, which is no earlier.      *)
LEMMA BaselineJudge ==
    ASSUME BaselineInv, NEW m \in Memories, NEW t \in BOOLEAN, Judge(m, t)
    PROVE  BaselineInv'
<1> DEFINE at == IF Anchor[m] = None THEN 0 ELSE head[Anchor[m]]
<1>0. PICK k \in Int : k = memory[m].digest
  BY DEF BaselineInv, TouchedInv
<1>1. /\ memory' = [memory EXCEPT ![m] = [digest |-> k + 1, trusted |-> t, committed |-> at]]
      /\ UNCHANGED <<tree, head, log, newest, explicit, acked, session, txn, hook, raced>>
  BY <1>0 DEF Judge, UserUnchanged
<1>2. at \in Int
  BY AnchorAssumption DEF BaselineInv, VersionsInv
<1>3. k + 1 \in Int
  OBVIOUS
<1> HIDE DEF at
<1>4. memory' \in [Memories -> [digest : Int, trusted : BOOLEAN, committed : Int]]
  BY <1>1, <1>2, <1>3 DEF BaselineInv, TouchedInv
<1>5. /\ memory'[m].committed = at
      /\ \A n \in Memories : n # m => memory'[n] = memory[n]
  BY <1>1 DEF BaselineInv, TouchedInv
<1>6. Anchor[m] # None => at = head[Anchor[m]] /\ memory[m].committed <= at
  BY DEF at, BaselineInv, TouchedInv
<1>7. VersionsInv' /\ ExplicitInv'
  BY <1>1 DEF BaselineInv, VersionsInv, ExplicitInv
<1>8. TouchedInv'
  <2>1. ASSUME NEW n \in Memories, Anchor[n] # None
        PROVE  memory'[n].committed <= head[Anchor[n]]
    <3>1. head[Anchor[n]] \in Int
      BY <2>1, AnchorAssumption DEF BaselineInv, VersionsInv
    <3>2. QED
      BY <2>1, <3>1, <1>5, <1>6 DEF BaselineInv, TouchedInv
  <2>2. QED
    BY <1>1, <1>4, <2>1 DEF TouchedInv
<1>9. ASSUME NEW n \in Memories, NEW b, EarnedFor(n, b)
      PROVE  EarnedFor(n, b)'
  <2>1. CASE n # m
    BY <1>1, <1>5, <1>9, <2>1 DEF EarnedFor
  <2>2. CASE n = m
    <3>1. memory[m].committed \in Int
      BY DEF BaselineInv, TouchedInv
    <3>2. b # None /\ b.version \in Int /\ b.version <= memory[m].committed /\ Anchor[m] # None
            => b.version <= memory'[m].committed
      BY <1>2, <1>5, <1>6, <3>1
    <3>3. QED
      BY <1>1, <1>9, <2>2, <3>2 DEF EarnedFor
  <2>3. QED
    BY <2>1, <2>2
<1>10. SessionEarned'
  BY <1>1, <1>9 DEF BaselineInv, SessionEarned, Live
<1>11. QED
  BY <1>7, <1>8, <1>10 DEF BaselineInv

(* The editor never puts the tree behind HEAD.                             *)
LEMMA BaselineEdit ==
    ASSUME BaselineInv, NEW f \in Files, NEW v \in Gone .. newest + 1, Edit(f, v)
    PROVE  BaselineInv'
<1>0. newest \in Nat /\ head[f] \in Int /\ head[f] <= newest
  BY DEF BaselineInv, VersionsInv
<1>1. /\ v \in Int /\ v \in {newest + 1, Gone, head[f]}
      /\ tree' = [tree EXCEPT ![f] = v]
      /\ newest' = IF v = newest + 1 THEN v ELSE newest
      /\ UNCHANGED <<head, log, memory, explicit, acked, session, txn, hook, raced>>
  BY <1>0 DEF Edit, UserUnchanged, Gone
<1>2. newest' \in Nat /\ newest <= newest' /\ (v = newest + 1 => newest' = v)
  BY <1>0, <1>1
<1>3. tree' \in [Files -> Int]
  BY <1>1 DEF BaselineInv, VersionsInv
<1>4. v = Gone \/ (head[f] <= v /\ v <= newest')
  BY <1>0, <1>1, <1>2
<1>5. ASSUME NEW g \in Files
      PROVE  head[g] <= newest' /\ (tree'[g] = Gone \/ (head[g] <= tree'[g] /\ tree'[g] <= newest'))
  <2>1. head[g] \in Int /\ tree[g] \in Int /\ head[g] <= newest
    BY DEF BaselineInv, VersionsInv
  <2>2. head[g] <= newest'
    BY <1>0, <1>2, <2>1
  <2>3. CASE g = f
    BY <1>1, <1>4, <2>2, <2>3 DEF BaselineInv, VersionsInv
  <2>4. CASE g # f
    <3>1. tree'[g] = tree[g] /\ (tree[g] = Gone \/ (head[g] <= tree[g] /\ tree[g] <= newest))
      BY <1>1, <2>4 DEF BaselineInv, VersionsInv
    <3>2. QED
      BY <1>0, <1>2, <2>1, <2>2, <3>1
  <2>5. QED
    BY <2>3, <2>4
<1>6. VersionsInv'
  BY <1>1, <1>2, <1>3, <1>5 DEF BaselineInv, VersionsInv
<1>7. TouchedInv' /\ ExplicitInv' /\ SessionEarned'
  BY <1>1 DEF BaselineInv, TouchedInv, ExplicitInv, SessionEarned, EarnedFor, Live
<1>8. QED
  BY <1>6, <1>7 DEF BaselineInv

(* A commit moves HEAD forward to the tree.                                *)
LEMMA BaselineCommit ==
    ASSUME BaselineInv, NEW f \in Files, Commit(f)
    PROVE  BaselineInv'
<1>1. /\ tree[f] # Gone /\ head' = [head EXCEPT ![f] = tree[f]]
      /\ log' = [log EXCEPT ![f] = @ \cup {tree[f]}]
      /\ UNCHANGED <<tree, newest, memory, explicit, acked, session, txn, hook, raced>>
  BY DEF Commit, UserUnchanged
<1>2. tree[f] \in Int /\ head[f] \in Int /\ head[f] <= tree[f] /\ tree[f] <= newest
  BY <1>1 DEF BaselineInv, VersionsInv
<1>3. head' \in [Files -> Int] /\ head'[f] = tree[f]
      /\ \A g \in Files : g # f => head'[g] = head[g]
  BY <1>1, <1>2 DEF BaselineInv, VersionsInv
<1>31. /\ log' \in [Files -> SUBSET Int] /\ tree[f] \in log'[f]
       /\ \A g \in Files : log[g] \subseteq log'[g]
  BY <1>1, <1>2 DEF BaselineInv, VersionsInv
<1>4. VersionsInv'
  <2>1. \A g \in Files : /\ head'[g] <= newest /\ head'[g] \in log'[g]
                         /\ tree[g] = Gone \/ (head'[g] <= tree[g] /\ tree[g] <= newest)
    BY <1>1, <1>2, <1>3, <1>31 DEF BaselineInv, VersionsInv
  <2>2. QED
    BY <1>1, <1>3, <1>31, <2>1 DEF BaselineInv, VersionsInv
<1>5. ASSUME NEW m \in Memories, Anchor[m] # None
      PROVE  memory[m].committed <= head'[Anchor[m]]
  <2>1. Anchor[m] \in Files
    BY <1>5, AnchorAssumption
  <2>2. /\ memory[m].committed \in Int /\ head[Anchor[m]] \in Int
        /\ memory[m].committed <= head[Anchor[m]]
    BY <1>5, <2>1 DEF BaselineInv, VersionsInv, TouchedInv
  <2>3. QED
    BY <1>2, <1>3, <2>1, <2>2
<1>6. TouchedInv'
  BY <1>1, <1>5 DEF BaselineInv, TouchedInv
<1>7. ExplicitInv' /\ SessionEarned'
  <2>1. ExplicitInv'
    BY <1>1 DEF BaselineInv, ExplicitInv
  <2>2. \A m \in Memories : Anchor[m] # None => log[Anchor[m]] \subseteq log'[Anchor[m]]
    BY <1>31, AnchorAssumption
  <2>3. SessionEarned'
    BY <1>1, <2>2 DEF BaselineInv, SessionEarned, EarnedFor, Live
  <2>4. QED
    BY <2>1, <2>3
<1>8. QED
  BY <1>4, <1>6, <1>7 DEF BaselineInv

(* A step that touches nothing it speaks of keeps BaselineInv. *)
LEMMA BaselineFrame ==
    ASSUME BaselineInv, UNCHANGED <<tree, head, log, newest, memory, explicit, acked, session,
                                    txn, hook, raced>>
    PROVE  BaselineInv'
BY BaselineKept DEF Live

(* Every step keeps BaselineInv: one lemma per action. *)
LEMMA BaselineNext == BaselineInv /\ DeliveryInv /\ [Next]_vars => BaselineInv'
<1> SUFFICES ASSUME BaselineInv, DeliveryInv, [Next]_vars
             PROVE  BaselineInv'
  OBVIOUS
<1>1. CASE UserPromptSubmit \/ SessionStart \/ ToolUse \/ GetWorkingContext
  BY <1>1, BaselineHook DEF UserPromptSubmit, SessionStart, ToolUse, GetWorkingContext
<1>2. CASE \/ \E event \in HookEvents : LoadError(event) \/ LookError(event)
           \/ HookStart \/ HookContext \/ HookError
           \/ Invalidate \/ InvalidateError \/ Deliver \/ Kill
  BY <1>2, BaselineHook
<1>3. CASE HookCompile \/ PreviewCompile
  BY <1>3, BaselineHookCompile, BaselinePreviewCompile
<1>4. CASE (\E p \in Prompts : PreviewOpen(p, None)) \/ (\E f \in Files : PreviewOpen(None, f))
  BY <1>4, BaselinePreviewOpen
<1>5. CASE \E p \in Prompts : Start(p)
  BY <1>5, BaselineStart
<1>6. CASE Note("decision", None) \/ \E k \in NoteKinds, f \in Files : Note(k, f)
  BY <1>6, BaselineNote
<1>7. CASE \E m \in Memories : VerifyMemory(m)
  BY <1>7, BaselineVerify
<1>8. CASE \E m \in Memories, t \in BOOLEAN : Judge(m, t)
  BY <1>8, BaselineJudge
<1>9. CASE \E f \in Files, v \in Gone .. newest + 1 : Edit(f, v)
  BY <1>9, BaselineEdit
<1>10. CASE \E f \in Files : Commit(f)
  BY <1>10, BaselineCommit
<1>11. CASE (\E e \in BOOLEAN, r \in Rooms : Configure(e, r)) \/ SwitchLearning \/ UNCHANGED vars
  <2>1. UNCHANGED <<tree, head, log, newest, memory, explicit, acked, session, txn, hook, raced>>
    BY <1>11 DEF Configure, SwitchLearning, UserUnchanged, vars
  <2>2. QED
    BY <2>1, BaselineFrame
<1>12. QED
  BY <1>1, <1>2, <1>3, <1>4, <1>5, <1>6, <1>7, <1>8, <1>9, <1>10, <1>11 DEF Next

(* A session binds a memory to a source version only if the user           *)
(* acknowledged it or it was at HEAD when the memory was last touched or   *)
(* before (_freshness and _initial_source_fresh in engine.py), the one     *)
(* exception being a file that moves between the hash that is bound and    *)
(* git's answer about it; for any memories and files and any sequence of   *)
(* edits, commits, votes, refreshes, inspections, restarts and failures,   *)
(* the editor and git working during a compilation included.               *)
THEOREM BaselineEarnedHolds == Spec => []BaselineEarned
<1>1. BaselineInv => BaselineEarned
  BY DEF BaselineInv, SessionEarned, EarnedFor, BaselineEarned, Earned, Live
<1>2. QED
  BY <1>1, DeliveryInit, DeliveryNext, BaselineInit, BaselineNext, PTL DEF Spec

-----------------------------------------------------------------------------
(* What a packet contains. *)

(* Induction over the naturals, with a set for the property. *)
LEMMA NatSetInduction ==
    ASSUME NEW P, 0 \in P, \A n \in Nat : n \in P => n + 1 \in P
    PROVE  \A n \in Nat : n \in P
<1> DEFINE T == Nat \ P
<1>1. SUFFICES ASSUME T # {} PROVE FALSE
  OBVIOUS
<1>2. PICK m \in T : \A k \in T : <<k, m>> \notin OpToRel(<, Nat)
  BY <1>1, WFMin, NatLessThanWellFounded, Zenon
<1>3. \A k \in T : ~(k < m)
  BY <1>2, Zenon DEF OpToRel
<1>4. m # 0 /\ m \in Nat /\ m - 1 \in Nat /\ m - 1 < m
  OBVIOUS
<1>5. m - 1 \in P
  BY <1>3, <1>4
<1>6. QED
  BY <1>4, <1>5

(* g lists what the first i elements of q leave when filtered by S. *)
IsKept(g, q, S, n) ==
    g = [i \in 0 .. n |-> IF i = 0 THEN << >>
                          ELSE IF q[i] \in S THEN Append(g[i - 1], q[i]) ELSE g[i - 1]]

(* Only's recursion defines a function. *)
LEMMA OnlyExists ==
    ASSUME NEW R, NEW q \in Seq(R), NEW S
    PROVE  \E g : IsKept(g, q, S, Len(q))
<1> DEFINE P == {n \in Nat : \E g : IsKept(g, q, S, n)}
<1>1. 0 \in P
  <2>1. IsKept([i \in 0 .. 0 |-> << >>], q, S, 0)
    BY DEF IsKept
  <2>2. QED
    BY <2>1
<1>2. ASSUME NEW n \in Nat, n \in P PROVE n + 1 \in P
  <2>1. PICK g : IsKept(g, q, S, n)
    BY <1>2
  <2> DEFINE x == IF q[n + 1] \in S THEN Append(g[n], q[n + 1]) ELSE g[n]
             h == [i \in 0 .. n + 1 |-> IF i = n + 1 THEN x ELSE g[i]]
             step(f, i) == IF i = 0 THEN << >>
                          ELSE IF q[i] \in S THEN Append(f[i - 1], q[i]) ELSE f[i - 1]
  <2>2. ASSUME NEW i \in 0 .. n + 1 PROVE h[i] = step(h, i)
    <3>1. CASE i = n + 1
      <4>1. i # 0 /\ i - 1 = n /\ n \in 0 .. n + 1 /\ n # n + 1
        BY <3>1
      <4>2. h[n] = g[n]
        BY <4>1
      <4>3. h[i] = x
        BY <3>1
      <4>4. QED
        BY <3>1, <4>1, <4>2, <4>3
    <3>2. CASE i # n + 1 /\ i # 0
      <4>1. i \in 0 .. n /\ i - 1 \in 0 .. n + 1 /\ i - 1 # n + 1 /\ i - 1 \in 0 .. n
        BY <3>2
      <4>2. h[i] = g[i] /\ h[i - 1] = g[i - 1]
        BY <3>2, <4>1
      <4>3. g[i] = step(g, i)
        BY <2>1, <4>1 DEF IsKept
      <4>4. QED
        BY <4>2, <4>3
    <3>3. CASE i = 0
      <4>1. 0 \in 0 .. n /\ 0 # n + 1
        OBVIOUS
      <4>2. g[0] = << >>
        BY <2>1, <4>1 DEF IsKept
      <4>3. QED
        BY <3>3, <4>1, <4>2
    <3>4. QED
      BY <3>1, <3>2, <3>3
  <2>3. h = [i \in 0 .. n + 1 |-> step(h, i)]
    BY <2>2
  <2>4. IsKept(h, q, S, n + 1)
    BY <2>3 DEF IsKept
  <2>5. QED
    BY <2>4
<1> HIDE DEF P
<1>3. \A n \in Nat : n \in P
  BY <1>1, <1>2, NatSetInduction
<1>4. Len(q) \in P
  BY <1>3
<1>5. QED
  BY <1>4 DEF P

(* Only is a value of that function. *)
LEMMA OnlyIsKept ==
    ASSUME NEW R, NEW q \in Seq(R), NEW S
    PROVE  \E g : IsKept(g, q, S, Len(q)) /\ Only(q, S) = g[Len(q)]
<1> DEFINE g == CHOOSE g : IsKept(g, q, S, Len(q))
<1>1. IsKept(g, q, S, Len(q))
  BY OnlyExists
<1>2. Only(q, S) = g[Len(q)]
  BY DEF Only, IsKept
<1>3. QED
  BY <1>1, <1>2

(* The elements of a sequence, by index. *)
LEMMA RangeSeq ==
    ASSUME NEW R, NEW q \in Seq(R)
    PROVE  Range(q) = {q[i] : i \in 1 .. Len(q)}
BY DEF Range

(* Appending adds one element. *)
LEMMA RangeAppend ==
    ASSUME NEW R, NEW q \in Seq(R), NEW x \in R
    PROVE  Range(Append(q, x)) = Range(q) \cup {x}
<1> DEFINE a == Append(q, x)
<1>1. a \in Seq(R) /\ Len(a) = Len(q) + 1
  OBVIOUS
<1>2. \A i \in 1 .. Len(q) : a[i] = q[i]
  OBVIOUS
<1>3. a[Len(q) + 1] = x
  OBVIOUS
<1>4. Range(a) = {a[i] : i \in 1 .. Len(a)} /\ Range(q) = {q[i] : i \in 1 .. Len(q)}
  BY <1>1, RangeSeq
<1> HIDE DEF a
<1>5. 1 .. Len(a) = (1 .. Len(q)) \cup {Len(q) + 1}
  BY <1>1
<1>6. QED
  BY <1>2, <1>3, <1>4, <1>5 DEF a

(* A filtered list: no longer than the list, and exactly its elements in S. *)
LEMMA OnlyFacts ==
    ASSUME NEW R, NEW q \in Seq(R), NEW S
    PROVE  /\ Only(q, S) \in Seq(R)
           /\ Len(Only(q, S)) <= Len(q)
           /\ Range(Only(q, S)) = Range(q) \cap S
<1>1. PICK g : IsKept(g, q, S, Len(q)) /\ Only(q, S) = g[Len(q)]
  BY OnlyIsKept
<1> DEFINE Upto(n) == {q[j] : j \in 1 .. n}
           P == {n \in Nat : n <= Len(q) => /\ g[n] \in Seq(R)
                                            /\ Len(g[n]) <= n
                                            /\ Range(g[n]) = Upto(n) \cap S}
<1>2. 0 \in P
  <2>1. g[0] = << >>
    BY <1>1 DEF IsKept
  <2>2. Range(<< >>) = {} /\ Upto(0) = {} /\ Len(<< >>) = 0 /\ << >> \in Seq(R)
    BY DEF Range
  <2> HIDE DEF Upto
  <2>3. g[0] \in Seq(R) /\ Len(g[0]) <= 0 /\ Range(g[0]) = Upto(0) \cap S
    BY <2>1, <2>2
  <2>4. QED
    BY <2>3
<1>3. ASSUME NEW n \in Nat, n \in P PROVE n + 1 \in P
  <2> SUFFICES ASSUME n + 1 <= Len(q)
               PROVE  /\ g[n + 1] \in Seq(R)
                      /\ Len(g[n + 1]) <= n + 1
                      /\ Range(g[n + 1]) = Upto(n + 1) \cap S
    OBVIOUS
  <2>1. g[n] \in Seq(R) /\ Len(g[n]) <= n /\ Range(g[n]) = Upto(n) \cap S
    BY <1>3
  <2>2. n + 1 \in 0 .. Len(q) /\ n + 1 # 0 /\ (n + 1) - 1 = n /\ n + 1 \in 1 .. Len(q)
    OBVIOUS
  <2>3. g[n + 1] = IF q[n + 1] \in S THEN Append(g[n], q[n + 1]) ELSE g[n]
    BY <1>1, <2>2 DEF IsKept
  <2>4. q[n + 1] \in R
    BY <2>2
  <2>5. Upto(n + 1) = Upto(n) \cup {q[n + 1]}
    <3>1. 1 .. n + 1 = (1 .. n) \cup {n + 1}
      OBVIOUS
    <3>2. QED
      BY <3>1
  <2> HIDE DEF Upto
  <2>6. CASE q[n + 1] \in S
    <3>1. g[n + 1] = Append(g[n], q[n + 1])
      BY <2>3, <2>6
    <3>2. Range(g[n + 1]) = Range(g[n]) \cup {q[n + 1]}
      BY <3>1, <2>1, <2>4, RangeAppend
    <3>3. g[n + 1] \in Seq(R) /\ Len(g[n + 1]) = Len(g[n]) + 1
      BY <3>1, <2>1, <2>4
    <3>4. QED
      BY <2>1, <2>5, <2>6, <3>2, <3>3
  <2>7. CASE q[n + 1] \notin S
    BY <2>1, <2>3, <2>5, <2>7
  <2>8. QED
    BY <2>6, <2>7
<1> HIDE DEF P
<1>4. \A n \in Nat : n \in P
  BY <1>2, <1>3, NatSetInduction
<1>5. Len(q) \in P /\ Len(q) <= Len(q)
  BY <1>4
<1>6. Range(q) = Upto(Len(q))
  BY RangeSeq
<1>7. QED
  BY <1>1, <1>5, <1>6 DEF P

-----------------------------------------------------------------------------
(* What append() leaves of a packet under construction. *)
PackType == [lines : Seq(Line), used : Nat, refused : Seq(Line)]

(* f lists the packet after each of the first n lines. *)
IsPacked(f, lines, start, room, n) ==
    f = [i \in 0 .. n |-> IF i = 0 THEN start ELSE Appended(f[i - 1], lines[i], room)]

(* A memory of these lines says what this line would say. *)
Echoed(line, S) == line[1] = "memory" /\ \E l \in S : l[1] = "memory" /\ Text[l[2]] = Text[line[2]]

(* A line is taken, refused, or a memory whose text is there already. *)
Settled(line, taken, refused) == line \in taken \/ line \in refused \/ Echoed(line, taken)

(* Packed's recursion defines a function. *)
LEMMA PackedExists ==
    ASSUME NEW lines \in Seq(Line), NEW start, NEW room
    PROVE  \E f : IsPacked(f, lines, start, room, Len(lines))
<1> DEFINE P == {n \in Nat : \E f : IsPacked(f, lines, start, room, n)}
<1>1. 0 \in P
  <2>1. IsPacked([i \in 0 .. 0 |-> start], lines, start, room, 0)
    BY DEF IsPacked
  <2>2. QED
    BY <2>1
<1>2. ASSUME NEW n \in Nat, n \in P PROVE n + 1 \in P
  <2>1. PICK f : IsPacked(f, lines, start, room, n)
    BY <1>2
  <2> DEFINE step(e, i) == IF i = 0 THEN start ELSE Appended(e[i - 1], lines[i], room)
             x == Appended(f[n], lines[n + 1], room)
             h == [i \in 0 .. n + 1 |-> IF i = n + 1 THEN x ELSE f[i]]
  <2>2. ASSUME NEW i \in 0 .. n + 1 PROVE h[i] = step(h, i)
    <3>1. CASE i = n + 1
      <4>1. i # 0 /\ i - 1 = n /\ n \in 0 .. n + 1 /\ n # n + 1
        BY <3>1
      <4>2. h[n] = f[n]
        BY <4>1
      <4>3. h[i] = x
        BY <3>1
      <4>4. QED
        BY <3>1, <4>1, <4>2, <4>3
    <3>2. CASE i # n + 1 /\ i # 0
      <4>1. i \in 0 .. n /\ i - 1 \in 0 .. n + 1 /\ i - 1 # n + 1 /\ i - 1 \in 0 .. n
        BY <3>2
      <4>2. h[i] = f[i] /\ h[i - 1] = f[i - 1]
        BY <3>2, <4>1
      <4>3. f[i] = step(f, i)
        BY <2>1, <4>1 DEF IsPacked
      <4>4. QED
        BY <4>2, <4>3
    <3>3. CASE i = 0
      <4>1. 0 \in 0 .. n /\ 0 # n + 1
        OBVIOUS
      <4>2. f[0] = start
        BY <2>1, <4>1 DEF IsPacked
      <4>3. QED
        BY <3>3, <4>1, <4>2
    <3>4. QED
      BY <3>1, <3>2, <3>3
  <2>3. h = [i \in 0 .. n + 1 |-> step(h, i)]
    BY <2>2
  <2>4. IsPacked(h, lines, start, room, n + 1)
    BY <2>3 DEF IsPacked
  <2>5. QED
    BY <2>4
<1> HIDE DEF P
<1>3. \A n \in Nat : n \in P
  BY <1>1, <1>2, NatSetInduction
<1>4. Len(lines) \in P
  BY <1>3
<1>5. QED
  BY <1>4 DEF P

(* Packed is a value of that function. *)
LEMMA PackedIs ==
    ASSUME NEW lines \in Seq(Line), NEW start, NEW room
    PROVE  \E f : /\ IsPacked(f, lines, start, room, Len(lines))
                  /\ Packed(lines, start, room) = f[Len(lines)]
<1> DEFINE f == CHOOSE f : IsPacked(f, lines, start, room, Len(lines))
<1>1. IsPacked(f, lines, start, room, Len(lines))
  BY PackedExists
<1>2. Packed(lines, start, room) = f[Len(lines)]
  BY DEF Packed, IsPacked
<1>3. QED
  BY <1>1, <1>2

(* Appending one line: it is settled, and nothing is lost. *)
LEMMA AppendedFacts ==
    ASSUME NEW acc \in PackType, NEW line \in Line, NEW room \in Nat
    PROVE  /\ Appended(acc, line, room) \in PackType
           /\ Range(acc.lines) \subseteq Range(Appended(acc, line, room).lines)
           /\ Range(acc.refused) \subseteq Range(Appended(acc, line, room).refused)
           /\ Range(Appended(acc, line, room).lines) \subseteq Range(acc.lines) \cup {line}
           /\ Settled(line, Range(Appended(acc, line, room).lines),
                            Range(Appended(acc, line, room).refused))
<1> DEFINE taken == Append(acc.lines, line)
           left == Append(acc.refused, line)
           used == acc.used + Size(line)
<1>1. /\ acc.lines \in Seq(Line) /\ acc.refused \in Seq(Line) /\ acc.used \in Nat
      /\ Size(line) \in Nat
  BY DEF PackType, Size
<1>2. /\ Range(taken) = Range(acc.lines) \cup {line}
      /\ Range(left) = Range(acc.refused) \cup {line}
      /\ taken \in Seq(Line) /\ left \in Seq(Line) /\ used \in Nat
  BY <1>1, RangeAppend
<1>3. Appended(acc, line, room) = IF Repeats(acc.lines, line) THEN acc
                                  ELSE IF used <= room
                                  THEN [acc EXCEPT !.lines = taken, !.used = used]
                                  ELSE [acc EXCEPT !.refused = left]
  BY DEF Appended
<1>31. Repeats(acc.lines, line) => Echoed(line, Range(acc.lines))
  BY DEF Repeats, Echoed, Range
<1> HIDE DEF taken, left, used
<1>4. /\ [acc EXCEPT !.lines = taken, !.used = used] \in PackType
      /\ [acc EXCEPT !.lines = taken, !.used = used].lines = taken
      /\ [acc EXCEPT !.lines = taken, !.used = used].refused = acc.refused
      /\ [acc EXCEPT !.refused = left] \in PackType
      /\ [acc EXCEPT !.refused = left].lines = acc.lines
      /\ [acc EXCEPT !.refused = left].refused = left
  BY <1>2 DEF PackType
<1> HIDE DEF Repeats, Echoed
<1>5. QED
  BY <1>2, <1>3, <1>31, <1>4 DEF Settled

(* More lines settle no fewer. *)
LEMMA SettledMore ==
    ASSUME NEW line, NEW A, NEW B, NEW C, NEW D, Settled(line, A, B), A \subseteq C, B \subseteq D
    PROVE  Settled(line, C, D)
BY DEF Settled, Echoed

(* Every line is settled, and nothing already there is lost. *)
LEMMA PackedFacts ==
    ASSUME NEW lines \in Seq(Line), NEW start \in PackType, NEW room \in Nat
    PROVE  LET r == Packed(lines, start, room)
           IN  /\ r \in PackType
               /\ Range(start.lines) \subseteq Range(r.lines)
               /\ Range(start.refused) \subseteq Range(r.refused)
               /\ Range(r.lines) \subseteq Range(start.lines) \cup Range(lines)
               /\ \A l \in Range(lines) : Settled(l, Range(r.lines), Range(r.refused))
<1>1. PICK f : /\ IsPacked(f, lines, start, room, Len(lines))
               /\ Packed(lines, start, room) = f[Len(lines)]
  BY PackedIs
<1> DEFINE Upto(n) == {lines[j] : j \in 1 .. n}
           Good(n) == /\ f[n] \in PackType
                      /\ Range(start.lines) \subseteq Range(f[n].lines)
                      /\ Range(start.refused) \subseteq Range(f[n].refused)
                      /\ Range(f[n].lines) \subseteq Range(start.lines) \cup Upto(n)
                      /\ \A l \in Upto(n) : Settled(l, Range(f[n].lines), Range(f[n].refused))
           P == {n \in Nat : n <= Len(lines) => Good(n)}
<1>2. 0 \in P
  <2>1. f[0] = start
    BY <1>1 DEF IsPacked
  <2>2. Upto(0) = {}
    OBVIOUS
  <2> HIDE DEF Upto
  <2>3. Good(0)
    BY <2>1, <2>2
  <2>4. QED
    BY <2>3
<1>3. ASSUME NEW n \in Nat, n \in P PROVE n + 1 \in P
  <2> SUFFICES ASSUME n + 1 <= Len(lines) PROVE Good(n + 1)
    OBVIOUS
  <2>1. Good(n)
    BY <1>3
  <2>2. n + 1 \in 0 .. Len(lines) /\ n + 1 # 0 /\ (n + 1) - 1 = n /\ n + 1 \in 1 .. Len(lines)
    OBVIOUS
  <2>3. f[n + 1] = Appended(f[n], lines[n + 1], room)
    BY <1>1, <2>2 DEF IsPacked
  <2>4. lines[n + 1] \in Line
    BY <2>2
  <2>5. Upto(n + 1) = Upto(n) \cup {lines[n + 1]}
    <3>1. 1 .. n + 1 = (1 .. n) \cup {n + 1}
      OBVIOUS
    <3>2. QED
      BY <3>1
  <2> HIDE DEF Upto
  <2>6. f[n] \in PackType
    BY <2>1
  <2> DEFINE a == f[n]
             l == lines[n + 1]
  <2> HIDE DEF a, l
  <2>7. /\ f[n + 1] \in PackType
        /\ Range(f[n].lines) \subseteq Range(f[n + 1].lines)
        /\ Range(f[n].refused) \subseteq Range(f[n + 1].refused)
        /\ Range(f[n + 1].lines) \subseteq Range(f[n].lines) \cup {lines[n + 1]}
        /\ Settled(lines[n + 1], Range(f[n + 1].lines), Range(f[n + 1].refused))
    <3>1. a \in PackType /\ l \in Line
      BY <2>4, <2>6 DEF a, l
    <3>2. /\ Appended(a, l, room) \in PackType
          /\ Range(a.lines) \subseteq Range(Appended(a, l, room).lines)
          /\ Range(a.refused) \subseteq Range(Appended(a, l, room).refused)
          /\ Range(Appended(a, l, room).lines) \subseteq Range(a.lines) \cup {l}
          /\ Settled(l, Range(Appended(a, l, room).lines), Range(Appended(a, l, room).refused))
      BY <3>1, AppendedFacts
    <3>3. QED
      BY <2>3, <3>2 DEF a, l
  <2>8. \A e \in Upto(n) : Settled(e, Range(f[n + 1].lines), Range(f[n + 1].refused))
    BY <2>1, <2>7, SettledMore
  <2>9. QED
    BY <2>1, <2>5, <2>7, <2>8
<1> HIDE DEF P
<1>4. \A n \in Nat : n \in P
  BY <1>2, <1>3, NatSetInduction
<1>5. Len(lines) \in P /\ Len(lines) <= Len(lines)
  BY <1>4
<1>6. Good(Len(lines))
  BY <1>5 DEF P
<1>7. Range(lines) = Upto(Len(lines))
  BY RangeSeq
<1>8. QED
  BY <1>1, <1>6, <1>7

-----------------------------------------------------------------------------
(* Concatenation joins the elements. *)
LEMMA RangeConcat ==
    ASSUME NEW R, NEW a \in Seq(R), NEW b \in Seq(R)
    PROVE  a \o b \in Seq(R) /\ Range(a \o b) = Range(a) \cup Range(b)
<1> DEFINE c == a \o b
<1>1. c \in Seq(R) /\ Len(c) = Len(a) + Len(b)
  OBVIOUS
<1>2. \A i \in 1 .. Len(a) : c[i] = a[i] /\ i \in 1 .. Len(c)
  OBVIOUS
<1>3. \A i \in 1 .. Len(b) : c[Len(a) + i] = b[i] /\ Len(a) + i \in 1 .. Len(c)
  OBVIOUS
<1>4. \A i \in 1 .. Len(c) : i \in 1 .. Len(a) \/ (i - Len(a) \in 1 .. Len(b) /\ c[i] = b[i - Len(a)])
  OBVIOUS
<1>5. /\ Range(c) = {c[i] : i \in 1 .. Len(c)} /\ Range(a) = {a[i] : i \in 1 .. Len(a)}
      /\ Range(b) = {b[i] : i \in 1 .. Len(b)}
  BY <1>1, RangeSeq
<1> HIDE DEF c
<1>6. Range(a) \subseteq Range(c)
  BY <1>2, <1>5
<1>7. Range(b) \subseteq Range(c)
  BY <1>3, <1>5
<1>8. Range(c) \subseteq Range(a) \cup Range(b)
  BY <1>2, <1>4, <1>5
<1>9. QED
  BY <1>1, <1>6, <1>7, <1>8 DEF c

(* An optional line is there or not. *)
LEMMA OptionalFacts ==
    ASSUME NEW cond \in BOOLEAN, NEW line \in Line
    PROVE  Optional(cond, line) \in Seq(Line) /\ Range(Optional(cond, line)) \subseteq {line}
<1>1. <<line>> \in Seq(Line) /\ << >> \in Seq(Line)
  OBVIOUS
<1>2. Range(<<line>>) = {line} /\ Range(<< >>) = {}
  BY DEF Range
<1>3. QED
  BY <1>1, <1>2 DEF Optional

(* A label is one of the reasons. *)
LEMMA LabelType ==
    ASSUME NEW s, NEW m, NEW look, memory[m].trusted \in BOOLEAN
    PROVE  Label(s, m, look) \in Reasons
<1>1. Freshness(s, m, look) \in Reasons
  BY DEF Freshness, Reasons, Usable
<1>2. QED
  BY <1>1 DEF Label, Reasons

(* A note is recorded or its source is not what it was. *)
LEMMA NoteStatusType ==
    ASSUME NEW n, NEW look
    PROVE  NoteStatus(n, look) \in Statuses
BY DEF NoteStatus, Statuses

(* Each candidate has a label. *)
LEMMA LabelsType ==
    ASSUME TypeOK, NEW s \in SessionType, NEW look
    PROVE  /\ Candidates(s) \subseteq Memories
           /\ Labels(s, look) \in [Candidates(s) -> Reasons]
<1>1. Candidates(s) \subseteq Memories
  BY DEF Candidates, RelevantNow, SessionType
<1>2. \A m \in Memories : memory[m].trusted \in BOOLEAN
  BY DEF TypeOK
<1>3. [m \in Candidates(s) |-> Label(s, m, look)] \in [Candidates(s) -> Reasons]
  BY <1>1, <1>2, LabelType
<1>4. ASSUME NEW l \in [Candidates(s) -> Reasons]
      PROVE  Displaced(l) \in [Candidates(s) -> Reasons]
  <2>1. DOMAIN l = Candidates(s) /\ \A m \in Candidates(s) : l[m] \in Reasons
    OBVIOUS
  <2>2. {"conflicts_with", "superseded_by"} \subseteq Reasons
    BY DEF Reasons
  <2> HIDE DEF Reasons, Candidates
  <2>3. QED
    BY <2>1, <2>2 DEF Displaced
<1>5. QED
  BY <1>1, <1>3, <1>4 DEF Labels

(* What was selected is current or has a reason. *)
LEMMA WithdrawalsType ==
    ASSUME NEW s \in SessionType, NEW labels, NEW D \in SUBSET Memories, labels \in [D -> Reasons]
    PROVE  /\ Withdrawals(s, labels) \in [Memories -> Reasons \cup {None}]
           /\ \A m \in s.selected : m \in Current(labels) \/ Withdrawals(s, labels)[m] \in Reasons
<1>1. /\ s.withdrawals \in [Memories -> Reasons \cup {None}] /\ s.selected \subseteq Memories
      /\ DOMAIN labels = D /\ \A m \in D : labels[m] \in Reasons
  BY DEF SessionType
<1>2. "learning_disabled" \in Reasons
  BY DEF Reasons
<1>3. QED
  BY <1>1, <1>2 DEF Withdrawals

(* One line of this kind for every memory of q, with what r says of it.    *)
LinesOf(kind, q, r) == [i \in DOMAIN q |-> <<kind, q[i], r[q[i]]>>]

(* The lines made of a list of memories with their reasons. *)
LEMMA MemoryLines ==
    ASSUME NEW kind \in {"withdrawn", "memory"}, NEW q \in Seq(Memories), NEW r,
           \A m \in Range(q) : r[m] \in Reasons
    PROVE  /\ LinesOf(kind, q, r) \in Seq(Line)
           /\ Range(LinesOf(kind, q, r)) = {<<kind, m, r[m]>> : m \in Range(q)}
<1> DEFINE c == [i \in DOMAIN q |-> <<kind, q[i], r[q[i]]>>]
<1>1. DOMAIN q = 1 .. Len(q) /\ Len(q) \in Nat /\ Range(q) \subseteq Memories
  BY DEF Range
<1>2. \A i \in DOMAIN q : q[i] \in Range(q)
  BY DEF Range
<1>3. ASSUME NEW m \in Range(q) PROVE <<kind, m, r[m]>> \in Line
  <2>1. m \in Memories /\ r[m] \in Reasons
    BY <1>1, <1>3
  <2> HIDE DEF Reasons
  <2>2. QED
    BY <2>1 DEF Line
<1>4. \A i \in 1 .. Len(q) : c[i] \in Line
  BY <1>1, <1>2, <1>3
<1>5. c \in Seq(Line)
  BY <1>1, <1>4
<1>6. Range(c) = {<<kind, m, r[m]>> : m \in Range(q)}
  BY DEF Range
<1>7. QED
  BY <1>5, <1>6 DEF LinesOf

(* The lines made of a list of notes. *)
LEMMA NoteLines ==
    ASSUME NEW kind \in {"note", "recheck"}, NEW q \in Seq(NoteType), NEW look
    PROVE  /\ [i \in DOMAIN q |-> <<kind, q[i], NoteStatus(q[i], look)>>] \in Seq(Line)
           /\ \A l \in Range([i \in DOMAIN q |-> <<kind, q[i], NoteStatus(q[i], look)>>]) : l[1] = kind
<1> DEFINE c == [i \in DOMAIN q |-> <<kind, q[i], NoteStatus(q[i], look)>>]
<1>1. DOMAIN q = 1 .. Len(q) /\ Len(q) \in Nat
  OBVIOUS
<1>2. \A i \in DOMAIN q : NoteStatus(q[i], look) \in Statuses /\ q[i] \in NoteType
  BY NoteStatusType
<1>3. \A i \in 1 .. Len(q) : c[i] \in Line /\ c[i][1] = kind
  <2> SUFFICES ASSUME NEW i \in 1 .. Len(q)
               PROVE  <<kind, q[i], NoteStatus(q[i], look)>> \in Line
    BY <1>1
  <2>1. NoteStatus(q[i], look) \in Statuses /\ q[i] \in NoteType
    BY <1>1, <1>2
  <2>2. <<kind, q[i], NoteStatus(q[i], look)>> \in {"note", "recheck"} \X NoteType \X Statuses
    BY <2>1
  <2>3. QED
    BY <2>2 DEF Line
<1>4. c \in Seq(Line)
  BY <1>1, <1>3
<1>5. \A l \in Range(c) : l[1] = kind
  BY DEF Range
<1>6. QED
  BY <1>4, <1>5

(* The notes of a session, sorted, are notes. *)
LEMMA SortedNotesType ==
    ASSUME NEW notes \in Seq(NoteType)
    PROVE  SortedNotes(notes) \in Seq(NoteType)
BY OnlyFacts DEF SortedNotes

(* The memories a packet offers are the current ones. *)
LEMMA OrderedFacts ==
    ASSUME NEW s, NEW S \in SUBSET Memories
    PROVE  Ordered(s, S) \in Seq(Memories) /\ Range(Ordered(s, S)) = S
<1> DEFINE a == Only(Rank, {m \in S : FileMatch(s, m)})
           b == Only(Rank, {m \in S : ~FileMatch(s, m)})
<1>1. Rank \in Seq(Memories) /\ Range(Rank) = Memories
  BY RankAssumption
<1>2. a \in Seq(Memories) /\ Range(a) = Memories \cap {m \in S : FileMatch(s, m)}
  BY <1>1, OnlyFacts
<1>3. b \in Seq(Memories) /\ Range(b) = Memories \cap {m \in S : ~FileMatch(s, m)}
  BY <1>1, OnlyFacts
<1> HIDE DEF a, b
<1>4. Range(a \o b) = Range(a) \cup Range(b) /\ a \o b \in Seq(Memories)
  BY <1>2, <1>3, RangeConcat
<1>5. QED
  BY <1>2, <1>3, <1>4 DEF Ordered, a, b

(* The withdrawn memories are those with a reason. *)
LEMMA OutFacts ==
    ASSUME NEW W
    PROVE  Out(W) \in Seq(Memories) /\ Range(Out(W)) = {m \in Memories : W[m] # None}
<1>1. Rank \in Seq(Memories) /\ Range(Rank) = Memories
  BY RankAssumption
<1>2. QED
  BY <1>1, OnlyFacts DEF Out

(* The body offers a line for every withdrawn and every current memory.    *)
LEMMA BodyFacts ==
    ASSUME NEW s \in SessionType, NEW D \in SUBSET Memories, NEW labels \in [D -> Reasons],
           NEW W \in [Memories -> Reasons \cup {None}], NEW look
    PROVE  /\ Body(s, labels, W, look) \in Seq(Line)
           /\ \A m \in Memories : W[m] # None => <<"withdrawn", m, W[m]>> \in Range(Body(s, labels, W, look))
           /\ \A m \in Current(labels) : <<"memory", m, labels[m]>> \in Range(Body(s, labels, W, look))
<1> DEFINE b1 == Optional(Out(W) # << >>, <<"withdrawn", None, None>>)
           b2 == MapSeq(LAMBDA m : <<"withdrawn", m, W[m]>>, Out(W))
           b3 == MapSeq(LAMBDA n : <<"note", n, NoteStatus(n, look)>>, SortedNotes(s.notes))
           b4 == Optional(s.focus \notin {None, s.goal}, <<"focus", s.focus, None>>)
           b5 == Optional(s.active # None, <<"files", s.active, None>>)
           b6 == MapSeq(LAMBDA m : <<"memory", m, labels[m]>>, Ordered(s, Current(labels)))
<1>0. /\ s.notes \in Seq(NoteType) /\ s.focus \in Prompts \cup {None}
      /\ s.active \in Files \cup {None}
  BY DEF SessionType
<1>1. b1 \in Seq(Line)
  <2>1. <<"withdrawn", None, None>> \in Line
    BY DEF Line
  <2>2. QED
    BY <2>1, OptionalFacts
<1>2. b2 \in Seq(Line) /\ Range(b2) = {<<"withdrawn", m, W[m]>> : m \in {x \in Memories : W[x] # None}}
  <2> DEFINE q == Out(W)
  <2>1. q \in Seq(Memories) /\ Range(q) = {m \in Memories : W[m] # None}
    BY OutFacts
  <2> HIDE DEF q
  <2>2. \A m \in Range(q) : W[m] \in Reasons
    BY <2>1
  <2>3. /\ [i \in DOMAIN q |-> <<"withdrawn", q[i], W[q[i]]>>] \in Seq(Line)
        /\ Range([i \in DOMAIN q |-> <<"withdrawn", q[i], W[q[i]]>>])
             = {<<"withdrawn", m, W[m]>> : m \in Range(q)}
    <3>1. "withdrawn" \in {"withdrawn", "memory"} /\ q \in Seq(Memories)
      BY <2>1
    <3>2. /\ LinesOf("withdrawn", q, W) \in Seq(Line)
          /\ Range(LinesOf("withdrawn", q, W)) = {<<"withdrawn", m, W[m]>> : m \in Range(q)}
      BY <2>2, <3>1, MemoryLines
    <3>3. QED
      BY <3>2 DEF LinesOf
  <2>4. QED
    BY <2>1, <2>3 DEF MapSeq, q
<1>3. b3 \in Seq(Line)
  BY <1>0, SortedNotesType, NoteLines DEF MapSeq
<1>4. b4 \in Seq(Line)
  <2>1. CASE s.focus \notin {None, s.goal}
    <3>1. <<"focus", s.focus, None>> \in Line
      BY <1>0, <2>1 DEF Line
    <3>2. QED
      BY <3>1, OptionalFacts
  <2>2. CASE ~(s.focus \notin {None, s.goal})
    BY <2>2 DEF Optional
  <2>3. QED
    BY <2>1, <2>2
<1>5. b5 \in Seq(Line)
  <2>1. CASE s.active # None
    <3>1. <<"files", s.active, None>> \in Line
      BY <1>0, <2>1 DEF Line
    <3>2. QED
      BY <3>1, OptionalFacts
  <2>2. CASE ~(s.active # None)
    BY <2>2 DEF Optional
  <2>3. QED
    BY <2>1, <2>2
<1>6. b6 \in Seq(Line) /\ Range(b6) = {<<"memory", m, labels[m]>> : m \in Current(labels)}
  <2> DEFINE q == Ordered(s, Current(labels))
  <2>0. Current(labels) \subseteq D
    BY DEF Current
  <2>1. q \in Seq(Memories) /\ Range(q) = Current(labels)
    BY <2>0, OrderedFacts
  <2> HIDE DEF q, Current
  <2>2. \A m \in Range(q) : labels[m] \in Reasons
    BY <2>0, <2>1
  <2>3. /\ [i \in DOMAIN q |-> <<"memory", q[i], labels[q[i]]>>] \in Seq(Line)
        /\ Range([i \in DOMAIN q |-> <<"memory", q[i], labels[q[i]]>>])
             = {<<"memory", m, labels[m]>> : m \in Range(q)}
    <3>1. "memory" \in {"withdrawn", "memory"} /\ q \in Seq(Memories)
      BY <2>1
    <3>2. /\ LinesOf("memory", q, labels) \in Seq(Line)
          /\ Range(LinesOf("memory", q, labels)) = {<<"memory", m, labels[m]>> : m \in Range(q)}
      BY <2>2, <3>1, MemoryLines
    <3>3. QED
      BY <3>2 DEF LinesOf
  <2>4. QED
    BY <2>1, <2>3 DEF MapSeq, q
<1> HIDE DEF b1, b2, b3, b4, b5, b6
<1>7. Body(s, labels, W, look) = b1 \o b2 \o b3 \o b4 \o b5 \o b6
  BY DEF Body, b1, b2, b3, b4, b5, b6
<1> DEFINE c2 == b1 \o b2
           c3 == c2 \o b3
           c4 == c3 \o b4
           c5 == c4 \o b5
           body == c5 \o b6
<1>8. body = Body(s, labels, W, look)
  BY <1>7
<1> HIDE DEF c2, c3, c4, c5, body
<1>9. c2 \in Seq(Line) /\ Range(b2) \subseteq Range(c2)
  BY <1>1, <1>2, RangeConcat DEF c2
<1>10. c3 \in Seq(Line) /\ Range(c2) \subseteq Range(c3)
  BY <1>3, <1>9, RangeConcat DEF c3
<1>11. c4 \in Seq(Line) /\ Range(c3) \subseteq Range(c4)
  BY <1>4, <1>10, RangeConcat DEF c4
<1>12. c5 \in Seq(Line) /\ Range(c4) \subseteq Range(c5)
  BY <1>5, <1>11, RangeConcat DEF c5
<1>13. body \in Seq(Line) /\ Range(c5) \subseteq Range(body) /\ Range(b6) \subseteq Range(body)
  BY <1>6, <1>12, RangeConcat DEF body
<1>14. QED
  BY <1>2, <1>6, <1>8, <1>9, <1>10, <1>11, <1>12, <1>13


(* A list of lines that name no memory.                                    *)
Silent(q) == q \in Seq(Line) /\ \A l \in Range(q) : l[1] \notin {"memory", "withdrawn"}

(* Joining two lists of lines that name no memory.                         *)
LEMMA SilentConcat ==
    ASSUME NEW a, NEW b, Silent(a), Silent(b)
    PROVE  Silent(a \o b)
BY RangeConcat DEF Silent

(* A notice names no memory.                                               *)
LEMMA SilentOptional ==
    ASSUME NEW cond \in BOOLEAN, NEW line \in Line, line[1] \notin {"memory", "withdrawn"}
    PROVE  Silent(Optional(cond, line))
<1>1. CASE cond
  BY <1>1, OptionalFacts DEF Silent
<1>2. CASE ~cond
  <2>1. Optional(cond, line) = << >> /\ Range(<< >>) = {} /\ << >> \in Seq(Line)
    BY <1>2 DEF Optional, Range
  <2>2. QED
    BY <2>1 DEF Silent
<1>3. QED
  BY <1>1, <1>2

(* The notices are lines that name no memory.                              *)
LEMMA WarningsFacts ==
    ASSUME NEW s \in SessionType, NEW labels, NEW W, NEW refused, NEW look
    PROVE  Silent(Warnings(s, labels, W, refused, look))
<1> DEFINE notes == SortedNotes(s.notes)
           suspect == Only(notes, {n \in Range(notes) : NoteStatus(n, look) # "recorded"})
           some(kind) == \E i \in DOMAIN refused : refused[i][1] = kind
           w1 == Optional(Out(W) # << >>, <<"notice", "withdrawn", None>>)
           w2 == Optional(~learning, <<"notice", "learning", None>>)
           w3 == Optional(Range(labels) \cap {"source_unavailable", "source_changed",
                                              "source_unverified"} # {},
                          <<"notice", "sources", None>>)
           w4 == Optional("conflicts_with" \in Range(labels), <<"notice", "conflicts", None>>)
           w5 == Optional(s.pruned > 0, <<"retired", s.pruned, None>>)
           w6 == MapSeq(LAMBDA n : <<"recheck", n, NoteStatus(n, look)>>, suspect)
           w7 == Optional(some("focus"), <<"notice", "focus omitted", None>>)
           w8 == Optional(some("note"), <<"notice", "notes omitted", None>>)
<1>0. s.notes \in Seq(NoteType) /\ s.pruned \in Nat
  BY DEF SessionType
<1>1. \A n \in Notices : <<"notice", n, None>> \in Line
  BY DEF Line
<1>2. /\ {"withdrawn", "learning", "sources", "conflicts", "focus omitted", "notes omitted"}
           \subseteq Notices
      /\ <<"retired", s.pruned, None>> \in Line
  BY <1>0 DEF Line, Notices
<1> DEFINE l1 == <<"notice", "withdrawn", None>>
           l2 == <<"notice", "learning", None>>
           l3 == <<"notice", "sources", None>>
           l4 == <<"notice", "conflicts", None>>
           l5 == <<"retired", s.pruned, None>>
           l7 == <<"notice", "focus omitted", None>>
           l8 == <<"notice", "notes omitted", None>>
           Quiet(l) == l \in Line /\ l[1] \notin {"memory", "withdrawn"}
<1>21. Quiet(l1) /\ Quiet(l2) /\ Quiet(l3) /\ Quiet(l4) /\ Quiet(l5) /\ Quiet(l7) /\ Quiet(l8)
  BY <1>1, <1>2
<1> HIDE DEF l1, l2, l3, l4, l5, l7, l8
<1>22. \A c \in BOOLEAN, l \in Line : Quiet(l) => Silent(Optional(c, l))
  BY SilentOptional
<1>3. Silent(w1) /\ Silent(w2) /\ Silent(w3) /\ Silent(w4)
  <2>1. Silent(Optional(Out(W) # << >>, l1))
    BY <1>21, <1>22
  <2>2. Silent(Optional(~learning, l2))
    BY <1>21, <1>22
  <2>3. Silent(Optional(Range(labels) \cap {"source_unavailable", "source_changed",
                                              "source_unverified"} # {}, l3))
    BY <1>21, <1>22
  <2> DEFINE c == "conflicts_with" \in Range(labels)
  <2>4. Silent(Optional(c, l4))
    <3>1. c \in BOOLEAN
      OBVIOUS
    <3> HIDE DEF c
    <3>2. QED
      BY <1>21, <1>22, <3>1
  <2>5. QED
    BY <2>1, <2>2, <2>3, <2>4 DEF l1, l2, l3, l4
<1>4. Silent(w5) /\ Silent(w7) /\ Silent(w8)
  <2> DEFINE c == s.pruned > 0
  <2>1. Silent(Optional(c, l5))
    <3>1. c \in BOOLEAN
      OBVIOUS
    <3> HIDE DEF c
    <3>2. QED
      BY <1>21, <1>22, <3>1
  <2>2. Silent(Optional(some("focus"), l7))
    BY <1>21, <1>22
  <2>3. Silent(Optional(some("note"), l8))
    BY <1>21, <1>22
  <2>4. QED
    BY <2>1, <2>2, <2>3 DEF l5, l7, l8
<1>5. Silent(w6)
  <2>1. notes \in Seq(NoteType)
    BY <1>0, SortedNotesType
  <2> HIDE DEF notes
  <2>2. suspect \in Seq(NoteType)
    BY <2>1, OnlyFacts
  <2> HIDE DEF suspect
  <2>3. QED
    BY <2>2, NoteLines DEF MapSeq, Silent
<1> HIDE DEF w1, w2, w3, w4, w5, w6, w7, w8
<1>6. Warnings(s, labels, W, refused, look) = w1 \o w2 \o w3 \o w4 \o w5 \o w6 \o w7 \o w8
  BY DEF Warnings, w1, w2, w3, w4, w5, w6, w7, w8
<1> DEFINE v2 == w1 \o w2
           v3 == v2 \o w3
           v4 == v3 \o w4
           v5 == v4 \o w5
           v6 == v5 \o w6
           v7 == v6 \o w7
           v8 == v7 \o w8
<1>7. Warnings(s, labels, W, refused, look) = v8
  BY <1>6
<1> HIDE DEF v2, v3, v4, v5, v6, v7, v8
<1>8. Silent(v2)
  BY <1>3, SilentConcat DEF v2
<1>9. Silent(v3)
  BY <1>3, <1>8, SilentConcat DEF v3
<1>10. Silent(v4)
  BY <1>3, <1>9, SilentConcat DEF v4
<1>11. Silent(v5)
  BY <1>4, <1>10, SilentConcat DEF v5
<1>12. Silent(v6)
  BY <1>5, <1>11, SilentConcat DEF v6
<1>13. Silent(v7)
  BY <1>4, <1>12, SilentConcat DEF v7
<1>14. Silent(v8)
  BY <1>4, <1>13, SilentConcat DEF v8
<1>15. QED
  BY <1>7, <1>14

(* The memories are finitely many.                                         *)
LEMMA MemoriesFinite == IsFiniteSet(Memories)
<1>1. Rank \in Seq(Memories) /\ Memories = {Rank[i] : i \in 1 .. Len(Rank)}
  BY RankAssumption, RangeSeq
<1>2. IsFiniteSet(1 .. Len(Rank))
  BY <1>1, FS_Interval
<1>3. Rank \in Surjection(1 .. Len(Rank), Memories)
  BY <1>1 DEF Surjection
<1>4. QED
  BY <1>2, <1>3, FS_Surjection

(* Which memories a list of lines names. *)
LEMMA HoldingFacts ==
    ASSUME NEW lines \in Seq(Line), NEW kind
    PROVE  Holding(lines, kind) = {m \in Memories : \E l \in Range(lines) : l[1] = kind /\ l[2] = m}
BY DEF Holding, Range


(* This packet says what m says, by m or by a memory with the same text.   *)
Told(packet, m) == \E n \in MemoriesIn(packet) : Text[n] = Text[m]

(* A packet names what it can: the memories it shows are those the session *)
(* will remember, and if no line was left out it says what every current   *)
(* memory says and names every withdrawn one.                              *)
LEMMA RenderedFacts ==
    ASSUME NEW s \in SessionType, NEW D \in SUBSET Memories, NEW labels \in [D -> Reasons],
           NEW W \in [Memories -> Reasons \cup {None}], NEW room \in Nat, NEW look
    PROVE  /\ Rendered(s, labels, W, room, look).packet \in Packet
           /\ Rendered(s, labels, W, room, look).refused \in BOOLEAN
           /\ Rendered(s, labels, W, room, look).shown
                = MemoriesIn(Rendered(s, labels, W, room, look).packet)
           /\ ~Rendered(s, labels, W, room, look).refused =>
                /\ \A m \in Current(labels) :
                       Told(Rendered(s, labels, W, room, look).packet, m)
                /\ \A m \in Memories : W[m] # None =>
                       m \in WithdrawnIn(Rendered(s, labels, W, room, look).packet)
<1> DEFINE body == Body(s, labels, W, look)
           start == [lines |-> << >>, used |-> 0, refused |-> << >>]
           filled == Packed(body, start, room)
           shown == Holding(filled.lines, "memory")
           warn == Warnings(s, labels, W, filled.refused, look)
           full == Packed(warn, filled, room)
           packet == [goal |-> s.goal, lines |-> full.lines,
                      excluded |-> Cardinality(DOMAIN labels \ shown), notices |-> Len(warn)]
<1>1. Rendered(s, labels, W, room, look) = [packet |-> packet, shown |-> shown,
                                      refused |-> full.refused # << >>]
  BY DEF Rendered
<1>2. /\ body \in Seq(Line)
      /\ \A m \in Memories : W[m] # None => <<"withdrawn", m, W[m]>> \in Range(body)
      /\ \A m \in Current(labels) : <<"memory", m, labels[m]>> \in Range(body)
  BY BodyFacts
<1>3. start \in PackType
  BY DEF PackType
<1> HIDE DEF body, start
<1>4. /\ filled \in PackType
      /\ \A l \in Range(body) : Settled(l, Range(filled.lines), Range(filled.refused))
  BY <1>2, <1>3, PackedFacts
<1> HIDE DEF filled
<1>5. Silent(warn)
  BY WarningsFacts
<1> HIDE DEF warn
<1>6. warn \in Seq(Line) /\ \A l \in Range(warn) : l[1] \notin {"memory", "withdrawn"}
  BY <1>5 DEF Silent
<1>7. /\ full \in PackType
      /\ Range(filled.lines) \subseteq Range(full.lines)
      /\ Range(filled.refused) \subseteq Range(full.refused)
      /\ Range(full.lines) \subseteq Range(filled.lines) \cup Range(warn)
  BY <1>4, <1>6, PackedFacts
<1> HIDE DEF full
<1>8. filled.lines \in Seq(Line) /\ full.lines \in Seq(Line) /\ full.refused \in Seq(Line)
  BY <1>4, <1>7 DEF PackType
<1>9. shown = Holding(full.lines, "memory")
  <2>1. /\ shown = {m \in Memories : \E l \in Range(filled.lines) : l[1] = "memory" /\ l[2] = m}
        /\ Holding(full.lines, "memory")
             = {m \in Memories : \E l \in Range(full.lines) : l[1] = "memory" /\ l[2] = m}
    BY <1>8, HoldingFacts
  <2>2. \A l : l[1] = "memory" => (l \in Range(full.lines) <=> l \in Range(filled.lines))
    BY <1>6, <1>7
  <2> HIDE DEF shown
  <2>3. QED
    BY <2>1, <2>2
<1>10. packet \in Packet
  <2>1. s.goal \in Prompts
    BY DEF SessionType
  <2>2. IsFiniteSet(DOMAIN labels \ shown)
    BY MemoriesFinite, FS_Subset
  <2>3. Cardinality(DOMAIN labels \ shown) \in Nat
    BY <2>2, FS_CardinalityType
  <2>4. Len(warn) \in Nat
    BY <1>6
  <2> HIDE DEF shown
  <2>5. QED
    BY <1>8, <2>1, <2>3, <2>4 DEF Packet
<1>11. packet.lines = full.lines
  OBVIOUS
<1> HIDE DEF packet
<1>12. ASSUME full.refused = << >>
       PROVE  /\ \A m \in Current(labels) : Told(packet, m)
              /\ \A m \in Memories : W[m] # None => m \in WithdrawnIn(packet)
  <2>1. Range(full.refused) = {}
    BY <1>12 DEF Range
  <2>2. \A l \in Range(body) : l \in Range(full.lines) \/ Echoed(l, Range(full.lines))
    <3>1. \A l \in Range(body) : Settled(l, Range(full.lines), Range(full.refused))
      BY <1>4, <1>7, SettledMore
    <3>2. QED
      BY <2>1, <3>1 DEF Settled
  <2>3. /\ MemoriesIn(packet)
             = {m \in Memories : \E l \in Range(full.lines) : l[1] = "memory" /\ l[2] = m}
        /\ WithdrawnIn(packet)
             = {m \in Memories : \E l \in Range(full.lines) : l[1] = "withdrawn" /\ l[2] = m}
    BY <1>8, <1>11, HoldingFacts DEF MemoriesIn, WithdrawnIn
  <2>4. ASSUME NEW m \in Current(labels) PROVE Told(packet, m)
    <3> DEFINE line == <<"memory", m, labels[m]>>
    <3>1. line \in Range(body) /\ line[1] = "memory" /\ line[2] = m
      BY <1>2
    <3> HIDE DEF line
    <3>2. PICK l \in Range(full.lines) : l[1] = "memory" /\ Text[l[2]] = Text[m]
      BY <2>2, <3>1 DEF Echoed
    <3>3. l \in Line
      BY <1>8, RangeSeq
    <3>4. l[2] \in Memories
      BY <3>2, <3>3 DEF Line
    <3>5. l[2] \in MemoriesIn(packet)
      BY <2>3, <3>2, <3>4
    <3>6. QED
      BY <3>2, <3>5 DEF Told
  <2>5. ASSUME NEW m \in Memories, W[m] # None PROVE m \in WithdrawnIn(packet)
    <3> DEFINE line == <<"withdrawn", m, W[m]>>
    <3>1. line \in Range(body) /\ line[1] = "withdrawn" /\ line[2] = m
      BY <1>2, <2>5
    <3> HIDE DEF line
    <3>2. line \in Range(full.lines)
      BY <2>2, <3>1 DEF Echoed
    <3>3. QED
      BY <2>3, <3>1, <3>2
  <2>6. QED
    BY <2>4, <2>5
<1>13. MemoriesIn(packet) = shown
  BY <1>9, <1>11 DEF MemoriesIn
<1> HIDE DEF shown
<1>14. /\ Rendered(s, labels, W, room, look).packet = packet
       /\ Rendered(s, labels, W, room, look).shown = shown
       /\ Rendered(s, labels, W, room, look).refused = (full.refused # << >>)
  BY <1>1
<1>15. QED
  BY <1>10, <1>12, <1>13, <1>14

(* Bindings are bindings. *)
LEMMA BindingsType ==
    ASSUME TypeOK, NEW s \in SessionType, NEW look, look.hash \in [Files -> Versions]
    PROVE  Bindings(s, look) \in [Memories -> BindingType \cup {None}]
<1> SUFFICES ASSUME NEW m \in Memories
             PROVE  Bindings(s, look)[m] \in BindingType \cup {None}
  BY DEF Bindings
<1>1. s.bindings[m] \in BindingType \cup {None}
  BY DEF SessionType
<1>2. CASE Anchor[m] # None /\ Freshness(s, m, look) \in Usable
  <2>1. Anchor[m] \in Files
    BY <1>2, AnchorAssumption
  <2>2. look.hash[Anchor[m]] # Gone
    BY <1>2 DEF Freshness, Usable
  <2>3. look.hash[Anchor[m]] \in 0 .. MaxMoves
    BY <2>1, <2>2, BoundsAssumption DEF Versions, Gone
  <2>4. Binding(m, look.hash[Anchor[m]]) \in BindingType
    BY <2>3 DEF Binding, BindingType, TypeOK
  <2>5. QED
    BY <1>1, <2>4 DEF Bindings
<1>3. CASE ~(Anchor[m] # None /\ Freshness(s, m, look) \in Usable)
  BY <1>1, <1>3 DEF Bindings
<1>4. QED
  BY <1>2, <1>3

(* A compilation of a session: the row it leaves is a row, its packet is   *)
(* the recorded one, and the memories it selects are those the packet      *)
(* shows; what was selected before is still said or named as withdrawn, if *)
(* no line was left out.                                                   *)
LEMMA CompiledFacts ==
    ASSUME TypeOK, NEW s \in SessionType, NEW room \in Nat, NEW look,
           look.hash \in [Files -> Versions]
    PROVE  LET c == Compiled(s, room, look)
           IN  /\ c.session \in SessionType
               /\ c.packet \in Packet
               /\ c.refused \in BOOLEAN
               /\ c.session.fingerprint = c.packet
               /\ c.session.selected = MemoriesIn(c.packet)
               /\ c.session.notes = s.notes
               /\ c.changed = (c.packet # s.fingerprint)
               /\ ~c.refused =>
                    \A m \in s.selected : m \in WithdrawnIn(c.packet) \/ Told(c.packet, m)
<1> DEFINE D == Candidates(s)
           labels == Labels(s, look)
           W == Withdrawals(s, labels)
           r == Rendered(s, labels, W, room, look)
           B == Bindings(s, look)
           t == [s EXCEPT !.bindings = B, !.withdrawals = W,
                          !.selected = r.shown, !.fingerprint = r.packet]
<1>1. Compiled(s, room, look) = [packet |-> r.packet, changed |-> r.packet # s.fingerprint,
                                refused |-> r.refused, session |-> t]
  BY DEF Compiled
<1>2. D \in SUBSET Memories /\ labels \in [D -> Reasons]
  BY LabelsType
<1> HIDE DEF labels, D
<1>3. /\ W \in [Memories -> Reasons \cup {None}]
      /\ \A m \in s.selected : m \in Current(labels) \/ W[m] \in Reasons
  BY <1>2, WithdrawalsType
<1> HIDE DEF W
<1>4. /\ r.packet \in Packet
      /\ r.refused \in BOOLEAN
      /\ r.shown = MemoriesIn(r.packet)
      /\ ~r.refused =>
            /\ \A m \in Current(labels) : Told(r.packet, m)
            /\ \A m \in Memories : W[m] # None => m \in WithdrawnIn(r.packet)
  BY <1>2, <1>3, RenderedFacts
<1>5. B \in [Memories -> BindingType \cup {None}]
  BY BindingsType
<1> HIDE DEF r, B
<1>6. r.shown \in SUBSET Memories
  BY <1>4 DEF MemoriesIn, Holding
<1>7. /\ t \in SessionType /\ t.fingerprint = r.packet /\ t.selected = r.shown
      /\ t.notes = s.notes
  BY <1>3, <1>4, <1>5, <1>6 DEF SessionType
<1>8. ~r.refused => \A m \in s.selected : m \in WithdrawnIn(r.packet) \/ Told(r.packet, m)
  BY <1>3, <1>4, AbsentAssumption DEF SessionType
<1> HIDE DEF t
<1>9. QED
  BY <1>1, <1>4, <1>7, <1>8

-----------------------------------------------------------------------------
(* Types: TypeOK is inductive together with the bounds of two counters.    *)

(* A list has finitely many elements.                                      *)
LEMMA RangeFinite ==
    ASSUME NEW R, NEW q \in Seq(R)
    PROVE  IsFiniteSet(Range(q))
<1>1. Range(q) = {q[i] : i \in 1 .. Len(q)}
  BY RangeSeq
<1>2. IsFiniteSet(1 .. Len(q))
  BY FS_Interval
<1>3. q \in Surjection(1 .. Len(q), Range(q))
  BY <1>1 DEF Surjection
<1>4. QED
  BY <1>2, <1>3, FS_Surjection

(* The notes stay within their bound and name at most one next step.       *)
NotesOK(notes) == Len(notes) <= MaxNotes /\ Cardinality(NextSteps(notes)) <= 1

(* A note keeps them so: a next step replaces the last one, and the oldest *)
(* notes are retired.                                                      *)
LEMMA WithNoteType ==
    ASSUME NEW s \in SessionType, NotesOK(s.notes), NEW n \in NoteType
    PROVE  /\ WithNote(s, n) \in SessionType
           /\ NotesOK(WithNote(s, n).notes)
           /\ WithNote(s, n).selected = s.selected
<1> DEFINE kept == IF n.kind = "next_step"
                   THEN Only(s.notes, Range(s.notes) \ NextSteps(s.notes)) ELSE s.notes
           all == Append(kept, n)
           over == IF Len(all) > MaxNotes THEN Len(all) - MaxNotes ELSE 0
           cut == SubSeq(all, over + 1, Len(all))
<1>1. CASE n \in Range(s.notes)
  BY <1>1 DEF WithNote
<1>2. CASE n \notin Range(s.notes)
  <2> DEFINE gone == s.pruned + over
  <2>0. WithNote(s, n) = [s EXCEPT !.notes = cut, !.pruned = gone]
    BY <1>2 DEF WithNote
  <2>1. s.notes \in Seq(NoteType) /\ s.pruned \in Nat /\ Len(s.notes) <= MaxNotes
        /\ Cardinality(NextSteps(s.notes)) <= 1
    BY DEF SessionType, NotesOK
  <2>2. /\ kept \in Seq(NoteType) /\ Len(kept) <= Len(s.notes)
        /\ n.kind = "next_step" => NextSteps(kept) = {}
        /\ n.kind # "next_step" => kept = s.notes
    <3>1. CASE n.kind = "next_step"
      <4> DEFINE k == Only(s.notes, Range(s.notes) \ NextSteps(s.notes))
      <4>1. kept = k
        BY <3>1
      <4>2. /\ k \in Seq(NoteType) /\ Len(k) <= Len(s.notes)
            /\ Range(k) = Range(s.notes) \cap (Range(s.notes) \ NextSteps(s.notes))
        BY <2>1, OnlyFacts
      <4>3. NextSteps(k) = {}
        BY <4>2 DEF NextSteps
      <4> HIDE DEF kept, k
      <4>4. QED
        BY <3>1, <4>1, <4>2, <4>3
    <3>2. CASE n.kind # "next_step"
      BY <2>1, <3>2
    <3>3. QED
      BY <3>1, <3>2
  <2> HIDE DEF kept
  <2>3. /\ all \in Seq(NoteType) /\ Len(all) = Len(kept) + 1
        /\ Range(all) = Range(kept) \cup {n}
    BY <2>2, RangeAppend
  <2> HIDE DEF all
  <2>4. over \in Nat /\ over <= Len(all) /\ Len(all) - over <= MaxNotes /\ Len(all) \in Nat
    BY <2>1, <2>2, <2>3, BoundsAssumption
  <2> HIDE DEF over
  <2>5. /\ cut \in Seq(NoteType) /\ Len(cut) = Len(all) - over
        /\ \A i \in 1 .. Len(cut) : cut[i] = all[over + i] /\ over + i \in 1 .. Len(all)
    BY <2>3, <2>4
  <2>6. Range(cut) \subseteq Range(all)
    <3>1. Range(cut) = {cut[i] : i \in 1 .. Len(cut)} /\ Range(all) = {all[i] : i \in 1 .. Len(all)}
      BY <2>3, <2>5, RangeSeq
    <3> HIDE DEF cut
    <3>2. QED
      BY <2>5, <3>1
  <2> HIDE DEF cut
  <2>7. Cardinality(NextSteps(cut)) <= 1
    <3>1. CASE n.kind = "next_step"
      <4>1. NextSteps(cut) \subseteq {n}
        BY <2>2, <2>3, <2>6, <3>1 DEF NextSteps
      <4>2. IsFiniteSet({n}) /\ Cardinality({n}) = 1
        BY FS_Singleton
      <4>3. QED
        BY <4>1, <4>2, FS_Subset
    <3>2. CASE n.kind # "next_step"
      <4>1. NextSteps(cut) \subseteq NextSteps(s.notes)
        BY <2>2, <2>3, <2>6, <3>2 DEF NextSteps
      <4>2. NextSteps(s.notes) \subseteq Range(s.notes)
        BY DEF NextSteps
      <4>3. IsFiniteSet(NextSteps(s.notes))
        BY <2>1, <4>2, RangeFinite, FS_Subset
      <4>4. /\ Cardinality(NextSteps(cut)) <= Cardinality(NextSteps(s.notes))
            /\ IsFiniteSet(NextSteps(cut))
        BY <4>1, <4>3, FS_Subset
      <4>5. Cardinality(NextSteps(cut)) \in Nat /\ Cardinality(NextSteps(s.notes)) \in Nat
        BY <4>3, <4>4, FS_CardinalityType
      <4>6. QED
        BY <2>1, <4>4, <4>5
    <3>3. QED
      BY <3>1, <3>2
  <2>81. gone \in Nat
    BY <2>1, <2>4
  <2> HIDE DEF gone
  <2>8. /\ [s EXCEPT !.notes = cut, !.pruned = gone] \in SessionType
        /\ [s EXCEPT !.notes = cut, !.pruned = gone].notes = cut
        /\ [s EXCEPT !.notes = cut, !.pruned = gone].selected = s.selected
    BY <2>5, <2>81 DEF SessionType
  <2>9. QED
    BY <2>0, <2>4, <2>5, <2>7, <2>8 DEF NotesOK
<1>3. QED
  BY <1>1, <1>2

(* A new session has no notes and nothing delivered.                       *)
LEMMA NewSessionType ==
    ASSUME NEW goal \in Prompts
    PROVE  /\ NewSession(goal) \in SessionType /\ NotesOK(NewSession(goal).notes)
           /\ NewSession(goal).selected = {} /\ NewSession(goal).fingerprint = None
<1> DEFINE none == [m \in Memories |-> None]
           empty == << >>
<1>1. empty \in Seq(NoteType) /\ Len(empty) = 0 /\ Range(empty) = {}
  BY DEF Range
<1>2. /\ none \in [Memories -> BindingType \cup {None}]
      /\ none \in [Memories -> Reasons \cup {None}]
  OBVIOUS
<1> HIDE DEF none, empty
<1>3. NextSteps(empty) = {} /\ Cardinality({}) = 0
  BY <1>1, FS_EmptySet DEF NextSteps
<1>4. NotesOK(empty)
  BY <1>1, <1>3, BoundsAssumption DEF NotesOK
<1>5. NewSession(goal) = [goal |-> goal, focus |-> None, active |-> None, notes |-> empty,
                          pruned |-> 0, bindings |-> none, withdrawals |-> none,
                          selected |-> {}, fingerprint |-> None]
  BY DEF NewSession, none, empty
<1>6. QED
  BY <1>1, <1>2, <1>4, <1>5 DEF SessionType

(* A new focus or file leaves notes and delivery state alone.              *)
LEMMA FocusedType ==
    ASSUME NEW s \in SessionType, NEW focus \in Prompts \cup {None}, NEW file \in Files \cup {None}
    PROVE  /\ Focused(s, focus, file) \in SessionType
           /\ Focused(s, focus, file).notes = s.notes
           /\ Focused(s, focus, file).selected = s.selected
           /\ Focused(s, focus, file).fingerprint = s.fingerprint
BY DEF Focused, SessionType

(* Forgetting the delivery leaves notes and selection alone.               *)
LEMMA InvalidatedType ==
    ASSUME NEW s \in SessionType
    PROVE  /\ [s EXCEPT !.fingerprint = None] \in SessionType
           /\ [s EXCEPT !.fingerprint = None].notes = s.notes
           /\ [s EXCEPT !.fingerprint = None].selected = s.selected
BY DEF SessionType

(* An inspection keeps the selection and the fingerprint it found.         *)
LEMMA UnconsumedType ==
    ASSUME NEW s \in SessionType, NEW old \in SessionType
    PROVE  /\ Unconsumed(s, old) \in SessionType
           /\ Unconsumed(s, old).notes = s.notes
           /\ Unconsumed(s, old).selected = old.selected
           /\ Unconsumed(s, old).fingerprint = old.fingerprint
BY DEF Unconsumed, SessionType

(* TypeOK, and the two counters the bound on moves keeps within it.        *)
TypeInv ==
    /\ TypeOK
    /\ newest <= moves
    /\ \A m \in Memories : memory[m].digest <= moves

(* The first state is well typed.                                          *)
LEMMA TypeInit == Init => TypeInv
<1> SUFFICES ASSUME Init PROVE TypeInv
  OBVIOUS
<1>1. MaxMoves \in Nat /\ MaxFaults \in Nat
  BY BoundsAssumption
<1>2. Max(Rooms) \in Rooms
  BY RoomsAssumption DEF Max
<1>3. config \in [enabled : BOOLEAN, room : Rooms]
  BY <1>2 DEF Init
<1>4. hook \in HookType /\ hook.pc = "idle"
  BY DEF Init, Idle, HookType
<1>5. /\ tree \in [Files -> Versions] /\ head \in [Files -> 0 .. MaxMoves]
      /\ log \in [Files -> SUBSET (0 .. MaxMoves)]
  BY <1>1 DEF Init, Versions, Gone
<1> DEFINE row == [digest |-> 0, trusted |-> TRUE, committed |-> 0]
<1>61. memory = [m \in Memories |-> row]
  BY DEF Init
<1>62. /\ row \in [digest : 0 .. MaxMoves, trusted : BOOLEAN, committed : 0 .. MaxMoves]
       /\ row.digest = 0
  BY <1>1
<1> HIDE DEF row
<1>6. /\ memory \in [Memories -> [digest : 0 .. MaxMoves, trusted : BOOLEAN, committed : 0 .. MaxMoves]]
      /\ \A m \in Memories : memory[m].digest <= 0
  BY <1>61, <1>62
<1>7. explicit \in [Memories -> BindingType \cup {None}]
  BY DEF Init
<1>8. /\ newest = 0 /\ learning \in BOOLEAN /\ session = None /\ txn = None /\ seen = None
      /\ severed \subseteq Causes /\ moves = 0 /\ faults = 0
  BY DEF Init
<1>9. QED
  BY <1>1, <1>3, <1>4, <1>5, <1>6, <1>7, <1>8 DEF TypeInv, TypeOK

(* What a step of a hook must leave for the types to hold after it.        *)
LEMMA TypeHookStep ==
    ASSUME TypeInv, HookUnchanged,
           session' \in SessionType \cup {None},
           session' # None => NotesOK(session'.notes),
           hook' \in HookType,
           hook'.pc = "start" => hook'.focus # None,
           hook'.pc = "context" => session' # None,
           txn' \in TxnType \cup {None},
           txn' # None => session' # None,
           hook'.pc = "compile" => txn' # None /\ txn'.by = "hook",
           seen' \in Packet \cup {Unavailable, None},
           severed' \subseteq Causes,
           faults' \in 0 .. MaxFaults
    PROVE  TypeInv'
BY DEF TypeInv, TypeOK, HookUnchanged, NotesOK

(* What a step of the user, the editor or git must leave.                  *)
LEMMA TypeMoveStep ==
    ASSUME TypeInv, Move, UserUnchanged,
           session' \in SessionType \cup {None},
           session' # None => NotesOK(session'.notes),
           session # None => session' # None,
           severed' \subseteq Causes,
           tree' \in [Files -> Versions],
           head' \in [Files -> 0 .. MaxMoves],
           log' \in [Files -> SUBSET (0 .. MaxMoves)],
           newest' \in 0 .. MaxMoves,
           memory' \in [Memories -> [digest : 0 .. MaxMoves, trusted : BOOLEAN,
                                     committed : 0 .. MaxMoves]],
           explicit' \in [Memories -> BindingType \cup {None}],
           config' \in [enabled : BOOLEAN, room : Rooms],
           learning' \in BOOLEAN,
           newest' <= moves',
           \A m \in Memories : memory'[m].digest <= moves'
    PROVE  TypeInv'
<1>1. moves' \in 0 .. MaxMoves
  BY BoundsAssumption DEF Move, TypeInv, TypeOK
<1>2. hook' = hook /\ txn' = txn /\ seen' = seen /\ faults' = faults
  BY DEF UserUnchanged
<1>3. QED
  BY <1>1, <1>2 DEF TypeInv, TypeOK, NotesOK

(* What the types say, for the steps below.                                *)
LEMMA TypeFacts ==
    ASSUME TypeInv
    PROVE  /\ session \in SessionType \cup {None}
           /\ session # None => session \in SessionType /\ NotesOK(session.notes)
           /\ None \notin SessionType
           /\ hook \in HookType
           /\ hook.pc = "start" => hook.focus # None
           /\ hook.pc = "context" => session # None
           /\ txn \in TxnType \cup {None}
           /\ txn # None => session # None
           /\ hook.pc = "compile" => txn # None /\ txn.by = "hook"
           /\ seen \in Packet \cup {Unavailable, None}
           /\ severed \subseteq Causes
           /\ faults \in 0 .. MaxFaults /\ moves \in 0 .. MaxMoves
           /\ config.room \in Nat
BY AbsentAssumption, RoomsAssumption DEF TypeInv, TypeOK, NotesOK

(* A hook that starts, leaves, or goes on. *)
LEMMA TypeBegin ==
    ASSUME TypeInv, NEW event \in Events, NEW focus \in Prompts \cup {None},
           NEW file \in Files \cup {None}, event = "UserPromptSubmit" => focus # None,
           Begin(event, focus, file)
    PROVE  TypeInv'
<1>0. /\ HookUnchanged /\ session' = session /\ txn' = txn /\ faults' = faults
      /\ seen' \in {seen, None} /\ hook.pc = "idle"
  BY DEF Begin, Emptied
<1>1. CASE config.enabled /\ (session # None \/ event = "UserPromptSubmit")
  <2> DEFINE pc == IF session = None THEN "start" ELSE "context"
             h == [Idle EXCEPT !.pc = pc, !.event = event, !.focus = focus, !.file = file]
  <2>1. hook' = h /\ severed' = severed
    BY <1>1 DEF Begin
  <2>2. pc \in {"start", "context"} /\ (pc = "start" => event = "UserPromptSubmit")
        /\ (pc = "context" => session # None)
    BY <1>1
  <2> HIDE DEF pc
  <2>3. h \in HookType /\ h.pc = pc /\ h.focus = focus
    BY <2>2 DEF Idle, HookType
  <2> HIDE DEF h, HookType, TxnType
  <2>4. QED
    BY <1>0, <2>1, <2>2, <2>3, TypeFacts, TypeHookStep
<1>2. CASE ~(config.enabled /\ (session # None \/ event = "UserPromptSubmit"))
  <2>1. hook' = hook /\ severed' \subseteq Causes
    BY <1>2, TypeFacts DEF Begin, Unserved, Causes
  <2>2. QED
    BY <1>0, <2>1, TypeFacts, TypeHookStep
<1>3. QED
  BY <1>1, <1>2

(* A hook that has not started.                                            *)
LEMMA IdleType == Idle \in HookType /\ Idle.pc = "idle" /\ Idle.out = None
BY DEF Idle, HookType

(* A store that cannot be opened, a look that fails.                       *)
LEMMA TypeLookErrors ==
    ASSUME TypeInv, NEW event \in HookEvents, LoadError(event) \/ LookError(event)
    PROVE  TypeInv'
<1>1. /\ HookUnchanged /\ UNCHANGED <<session, txn>>
      /\ seen' \in {seen, None} /\ severed' \subseteq Causes
  BY TypeFacts DEF LoadError, LookError, Emptied, Unserved, Causes
<1>2. faults' \in 0 .. MaxFaults
  BY TypeFacts, BoundsAssumption DEF LoadError, LookError
<1> DEFINE h == [Idle EXCEPT !.pc = "fail", !.event = event]
<1>3. hook' \in {hook, h} /\ hook.pc = "idle"
  BY DEF LoadError, LookError
<1>4. h \in HookType /\ h.pc = "fail"
  BY DEF Idle, HookType, Events
<1> HIDE DEF h
<1>5. hook' \in HookType /\ hook'.pc \in {"idle", "fail"}
  BY <1>3, <1>4, TypeFacts
<1>6. QED
  BY <1>1, <1>2, <1>5, TypeFacts, TypeHookStep

(* A failed transaction.                                                   *)
LEMMA TypeRaise ==
    ASSUME TypeInv, hook.pc \in {"start", "context", "compile"}, Raise, HookUnchanged,
           txn' \in {txn, None},
           UNCHANGED <<session, seen, severed>>, faults' \in 0 .. MaxFaults
    PROVE  TypeInv'
<1>1. hook' \in HookType /\ hook'.pc \in {"idle", "fail"}
  BY IdleType, TypeFacts DEF Raise, Exit, HookType
<1>2. QED
  BY <1>1, TypeFacts, TypeHookStep

(* The first prompt starts a session or finds one.                         *)
LEMMA TypeHookStart ==
    ASSUME TypeInv, HookStart
    PROVE  TypeInv'
<1>0. HookUnchanged /\ UNCHANGED <<txn, seen, severed, faults>> /\ hook.pc = "start" /\ txn = None
  BY DEF HookStart, Unlocked
<1>1. hook.focus \in Prompts
  BY <1>0, TypeFacts DEF HookType
<1>2. NewSession(hook.focus) \in SessionType /\ NotesOK(NewSession(hook.focus).notes)
  BY <1>1, NewSessionType
<1> DEFINE new == NewSession(hook.focus)
<1>3. \A pc \in {"context", "fail"} :
         [hook EXCEPT !.pc = pc] \in HookType /\ [hook EXCEPT !.pc = pc].pc = pc
  BY TypeFacts DEF HookType
<1>4. /\ session' \in {session, new}
      /\ \E pc \in {"context", "fail"} :
           hook' = [hook EXCEPT !.pc = pc] /\ (pc = "context" => session' # session \/ session # None
                                                                 \/ session' = new)
  BY DEF HookStart
<1> HIDE DEF new
<1>5. new \in SessionType /\ NotesOK(new.notes) /\ new # None
  BY <1>2, TypeFacts DEF new
<1>6. PICK pc \in {"context", "fail"} :
         /\ hook' = [hook EXCEPT !.pc = pc]
         /\ (pc = "context" => session' # session \/ session # None \/ session' = new)
  BY <1>4
<1>7. hook' \in HookType /\ hook'.pc = pc /\ (pc = "context" => session' # None)
  BY <1>3, <1>4, <1>5, <1>6
<1>8. session' \in SessionType \cup {None} /\ (session' # None => NotesOK(session'.notes))
  BY <1>4, <1>5, TypeFacts
<1>9. QED
  BY <1>0, <1>6, <1>7, <1>8, TypeFacts, TypeHookStep

(* What an open compilation leaves of the row.                             *)
LEMMA OutcomeFacts ==
    ASSUME TypeInv, txn # None, NEW late
    PROVE  LET c == Outcome(late)
           IN  /\ session \in SessionType
               /\ c.session \in SessionType /\ NotesOK(c.session.notes)
               /\ c.packet \in Packet /\ c.refused \in BOOLEAN
               /\ c.session.fingerprint = c.packet
               /\ c.session.selected = MemoriesIn(c.packet)
               /\ c.changed = (c.packet # session.fingerprint)
               /\ ~c.refused => \A m \in session.selected :
                                   m \in WithdrawnIn(c.packet) \/ Told(c.packet, m)
<1> DEFINE f == Focused(session, txn.focus, txn.file)
           look == [hash |-> txn.hash, git |-> late = 0]
           room == txn.room
           c == Compiled(f, room, look)
<1>1. session \in SessionType /\ NotesOK(session.notes)
  BY TypeFacts
<1>2. /\ txn.focus \in Prompts \cup {None} /\ txn.file \in Files \cup {None}
      /\ txn.hash \in [Files -> Versions] /\ txn.room \in Rooms
  BY TypeFacts DEF TxnType
<1>3. /\ f \in SessionType /\ f.notes = session.notes /\ f.selected = session.selected
      /\ f.fingerprint = session.fingerprint
  BY <1>1, <1>2, FocusedType
<1>4. look.hash \in [Files -> Versions] /\ room \in Nat /\ TypeOK
  BY <1>2, RoomsAssumption DEF TypeInv
<1>5. Outcome(late) = c
  BY DEF Outcome
<1> HIDE DEF f, look, room
<1>6. /\ c.session \in SessionType
      /\ c.packet \in Packet
      /\ c.refused \in BOOLEAN
      /\ c.session.fingerprint = c.packet
      /\ c.session.selected = MemoriesIn(c.packet)
      /\ c.session.notes = f.notes
      /\ c.changed = (c.packet # f.fingerprint)
      /\ ~c.refused => \A m \in f.selected : m \in WithdrawnIn(c.packet) \/ Told(c.packet, m)
  BY <1>3, <1>4, CompiledFacts
<1> HIDE DEF c
<1>7. QED
  BY <1>1, <1>3, <1>5, <1>6

(* The compilation a refresh commits, and what it prints.                  *)
LEMMA RefreshFacts ==
    ASSUME TypeInv, HookCompile
    PROVE  \E c : /\ session # None
                  /\ c.session \in SessionType /\ NotesOK(c.session.notes)
                  /\ c.packet \in Packet /\ c.refused \in BOOLEAN
                  /\ c.session.fingerprint = c.packet
                  /\ c.session.selected = MemoriesIn(c.packet)
                  /\ c.changed = (c.packet # session.fingerprint)
                  /\ ~c.refused => \A m \in session.selected :
                                      m \in WithdrawnIn(c.packet) \/ Told(c.packet, m)
                  /\ faults' \in 0 .. MaxFaults
                  /\ session' = c.session /\ txn' = None
                  /\ hook' = [hook EXCEPT !.pc = "deliver", !.refused = c.refused,
                                          !.out = IF c.changed \/ Forced THEN c.packet ELSE None]
<1>1. PICK late \in 0 .. 1 :
        LET c == Outcome(late)
        IN  /\ Committed(late, c.session)
            /\ hook' = [hook EXCEPT !.pc = "deliver", !.refused = c.refused,
                                    !.out = IF c.changed \/ Forced THEN c.packet ELSE None]
  BY DEF HookCompile
<1> DEFINE c == Outcome(late)
<1>2. txn # None /\ session # None
  BY TypeFacts DEF HookCompile
<1>3. faults' \in 0 .. MaxFaults /\ session' = c.session /\ txn' = None
  BY <1>1, TypeFacts DEF Committed
<1>4. hook' = [hook EXCEPT !.pc = "deliver", !.refused = c.refused,
                           !.out = IF c.changed \/ Forced THEN c.packet ELSE None]
  BY <1>1
<1>5. /\ c.session \in SessionType /\ NotesOK(c.session.notes)
      /\ c.packet \in Packet /\ c.refused \in BOOLEAN
      /\ c.session.fingerprint = c.packet
      /\ c.session.selected = MemoriesIn(c.packet)
      /\ c.changed = (c.packet # session.fingerprint)
      /\ ~c.refused => \A m \in session.selected :
                          m \in WithdrawnIn(c.packet) \/ Told(c.packet, m)
  BY <1>2, OutcomeFacts
<1> HIDE DEF c
<1>6. QED
  BY <1>2, <1>3, <1>4, <1>5

(* A compilation that begins.                                              *)
LEMMA OpenedType ==
    ASSUME TypeInv, NEW by \in {"hook", "preview"}, NEW focus \in Prompts \cup {None},
           NEW file \in Files \cup {None}, Opened(by, focus, file)
    PROVE  txn' \in TxnType /\ txn' # None /\ txn'.by = by
<1>1. tree \in [Files -> Versions] /\ config.room \in Rooms
  BY DEF TypeInv, TypeOK
<1>2. txn' \in TxnType /\ txn'.by = by
  BY <1>1 DEF Opened, TxnType
<1>3. QED
  BY <1>2, AbsentAssumption

(* A refresh begins.                                                       *)
LEMMA TypeHookContext ==
    ASSUME TypeInv, HookContext
    PROVE  TypeInv'
<1>1. HookUnchanged /\ UNCHANGED <<session, seen, severed, faults>> /\ hook.pc = "context"
  BY DEF HookContext
<1>2. CASE ~Fits(config.room)
  BY <1>1, <1>2, TypeRaise, TypeFacts DEF HookContext
<1>3. CASE Fits(config.room)
  <2>1. hook.focus \in Prompts \cup {None} /\ hook.file \in Files \cup {None}
    BY TypeFacts DEF HookType
  <2>2. hook' = [hook EXCEPT !.pc = "compile"] /\ Opened("hook", hook.focus, hook.file)
    BY <1>3 DEF HookContext
  <2>3. txn' \in TxnType /\ txn' # None /\ txn'.by = "hook"
    BY <2>1, <2>2, OpenedType
  <2>4. hook' \in HookType /\ hook'.pc = "compile"
    BY <2>2, TypeFacts DEF HookType
  <2>5. QED
    BY <1>1, <2>3, <2>4, TypeFacts, TypeHookStep
<1>4. QED
  BY <1>2, <1>3

(* A refresh commits.                                                      *)
LEMMA TypeHookCompile ==
    ASSUME TypeInv, HookCompile
    PROVE  TypeInv'
<1>1. HookUnchanged /\ UNCHANGED <<seen, severed>>
  BY DEF HookCompile
<1>2. PICK c : /\ c.session \in SessionType /\ NotesOK(c.session.notes)
               /\ c.packet \in Packet /\ c.refused \in BOOLEAN
               /\ faults' \in 0 .. MaxFaults
               /\ session' = c.session /\ txn' = None
               /\ hook' = [hook EXCEPT !.pc = "deliver", !.refused = c.refused,
                                       !.out = IF c.changed \/ Forced THEN c.packet ELSE None]
  BY RefreshFacts
<1> DEFINE out == IF c.changed \/ Forced THEN c.packet ELSE None
<1>3. out \in Packet \cup {Unavailable, None}
  BY <1>2
<1>4. hook' = [hook EXCEPT !.pc = "deliver", !.refused = c.refused, !.out = out]
  BY <1>2
<1> HIDE DEF out
<1>5. hook' \in HookType /\ hook'.pc = "deliver"
  BY <1>2, <1>3, <1>4, TypeFacts DEF HookType
<1>6. QED
  BY <1>1, <1>2, <1>5, TypeFacts, TypeHookStep

(* A hook about to print the advisory.                                     *)
LEMMA TypeAdvisory ==
    ASSUME TypeInv, hook.pc = "fail", hook' = [hook EXCEPT !.pc = "deliver", !.out = Unavailable]
    PROVE  hook' \in HookType /\ hook'.pc = "deliver" /\ hook'.out = Unavailable
BY TypeFacts DEF HookType

(* The delivery is forgotten, or that fails too.                           *)
LEMMA TypeInvalidate ==
    ASSUME TypeInv, Invalidate \/ InvalidateError
    PROVE  TypeInv'
<1>1. /\ HookUnchanged /\ hook' \in HookType /\ hook'.pc = "deliver" /\ UNCHANGED <<txn, seen>>
      /\ severed' \subseteq Causes /\ faults' \in 0 .. MaxFaults
  <2>1. severed' \subseteq Causes
    BY TypeFacts DEF Invalidate, InvalidateError, Causes
  <2>2. faults' \in 0 .. MaxFaults
    BY TypeFacts, BoundsAssumption DEF Invalidate, InvalidateError
  <2>3. QED
    BY <2>1, <2>2, TypeAdvisory DEF Invalidate, InvalidateError
<1>2. session' = session \/ (session # None /\ session' = [session EXCEPT !.fingerprint = None])
  BY DEF Invalidate, InvalidateError
<1>3. /\ session' \in SessionType \cup {None} /\ (session' # None => NotesOK(session'.notes))
      /\ session # None => session' # None
  BY <1>2, TypeFacts, InvalidatedType
<1>4. QED
  BY <1>1, <1>3, TypeFacts, TypeHookStep

(* The output arrives, or the hook is killed.                              *)
LEMMA TypeExit ==
    ASSUME TypeInv, Deliver \/ Kill
    PROVE  TypeInv'
<1>1. /\ HookUnchanged /\ hook' = Idle /\ session' = session /\ txn' \in {txn, None}
      /\ seen' \in {seen, hook.out} /\ severed' \subseteq Causes /\ faults' \in 0 .. MaxFaults
  <2>1. severed' \subseteq Causes
    BY TypeFacts DEF Deliver, Kill, Causes
  <2>2. faults' \in 0 .. MaxFaults
    BY TypeFacts, BoundsAssumption DEF Deliver, Kill
  <2>3. seen' \in {seen, hook.out}
    BY DEF Deliver, Kill
  <2>4. QED
    BY <2>1, <2>2, <2>3 DEF Deliver, Kill, Exit, RolledBack
<1>2. hook.out \in Packet \cup {Unavailable, None}
  BY TypeFacts DEF HookType
<1>3. QED
  BY <1>1, <1>2, IdleType, TypeFacts, TypeHookStep

(* A transaction fails and rolls back.                                     *)
LEMMA TypeHookError ==
    ASSUME TypeInv, HookError
    PROVE  TypeInv'
<1>1. faults' \in 0 .. MaxFaults
  BY TypeFacts, BoundsAssumption DEF HookError
<1>2. QED
  BY <1>1, TypeRaise DEF HookError, RolledBack

(* What a move leaves when it only touches the session row. *)
LEMMA TypeRowStep ==
    ASSUME TypeInv, Move, UserUnchanged,
           UNCHANGED <<tree, head, log, newest, memory, explicit, config, learning>>,
           session' \in SessionType \cup {None},
           session' # None => NotesOK(session'.notes),
           session # None => session' # None,
           severed' \subseteq Causes
    PROVE  TypeInv'
<1>1. moves' = moves + 1 /\ moves \in Nat
  BY TypeFacts DEF Move
<1>2. /\ newest' <= moves'
      /\ \A m \in Memories : memory'[m].digest <= moves'
  <2>1. newest \in Nat /\ newest <= moves
    BY DEF TypeInv, TypeOK
  <2>2. ASSUME NEW m \in Memories PROVE memory[m].digest \in Nat /\ memory[m].digest <= moves
    BY DEF TypeInv, TypeOK
  <2>3. QED
    BY <1>1, <2>1, <2>2
<1>3. QED
  BY <1>2, TypeMoveStep DEF TypeInv, TypeOK

(* An inspection leaves a row like the one it found.                       *)
LEMMA InspectionFacts ==
    ASSUME TypeInv, PreviewCompile
    PROVE  /\ session \in SessionType /\ session' \in SessionType
           /\ NotesOK(session'.notes)
           /\ session'.selected = session.selected
           /\ session'.fingerprint = session.fingerprint
           /\ txn' = None /\ faults' \in 0 .. MaxFaults
<1>1. PICK late \in 0 .. 1 : Committed(late, Unconsumed(Outcome(late).session, session))
  BY DEF PreviewCompile
<1> DEFINE t == Outcome(late).session
<1>2. session' = Unconsumed(t, session) /\ txn' = None /\ faults' \in 0 .. MaxFaults
  BY <1>1, TypeFacts DEF Committed
<1>3. session \in SessionType /\ t \in SessionType /\ NotesOK(t.notes)
  BY OutcomeFacts DEF PreviewCompile
<1> HIDE DEF t
<1>4. /\ Unconsumed(t, session) \in SessionType
      /\ Unconsumed(t, session).notes = t.notes
      /\ Unconsumed(t, session).selected = session.selected
      /\ Unconsumed(t, session).fingerprint = session.fingerprint
  BY <1>3, UnconsumedType
<1>5. QED
  BY <1>2, <1>3, <1>4

(* An inspection commits.                                                  *)
LEMMA TypePreviewCompile ==
    ASSUME TypeInv, PreviewCompile
    PROVE  TypeInv'
<1>1. /\ session' \in SessionType /\ NotesOK(session'.notes)
      /\ txn' = None /\ faults' \in 0 .. MaxFaults
  BY InspectionFacts
<1>2. hook.pc # "compile"
  BY TypeFacts DEF PreviewCompile
<1>3. QED
  BY <1>1, <1>2, TypeFacts, TypeHookStep DEF PreviewCompile

(* An inspection begins.                                                   *)
LEMMA TypePreviewOpen ==
    ASSUME TypeInv, NEW focus \in Prompts \cup {None}, NEW file \in Files \cup {None},
           PreviewOpen(focus, file)
    PROVE  TypeInv'
<1>1. /\ UNCHANGED <<tree, head, log, newest, memory, explicit, config, learning, session, hook,
                     seen, severed, faults>>
      /\ session # None /\ moves < MaxMoves /\ moves' = moves + 1 /\ txn = None
  BY DEF PreviewOpen, Move, Unlocked
<1>2. txn' \in TxnType /\ txn' # None
  BY OpenedType DEF PreviewOpen
<1>3. moves' \in 0 .. MaxMoves /\ newest <= moves'
      /\ \A m \in Memories : memory[m].digest <= moves'
  BY <1>1, BoundsAssumption DEF TypeInv, TypeOK
<1>4. QED
  BY <1>1, <1>2, <1>3 DEF TypeInv, TypeOK

(* A session started or replaced from the command line.                    *)
LEMMA TypeStart ==
    ASSUME TypeInv, NEW goal \in Prompts, Start(goal)
    PROVE  TypeInv'
<1>1. NewSession(goal) \in SessionType /\ NotesOK(NewSession(goal).notes)
  BY NewSessionType
<1>2. session' = NewSession(goal) /\ Move /\ UserUnchanged
      /\ UNCHANGED <<tree, head, log, newest, memory, explicit, config, learning>>
  BY DEF Start
<1>3. severed' \subseteq Causes
  BY TypeFacts DEF Start, Causes
<1>4. session' \in SessionType /\ NotesOK(session'.notes) /\ session' # None
  BY <1>1, <1>2, TypeFacts
<1>5. QED
  BY <1>2, <1>3, <1>4, TypeRowStep

(* A note is made with the version its file has.                           *)
LEMMA NoteFacts ==
    ASSUME TypeInv, NEW kind \in NoteKinds, NEW file \in Files \cup {None}, Note(kind, file)
    PROVE  /\ session \in SessionType /\ session' \in SessionType
           /\ NotesOK(session'.notes)
           /\ session'.selected = session.selected
           /\ session'.fingerprint = session.fingerprint
<1> DEFINE at == IF file = None THEN NoAnchor ELSE tree[file]
           n == [kind |-> kind, file |-> file, at |-> at]
<1>1. session \in SessionType /\ NotesOK(session.notes)
  BY TypeFacts DEF Note
<1>2. at \in {NoAnchor} \cup (0 .. MaxMoves)
  BY BoundsAssumption DEF Note, TypeInv, TypeOK, Versions, Gone
<1>3. session' = WithNote(session, n)
  BY DEF Note
<1> HIDE DEF at
<1>4. n \in NoteType
  BY <1>2 DEF NoteType
<1> HIDE DEF n
<1>5. IsRow(session)
  BY <1>1 DEF SessionType, IsRow, Fields
<1>6. WithNote(session, n).fingerprint = session.fingerprint
  BY <1>5, WithNoteFields
<1>7. QED
  BY <1>1, <1>3, <1>4, <1>6, WithNoteType

(* A note.                                                                 *)
LEMMA TypeNote ==
    ASSUME TypeInv, NEW kind \in NoteKinds, NEW file \in Files \cup {None}, Note(kind, file)
    PROVE  TypeInv'
<1>1. session' \in SessionType /\ NotesOK(session'.notes)
  BY NoteFacts
<1>2. severed' = severed /\ Move /\ UserUnchanged
      /\ UNCHANGED <<tree, head, log, newest, memory, explicit, config, learning>>
  BY DEF Note
<1>3. QED
  BY <1>1, <1>2, TypeFacts, TypeRowStep

(* What a move leaves when it touches neither the session row nor the      *)
(* counters' bounds.                                                       *)
LEMMA TypeStoreStep ==
    ASSUME TypeInv, Move, UserUnchanged, UNCHANGED <<session, severed>>,
           tree' \in [Files -> Versions],
           head' \in [Files -> 0 .. MaxMoves],
           log' \in [Files -> SUBSET (0 .. MaxMoves)],
           newest' \in 0 .. newest + 1,
           memory' \in [Memories -> [digest : 0 .. MaxMoves, trusted : BOOLEAN,
                                     committed : 0 .. MaxMoves]],
           \A m \in Memories : memory'[m].digest <= memory[m].digest + 1,
           explicit' \in [Memories -> BindingType \cup {None}],
           config' \in [enabled : BOOLEAN, room : Rooms],
           learning' \in BOOLEAN
    PROVE  TypeInv'
<1>1. moves' = moves + 1 /\ moves \in Nat /\ moves' \in 0 .. MaxMoves /\ MaxMoves \in Nat
  BY TypeFacts, BoundsAssumption DEF Move
<1>2. newest' \in 0 .. MaxMoves /\ newest' <= moves'
  BY <1>1 DEF TypeInv, TypeOK
<1>3. ASSUME NEW m \in Memories PROVE memory'[m].digest <= moves'
  <2>1. /\ memory[m].digest \in Nat /\ memory[m].digest <= moves
        /\ memory'[m].digest \in Nat /\ memory'[m].digest <= memory[m].digest + 1
    BY DEF TypeInv, TypeOK
  <2>2. QED
    BY <1>1, <2>1
<1>4. QED
  BY <1>2, <1>3, TypeFacts, TypeMoveStep

(* An acknowledgement binds the version the file has.                      *)
LEMMA TypeVerify ==
    ASSUME TypeInv, NEW m \in Memories, VerifyMemory(m)
    PROVE  TypeInv'
<1>1. Anchor[m] \in Files
  BY AnchorAssumption DEF VerifyMemory
<1>2. tree[Anchor[m]] \in 0 .. MaxMoves
  BY <1>1, BoundsAssumption DEF VerifyMemory, TypeInv, TypeOK, Versions, Gone
<1> DEFINE b == Binding(m, tree[Anchor[m]])
<1>3. b \in BindingType
  BY <1>2 DEF Binding, BindingType, TypeInv, TypeOK
<1>4. /\ explicit' = [explicit EXCEPT ![m] = b] /\ Move /\ UserUnchanged
      /\ UNCHANGED <<tree, head, log, newest, memory, config, learning, session, severed>>
  BY DEF VerifyMemory
<1> HIDE DEF b
<1>5. explicit' \in [Memories -> BindingType \cup {None}]
  BY <1>3, <1>4 DEF TypeInv, TypeOK
<1>6. newest \in 0 .. newest + 1 /\ \A x \in Memories : memory[x].digest <= memory[x].digest + 1
  BY DEF TypeInv, TypeOK
<1>7. QED
  BY <1>4, <1>5, <1>6, TypeStoreStep DEF TypeInv, TypeOK

(* Another budget, or the feature switched on or off.                      *)
LEMMA TypeConfigure ==
    ASSUME TypeInv, NEW e \in BOOLEAN, NEW r \in Rooms, Configure(e, r)
    PROVE  TypeInv'
<1>1. /\ config' = [enabled |-> e, room |-> r] /\ Move /\ UserUnchanged
      /\ UNCHANGED <<tree, head, log, newest, memory, explicit, learning, session, severed>>
  BY DEF Configure
<1>2. newest \in 0 .. newest + 1 /\ \A x \in Memories : memory[x].digest <= memory[x].digest + 1
  BY DEF TypeInv, TypeOK
<1>3. QED
  BY <1>1, <1>2, TypeStoreStep DEF TypeInv, TypeOK

(* Learning switched on or off.                                            *)
LEMMA TypeSwitch ==
    ASSUME TypeInv, SwitchLearning
    PROVE  TypeInv'
<1>1. /\ learning' \in BOOLEAN /\ Move /\ UserUnchanged
      /\ UNCHANGED <<tree, head, log, newest, memory, explicit, config, session, severed>>
  BY DEF SwitchLearning
<1>2. newest \in 0 .. newest + 1 /\ \A x \in Memories : memory[x].digest <= memory[x].digest + 1
  BY DEF TypeInv, TypeOK
<1>3. QED
  BY <1>1, <1>2, TypeStoreStep DEF TypeInv, TypeOK

(* A vote moves the memory's digest by one, within the moves made.         *)
LEMMA TypeJudge ==
    ASSUME TypeInv, NEW m \in Memories, NEW trusted \in BOOLEAN, Judge(m, trusted)
    PROVE  TypeInv'
<1> DEFINE at == IF Anchor[m] = None THEN 0 ELSE head[Anchor[m]]
           row == [digest |-> memory[m].digest + 1, trusted |-> trusted, committed |-> at]
<1>1. at \in 0 .. MaxMoves
  BY AnchorAssumption, BoundsAssumption DEF TypeInv, TypeOK
<1>2. /\ memory' = [memory EXCEPT ![m] = row] /\ Move /\ UserUnchanged
      /\ UNCHANGED <<tree, head, log, newest, explicit, config, learning, session, severed>>
  BY DEF Judge
<1> HIDE DEF at
<1>3. /\ memory[m].digest \in Nat /\ memory[m].digest <= moves /\ moves < MaxMoves
      /\ moves \in Nat /\ MaxMoves \in Nat
  BY <1>2, TypeFacts, BoundsAssumption DEF TypeInv, TypeOK, Move
<1>4. memory[m].digest + 1 \in 0 .. MaxMoves
  BY <1>3
<1>5. /\ row \in [digest : 0 .. MaxMoves, trusted : BOOLEAN, committed : 0 .. MaxMoves]
      /\ row.digest = memory[m].digest + 1
  BY <1>1, <1>4
<1> HIDE DEF row
<1>6. memory' \in [Memories -> [digest : 0 .. MaxMoves, trusted : BOOLEAN, committed : 0 .. MaxMoves]]
  BY <1>2, <1>5 DEF TypeInv, TypeOK
<1>7. ASSUME NEW x \in Memories PROVE memory'[x].digest <= memory[x].digest + 1
  <2>1. memory[x].digest \in Nat
    BY DEF TypeInv, TypeOK
  <2>2. x \in DOMAIN memory
    BY DEF TypeInv, TypeOK
  <2>3. memory'[x] = IF x = m THEN row ELSE memory[x]
    BY <1>2, <2>2
  <2>4. QED
    BY <1>5, <2>1, <2>3
<1>8. newest \in 0 .. newest + 1
  BY DEF TypeInv, TypeOK
<1>9. QED
  BY <1>2, <1>6, <1>7, <1>8, TypeStoreStep DEF TypeInv, TypeOK

(* An edit writes at most one new version for each move.                   *)
LEMMA TypeEdit ==
    ASSUME TypeInv, NEW f \in Files, NEW v \in Gone .. newest + 1, Edit(f, v)
    PROVE  TypeInv'
<1>1. /\ tree' = [tree EXCEPT ![f] = v] /\ Move /\ UserUnchanged
      /\ newest' \in {newest, newest + 1}
      /\ UNCHANGED <<head, log, memory, explicit, config, learning, session, severed>>
  BY DEF Edit
<1>2. newest \in Nat /\ newest <= moves /\ moves < MaxMoves /\ moves \in Nat /\ MaxMoves \in Nat
  BY <1>1, TypeFacts, BoundsAssumption DEF TypeInv, TypeOK, Move
<1>3. v \in Versions /\ newest' \in 0 .. newest + 1
  BY <1>1, <1>2 DEF Versions, Gone
<1>4. tree' \in [Files -> Versions]
  BY <1>1, <1>3 DEF TypeInv, TypeOK
<1>5. \A x \in Memories : memory[x].digest <= memory[x].digest + 1
  BY DEF TypeInv, TypeOK
<1>6. QED
  BY <1>1, <1>3, <1>4, <1>5, TypeStoreStep DEF TypeInv, TypeOK

(* A commit takes the version of the working tree.                         *)
LEMMA TypeCommit ==
    ASSUME TypeInv, NEW f \in Files, Commit(f)
    PROVE  TypeInv'
<1>1. /\ head' = [head EXCEPT ![f] = tree[f]] /\ Move /\ UserUnchanged /\ tree[f] # Gone
      /\ log' = [log EXCEPT ![f] = @ \cup {tree[f]}]
      /\ UNCHANGED <<tree, newest, memory, explicit, config, learning, session, severed>>
  BY DEF Commit
<1>2. tree[f] \in 0 .. MaxMoves
  BY <1>1, BoundsAssumption DEF TypeInv, TypeOK, Versions, Gone
<1>3. head' \in [Files -> 0 .. MaxMoves] /\ log' \in [Files -> SUBSET (0 .. MaxMoves)]
  BY <1>1, <1>2 DEF TypeInv, TypeOK
<1>4. newest \in 0 .. newest + 1 /\ \A x \in Memories : memory[x].digest <= memory[x].digest + 1
  BY DEF TypeInv, TypeOK
<1>5. QED
  BY <1>1, <1>3, <1>4, TypeStoreStep DEF TypeInv, TypeOK

(* A step of somebody else.                                                *)
LEMMA TypeStutter ==
    ASSUME TypeInv, UNCHANGED vars
    PROVE  TypeInv'
BY DEF TypeInv, TypeOK, vars

(* Every step keeps the types.                                             *)
LEMMA TypeNext == TypeInv /\ [Next]_vars => TypeInv'
<1> SUFFICES ASSUME TypeInv, [Next]_vars PROVE TypeInv'
  OBVIOUS
<1>0. (\A p \in Prompts : p # None)
      /\ {"UserPromptSubmit", "SessionStart", "ToolUse", "Get"} \subseteq Events
  BY NoneAssumption DEF Events, HookEvents
<1>1. ASSUME NEW p \in Prompts, Begin("UserPromptSubmit", p, None) PROVE TypeInv'
  BY <1>0, <1>1, TypeBegin
<1>2. CASE SessionStart
  BY <1>0, <1>2, TypeBegin DEF SessionStart
<1>3. ASSUME NEW f \in Files \cup {None}, Begin("ToolUse", None, f) PROVE TypeInv'
  BY <1>0, <1>3, TypeBegin
<1>4. ASSUME NEW p \in Prompts \cup {None}, NEW f \in Files \cup {None}, Begin("Get", p, f)
      PROVE  TypeInv'
  BY <1>0, <1>4, TypeBegin
<1>5. ASSUME NEW p \in Prompts, PreviewOpen(p, None) PROVE TypeInv'
  BY <1>5, TypePreviewOpen
<1>6. ASSUME NEW f \in Files, PreviewOpen(None, f) PROVE TypeInv'
  BY <1>6, TypePreviewOpen
<1>7. CASE Note("decision", None)
  BY <1>7, TypeNote DEF NoteKinds
<1>8. ASSUME NEW k \in NoteKinds, NEW f \in Files, Note(k, f) PROVE TypeInv'
  BY <1>8, TypeNote
<1>9. CASE HookStart \/ HookContext \/ HookCompile \/ HookError \/ Invalidate \/ InvalidateError
           \/ Deliver \/ Kill \/ PreviewCompile
  BY <1>9, TypeHookStart, TypeHookContext, TypeHookCompile, TypeHookError, TypeInvalidate,
     TypeExit, TypePreviewCompile
<1>10. QED
  BY <1>1, <1>2, <1>3, <1>4, <1>5, <1>6, <1>7, <1>8, <1>9, TypeLookErrors, TypeStart, TypeVerify,
     TypeConfigure, TypeSwitch, TypeJudge, TypeEdit, TypeCommit, TypeStutter
     DEF Next, UserPromptSubmit, ToolUse, GetWorkingContext

(* The rows, the packets and the processes' state are well typed: a        *)
(* session keeps at most MaxNotes notes and one next step, whatever is     *)
(* noted, retired, refreshed, replaced or lost (engine.py, note and        *)
(* _compile).                                                              *)
THEOREM WorkingTypes == Spec => []TypeOK
<1>1. TypeInv => TypeOK
  BY DEF TypeInv
<1>2. QED
  BY <1>1, TypeInit, TypeNext, PTL DEF Spec

-----------------------------------------------------------------------------
(* Withdrawals: nothing the agent was given disappears without a word.     *)

(* The packet p accounts for the memories of q: it says what each of them  *)
(* says, or names it as withdrawn.                                         *)
Accounts(p, q) == \A m \in MemoriesIn(q) : m \in WithdrawnIn(p) \/ Told(p, m)

(* The selection a session remembers is what its recorded packet shows; a  *)
(* packet the agent holds is the recorded one until the next is about to   *)
(* be printed; and that one accounts for every memory of the packet it     *)
(* replaces.                                                               *)
WithdrawnInv ==
    /\ session # None /\ session.fingerprint # None =>
          session.selected = MemoriesIn(session.fingerprint)
    /\ IsPacket(seen) /\ severed = {} /\ (hook.pc # "deliver" \/ hook.out = None) =>
          session # None /\ session.fingerprint = seen
    /\ hook.pc = "deliver" /\ IsPacket(hook.out) => session # None
    /\ hook.pc = "deliver" /\ IsPacket(hook.out) /\ IsPacket(seen) /\ severed = {}
          /\ ~hook.refused => Accounts(hook.out, seen)

(* Initially there is no session and nothing was delivered.                *)
LEMMA WithdrawnInit == Init => WithdrawnInv
<1> SUFFICES ASSUME Init PROVE WithdrawnInv
  OBVIOUS
<1>1. session = None /\ seen = None /\ hook.pc = "idle"
  BY IdleType DEF Init
<1>2. QED
  BY <1>1 DEF WithdrawnInv, IsPacket

(* A packet is neither absent nor the advisory.                            *)
LEMMA PacketsArePackets ==
    ASSUME NEW p \in Packet
    PROVE  IsPacket(p) /\ p # None
BY AbsentAssumption DEF IsPacket

(* A hook that is not about to print may come and go; SessionStart empties *)
(* the agent.                                                              *)
LEMMA WithdrawnQuiet ==
    ASSUME WithdrawnInv, session' = session, seen' = seen \/ seen' = None,
           severed' = {} => severed = {},
           hook' = hook \/ (hook.pc # "deliver" /\ hook'.pc # "deliver")
    PROVE  WithdrawnInv'
BY DEF WithdrawnInv, IsPacket, Accounts, MemoriesIn, WithdrawnIn, Told, Holding

(* An event looks at the session, or fails to.                             *)
LEMMA WithdrawnBegin ==
    ASSUME TypeInv, WithdrawnInv, NEW event,
           \/ \E focus, file : Begin(event, focus, file)
           \/ LoadError(event) \/ LookError(event)
    PROVE  WithdrawnInv'
<1>1. hook.pc = "idle" /\ session' = session /\ (seen' = seen \/ seen' = None)
  BY DEF Begin, LoadError, LookError, Emptied
<1>2. severed' = {} => severed = {}
  BY DEF Begin, LoadError, LookError, Unserved
<1>3. hook' = hook \/ hook'.pc # "deliver"
  BY DEF Begin, LoadError, LookError, Idle
<1>4. QED
  BY <1>1, <1>2, <1>3, WithdrawnQuiet

(* A failed refresh prints no packet.                                      *)
LEMMA WithdrawnRaise ==
    ASSUME TypeInv, WithdrawnInv, hook.pc \in {"start", "context", "compile"}, Raise,
           UNCHANGED <<session, seen, severed>>
    PROVE  WithdrawnInv'
<1>1. hook'.pc # "deliver"
  BY IdleType, TypeFacts DEF Raise, Exit, HookType
<1>2. QED
  BY <1>1, WithdrawnQuiet

(* A session is created only where none was, and then nothing was          *)
(* delivered.                                                              *)
LEMMA WithdrawnHookStart ==
    ASSUME TypeInv, WithdrawnInv, HookStart
    PROVE  WithdrawnInv'
<1>1. hook.pc = "start" /\ UNCHANGED <<seen, severed>>
  BY DEF HookStart
<1>2. hook'.pc # "deliver"
  BY TypeFacts DEF HookStart, HookType
<1>3. hook.focus \in Prompts
  BY <1>1, TypeFacts DEF HookType
<1>4. session' = session \/ (session = None /\ session'.fingerprint = None)
  BY <1>3, NewSessionType DEF HookStart
<1>5. QED
  BY <1>1, <1>2, <1>4 DEF WithdrawnInv, IsPacket

(* A refresh begins, or the budget is too small for it.                    *)
LEMMA WithdrawnHookContext ==
    ASSUME TypeInv, WithdrawnInv, HookContext
    PROVE  WithdrawnInv'
<1>1. UNCHANGED <<session, seen, severed>> /\ hook.pc = "context"
  BY DEF HookContext
<1>2. CASE ~Fits(config.room)
  BY <1>1, <1>2, WithdrawnRaise DEF HookContext
<1>3. CASE Fits(config.room)
  <2>1. hook'.pc = "compile"
    BY <1>3, TypeFacts DEF HookContext, HookType
  <2>2. QED
    BY <1>1, <2>1, WithdrawnQuiet
<1>4. QED
  BY <1>2, <1>3

(* A refresh: the new packet accounts for the memories of the old one.     *)
LEMMA WithdrawnHookCompile ==
    ASSUME TypeInv, WithdrawnInv, HookCompile
    PROVE  WithdrawnInv'
<1>1. UNCHANGED <<seen, severed>> /\ hook.pc = "compile"
  BY DEF HookCompile
<1>2. PICK c : /\ session # None
               /\ c.session \in SessionType
               /\ c.packet \in Packet /\ c.refused \in BOOLEAN
               /\ c.session.fingerprint = c.packet
               /\ c.session.selected = MemoriesIn(c.packet)
               /\ c.changed = (c.packet # session.fingerprint)
               /\ ~c.refused => \A m \in session.selected :
                                   m \in WithdrawnIn(c.packet) \/ Told(c.packet, m)
               /\ session' = c.session
               /\ hook' = [hook EXCEPT !.pc = "deliver", !.refused = c.refused,
                                       !.out = IF c.changed \/ Forced THEN c.packet ELSE None]
  BY RefreshFacts
<1>3. session' # None /\ c.packet # None /\ IsPacket(c.packet)
  BY <1>2, TypeFacts, PacketsArePackets
<1> DEFINE out == IF c.changed \/ Forced THEN c.packet ELSE None
<1>4. hook'.pc = "deliver" /\ hook'.refused = c.refused /\ hook'.out = out
  BY <1>2, TypeFacts DEF HookType
<1>5. /\ out = c.packet \/ (out = None /\ c.packet = session.fingerprint)
      /\ IsPacket(out) => out = c.packet
  BY <1>2 DEF IsPacket
<1> HIDE DEF out
<1>6. IsPacket(seen) /\ severed = {} =>
         session.fingerprint = seen /\ session.selected = MemoriesIn(seen)
  BY <1>1, <1>2 DEF WithdrawnInv, IsPacket
<1>7. session'.fingerprint = c.packet /\ session'.selected = MemoriesIn(c.packet)
  BY <1>2
<1>8. session'.fingerprint # None => session'.selected = MemoriesIn(session'.fingerprint)
  BY <1>7
<1>9. (IsPacket(seen') /\ severed' = {} /\ hook'.out = None) => session'.fingerprint = seen'
  BY <1>1, <1>3, <1>4, <1>5, <1>6, <1>7
<1>10. IsPacket(hook'.out) /\ IsPacket(seen') /\ severed' = {} /\ ~hook'.refused
          => Accounts(hook'.out, seen')
  <2>1. IsPacket(seen) /\ severed = {} /\ ~c.refused => Accounts(c.packet, seen)
    BY <1>2, <1>6 DEF Accounts
  <2>2. QED
    BY <1>1, <1>4, <1>5, <2>1
<1>11. QED
  BY <1>3, <1>4, <1>8, <1>9, <1>10
     DEF WithdrawnInv, IsPacket, Accounts, MemoriesIn, WithdrawnIn, Told, Holding

(* The advisory replaces the packet that is no longer recorded.            *)
LEMMA WithdrawnInvalidate ==
    ASSUME TypeInv, WithdrawnInv, Invalidate \/ InvalidateError
    PROVE  WithdrawnInv'
<1>1. hook'.pc = "deliver" /\ hook'.out = Unavailable /\ seen' = seen
  BY TypeAdvisory DEF Invalidate, InvalidateError
<1>2. Unavailable # None
  BY NoneAssumption
<1>3. \/ session' = session
      \/ session # None /\ session' = [session EXCEPT !.fingerprint = None]
  BY DEF Invalidate, InvalidateError
<1>4. session' # None /\ session'.fingerprint # None =>
         session'.selected = MemoriesIn(session'.fingerprint)
  <2>1. CASE session' = session
    BY <2>1 DEF WithdrawnInv
  <2>2. CASE session # None /\ session' = [session EXCEPT !.fingerprint = None]
    BY <2>2, TypeFacts DEF SessionType
  <2>3. QED
    BY <1>3, <2>1, <2>2
<1>5. QED
  BY <1>1, <1>2, <1>4 DEF WithdrawnInv, IsPacket, MemoriesIn, Holding

(* A delivered packet is the recorded one, or the two are severed.         *)
LEMMA WithdrawnDeliver ==
    ASSUME TypeInv, WithdrawnInv, Deliver
    PROVE  WithdrawnInv'
<1>1. /\ hook.pc = "deliver" /\ session' = session /\ hook' = Idle
      /\ seen' = (IF hook.out = None THEN seen ELSE hook.out)
  BY DEF Deliver, Exit
<1>2. hook'.pc = "idle"
  BY <1>1, IdleType
<1>3. IsPacket(hook.out) /\ severed' = {} => session.fingerprint = hook.out
  BY DEF Deliver
<1>4. ~IsPacket(hook.out) => severed' = severed
  BY DEF Deliver
<1>5. QED
  BY <1>1, <1>2, <1>3, <1>4 DEF WithdrawnInv, IsPacket

(* A killed hook had nothing to print, or the two are severed.             *)
LEMMA WithdrawnKill ==
    ASSUME TypeInv, WithdrawnInv, Kill
    PROVE  WithdrawnInv'
<1>1. session' = session /\ hook' = Idle /\ seen' = seen
  BY DEF Kill, Exit
<1>2. hook'.pc = "idle"
  BY <1>1, IdleType
<1>3. severed' = {} => severed = {} /\ ~(hook.pc = "deliver" /\ hook.out # None)
  BY DEF Kill
<1>4. QED
  BY <1>1, <1>2, <1>3 DEF WithdrawnInv, IsPacket

(* Moves that leave the delivery columns of the row alone.                 *)
LEMMA WithdrawnKept ==
    ASSUME WithdrawnInv, UNCHANGED <<hook, seen, severed>>,
           session' # None <=> session # None,
           session # None => /\ session'.selected = session.selected
                             /\ session'.fingerprint = session.fingerprint
    PROVE  WithdrawnInv'
BY DEF WithdrawnInv, IsPacket, Accounts, MemoriesIn, WithdrawnIn, Told, Holding

(* A replaced session severs what the agent holds from the record.         *)
LEMMA WithdrawnStart ==
    ASSUME TypeInv, WithdrawnInv, NEW goal \in Prompts, Start(goal)
    PROVE  WithdrawnInv'
<1>1. hook' = hook /\ seen' = seen
  BY DEF Start, UserUnchanged
<1>2. session'.fingerprint = None /\ session' # None
  BY NewSessionType, TypeFacts DEF Start
<1>3. severed' = {} => session = None /\ severed = {}
  BY DEF Start
<1>4. QED
  BY <1>1, <1>2, <1>3 DEF WithdrawnInv, IsPacket, Accounts, MemoriesIn, WithdrawnIn, Told, Holding

(* Every step keeps it.                                                    *)
LEMMA WithdrawnNext == TypeInv /\ WithdrawnInv /\ [Next]_vars => WithdrawnInv'
<1> SUFFICES ASSUME TypeInv, WithdrawnInv, [Next]_vars PROVE WithdrawnInv'
  OBVIOUS
<1>1. CASE UserPromptSubmit \/ SessionStart \/ ToolUse \/ GetWorkingContext
  BY <1>1, WithdrawnBegin DEF UserPromptSubmit, SessionStart, ToolUse, GetWorkingContext
<1>2. CASE \E event \in HookEvents : LoadError(event) \/ LookError(event)
  BY <1>2, WithdrawnBegin
<1>3. CASE \/ HookStart \/ HookContext \/ HookCompile \/ Invalidate \/ InvalidateError
           \/ Deliver \/ Kill
  BY <1>3, WithdrawnHookStart, WithdrawnHookContext, WithdrawnHookCompile, WithdrawnInvalidate,
     WithdrawnDeliver, WithdrawnKill
<1>4. CASE HookError
  BY <1>4, WithdrawnRaise DEF HookError
<1>41. CASE PreviewCompile
  <2>1. /\ session \in SessionType /\ session' \in SessionType
        /\ session'.selected = session.selected /\ session'.fingerprint = session.fingerprint
    BY <1>41, InspectionFacts
  <2>2. UNCHANGED <<hook, seen, severed>>
    BY <1>41 DEF PreviewCompile
  <2>3. QED
    BY <2>1, <2>2, TypeFacts, WithdrawnKept
<1>42. CASE \/ \E p \in Prompts : PreviewOpen(p, None)
            \/ \E f \in Files : PreviewOpen(None, f)
  BY <1>42, WithdrawnKept DEF PreviewOpen
<1>5. ASSUME NEW k \in NoteKinds, NEW file \in Files \cup {None}, Note(k, file)
      PROVE  WithdrawnInv'
  <2>1. /\ session \in SessionType /\ session' \in SessionType
        /\ session'.selected = session.selected /\ session'.fingerprint = session.fingerprint
    BY <1>5, NoteFacts
  <2>2. UNCHANGED <<hook, seen, severed>>
    BY <1>5 DEF Note, UserUnchanged
  <2>3. QED
    BY <2>1, <2>2, TypeFacts, WithdrawnKept
<1>6. ASSUME NEW m \in Memories, VerifyMemory(m) PROVE WithdrawnInv'
  BY <1>6, WithdrawnKept DEF VerifyMemory, UserUnchanged
<1>7. ASSUME NEW e \in BOOLEAN, NEW r \in Rooms, Configure(e, r) PROVE WithdrawnInv'
  BY <1>7, WithdrawnKept DEF Configure, UserUnchanged
<1>8. CASE SwitchLearning
  BY <1>8, WithdrawnKept DEF SwitchLearning, UserUnchanged
<1>9. ASSUME NEW m \in Memories, NEW t \in BOOLEAN, Judge(m, t) PROVE WithdrawnInv'
  BY <1>9, WithdrawnKept DEF Judge, UserUnchanged
<1>10. ASSUME NEW f \in Files, NEW v, Edit(f, v) PROVE WithdrawnInv'
  BY <1>10, WithdrawnKept DEF Edit, UserUnchanged
<1>11. ASSUME NEW f \in Files, Commit(f) PROVE WithdrawnInv'
  BY <1>11, WithdrawnKept DEF Commit, UserUnchanged
<1>12. CASE UNCHANGED vars
  BY <1>12, WithdrawnKept DEF vars
<1>13. CASE Note("decision", None) \/ \E k \in NoteKinds, f \in Files : Note(k, f)
  BY <1>13, <1>5 DEF NoteKinds
<1>14. QED
  BY <1>1, <1>2, <1>3, <1>4, <1>41, <1>42, <1>6, <1>7, <1>8, <1>9, <1>10, <1>11, <1>12, <1>13,
     WithdrawnStart DEF Next

(* Evidence never just disappears: what a memory that the agent was given  *)
(* says is said by the next packet, by that memory or by one whose text is *)
(* the same (engine.py 641-646 drops duplicates), or the packet names the  *)
(* memory as withdrawn, unless it ran out of room or an earlier one was    *)
(* lost (engine.py, _compile and context(consume=False)).  For any         *)
(* memories, texts, edges, budgets, prompts and any interleaving of        *)
(* refreshes, inspections, edits and faults.                               *)
THEOREM WithdrawnToldHolds == Spec => WithdrawnTold
<1> DEFINE Kept == IsPacket(seen) /\ IsPacket(seen') /\ seen' # seen /\ severed = {} /\ ~hook.refused
                   => \A m \in MemoriesIn(seen) :
                        m \in WithdrawnIn(seen') \/ \E n \in MemoriesIn(seen') : Text[n] = Text[m]
<1>1. ASSUME TypeInv, WithdrawnInv, [Next]_vars PROVE Kept
  <2> SUFFICES ASSUME IsPacket(seen'), seen' # seen, IsPacket(seen), severed = {}, ~hook.refused
               PROVE  \A m \in MemoriesIn(seen) :
                        m \in WithdrawnIn(seen') \/ \E n \in MemoriesIn(seen') : Text[n] = Text[m]
    OBVIOUS
  <2>1. hook.pc = "deliver" /\ seen' = hook.out
    <3>1. ASSUME NEW e, (\E p, f : Begin(e, p, f)) \/ LoadError(e) \/ LookError(e) PROVE FALSE
      BY <3>1 DEF Begin, LoadError, LookError, Emptied, IsPacket
    <3>2. CASE UserUnchanged \/ UNCHANGED vars
      BY <3>2 DEF UserUnchanged, vars
    <3>3. CASE \/ HookStart \/ HookContext \/ HookCompile \/ HookError \/ Invalidate
               \/ InvalidateError \/ Kill \/ PreviewCompile \/ \E p, f : PreviewOpen(p, f)
      BY <3>3 DEF HookStart, HookContext, HookCompile, HookError, Invalidate, InvalidateError,
                  Kill, PreviewCompile, PreviewOpen
    <3>4. CASE Deliver
      BY <3>4 DEF Deliver
    <3>5. CASE UserPromptSubmit \/ SessionStart \/ ToolUse \/ GetWorkingContext
      BY <3>1, <3>5 DEF UserPromptSubmit, SessionStart, ToolUse, GetWorkingContext
    <3>6. QED
      BY <1>1, <3>1, <3>2, <3>3, <3>4, <3>5
         DEF Next, Start, Note, VerifyMemory, Configure, SwitchLearning, Judge, Edit, Commit
  <2>2. Accounts(hook.out, seen)
    BY <1>1, <2>1 DEF WithdrawnInv
  <2>3. QED
    BY <2>1, <2>2 DEF Accounts, Told
<1>2. TypeInv /\ WithdrawnInv /\ [Next]_vars => [Kept]_vars
  BY <1>1
<1>3. QED
  BY <1>2, TypeInit, TypeNext, WithdrawnInit, WithdrawnNext, PTL DEF Spec, WithdrawnTold

=============================================================================
