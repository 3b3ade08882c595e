-------------------------- MODULE WorkingContext --------------------------
(***************************************************************************)
(* Adaptive working context (working_context/engine.py, hooks.py, the      *)
(* store's transactions and the MCP tools that call the engine).           *)
(*                                                                         *)
(* A Claude session has one record in the metadata table: its goal, the    *)
(* current focus and file, notes, the source versions its memories were    *)
(* bound to, the memories last selected, the withdrawn ones and the        *)
(* fingerprint of the last packet.  A hook process refreshes the packet    *)
(* inside one BEGIN IMMEDIATE transaction and prints it only when the      *)
(* fingerprint changed; what the agent holds is whatever reached it.  The  *)
(* command line, the MCP server, the editor and git run beside the hook:   *)
(* the database admits one writer at a time, but the editor and git do not *)
(* wait for it, and a compilation looks at the files first and asks git    *)
(* later.                                                                  *)
(*                                                                         *)
(* A packet is the sequence of its lines; its fingerprint is the packet    *)
(* itself (sha256 is taken to be injective) and None is the empty string.  *)
(* A file's content is a version number: 0 is the version every memory was *)
(* written for, the editor writes a new one each time.  Text lengths are   *)
(* Size units of the room the budget leaves beside goal and constraints.   *)
(***************************************************************************)
EXTENDS Integers, Sequences, FiniteSets, FiniteSetsExt, SequencesExt, Functions

CONSTANTS
    Memories,       \* the stored memories
    Files,          \* repository files
    Anchor,         \* Anchor[m]: the file m's source_ref names, or None
    Prompts,        \* user prompts: the first is the goal, later ones the focus
    Relevant,       \* Relevant[p]: memories whose text overlaps prompt p
    Rank,           \* the memories by confidence, best first
    Text,           \* Text[m]: what m says, spacing and case apart
    Supersedes,     \* trusted edges <<newer, older>>
    Contradicts,    \* trusted edges <<one, other>>
    Marked,         \* memories a staleness scan has marked stale or orphaned
    Rooms,          \* budgets to configure, less what goal and constraints take
    MaxNotes,       \* _MAX_NOTES
    MaxMoves,       \* bound: actions of the user, the editor and git
    MaxFaults,      \* bound: failed transactions, killed processes, late git answers
    MaxEvents,      \* bound: the two together
    Unavailable,    \* the advisory a hook prints when its refresh failed
    None

ASSUME NoneAssumption == None \notin Memories \cup Files \cup Prompts \cup {Unavailable}
ASSUME AnchorAssumption == Anchor \in [Memories -> Files \cup {None}]
ASSUME RankAssumption == /\ Rank \in Seq(Memories) /\ Range(Rank) = Memories
                         /\ Len(Rank) = Cardinality(Memories)
ASSUME RoomsAssumption == Rooms \subseteq Nat /\ \E r \in Rooms : \A o \in Rooms : o <= r
ASSUME BoundsAssumption == MaxNotes \in Nat \ {0} /\ MaxMoves \in Nat /\ MaxFaults \in Nat
                           /\ MaxEvents \in Nat

VARIABLES
    tree,       \* tree[f]: version of f in the working tree, Gone if deleted
    head,       \* head[f]: version of f at git HEAD
    log,        \* history: log[f], every version of f that was at HEAD
    newest,     \* the newest version number the editor has written
    memory,     \* memory[m]: digest, trust, and HEAD's version when last updated
    explicit,   \* explicit[m]: the acknowledgement verify_memory stored, or None
    config,     \* WorkingConfig
    learning,   \* learning_enabled(): the ONMC_LEARNING switch
    session,    \* the WorkingSession row, or None
    txn,        \* the open compilation, with what it read of the files, or None
    hook,       \* the hook (or MCP) process: where it is and what it will print
    seen,       \* what the agent holds: a packet, Unavailable or None
    severed,    \* history: why what is recorded may not be what the agent holds
    acked,      \* history: every <<memory, digest, version>> acknowledged
    raced,      \* history: those bound while their file moved
    moves, faults

vars == <<tree, head, log, newest, memory, explicit, config, learning, session, txn,
          hook, seen, severed, acked, raced, moves, faults>>

Gone == -1
NoAnchor == -2
NoteKinds == {"next_step", "decision"}
HookEvents == {"UserPromptSubmit", "SessionStart", "ToolUse"}
Events == HookEvents \cup {"Get"}
Causes == {"lost", "invalidate", "load", "unserved", "replaced"}

Versions == Gone .. MaxMoves
BindingType == [digest : 0 .. MaxMoves, version : 0 .. MaxMoves]
NoteType == [kind : NoteKinds, file : Files \cup {None}, at : {NoAnchor} \cup (0 .. MaxMoves)]

(* What the engine may say of a candidate, of a note and to the agent.     *)
(* Two more reasons, "duplicate" and "budget", are given while the packet  *)
(* is filled, after withdrawals and notices are settled: they are counted. *)
Usable == {"unanchored", "acknowledged", "unchanged"}
Reasons == Usable \cup {"rejected", "marked_stale", "source_unavailable", "source_changed",
                        "source_unverified", "irrelevant", "conflicts_with", "superseded_by",
                        "learning_disabled"}
Statuses == {"recorded", "SOURCE UNVERIFIED", "SOURCE CHANGED"}
Notices == {"withdrawn", "learning", "sources", "conflicts", "focus omitted", "notes omitted"}

(* The lines a packet may carry, and the packet. *)
Line == ({"withdrawn"} \X (Memories \cup {None}) \X (Reasons \cup {None}))
   \cup ({"memory"} \X Memories \X Reasons)
   \cup ({"note", "recheck"} \X NoteType \X Statuses)
   \cup ({"focus"} \X Prompts \X {None})
   \cup ({"files"} \X Files \X {None})
   \cup ({"notice"} \X Notices \X {None})
   \cup ({"retired"} \X Nat \X {None})
Packet == [goal : Prompts, lines : Seq(Line), excluded : Nat, notices : Nat]

SessionType ==
    [goal : Prompts, focus : Prompts \cup {None}, active : Files \cup {None},
     notes : Seq(NoteType), pruned : Nat,
     bindings : [Memories -> BindingType \cup {None}],
     withdrawals : [Memories -> Reasons \cup {None}],
     selected : SUBSET Memories, fingerprint : Packet \cup {None}]

HookType ==
    [pc : {"idle", "start", "context", "compile", "fail", "deliver"}, event : Events \cup {None},
     focus : Prompts \cup {None}, file : Files \cup {None},
     out : Packet \cup {Unavailable, None}, refused : BOOLEAN]

(* A compilation holds the database's write lock. *)
TxnType ==
    [by : {"hook", "preview"}, focus : Prompts \cup {None}, file : Files \cup {None},
     room : Rooms, hash : [Files -> Versions]]

ASSUME AbsentAssumption == /\ None \notin Packet /\ Unavailable \notin Packet
                           /\ None \notin SessionType /\ None \notin Reasons
                           /\ None \notin TxnType

Idle == [pc |-> "idle", event |-> None, focus |-> None, file |-> None, out |-> None,
         refused |-> FALSE]

-----------------------------------------------------------------------------
(* Compilation: which memories are current, and the packet they make.      *)

Binding(m, v) == [digest |-> memory[m].digest, version |-> v]

(* The bootstrap test, when git is asked: the file is clean, tracked, and  *)
(* its last commit is not newer than the memory.  look.git is FALSE when   *)
(* git answered too late for the compilation's deadline.                   *)
InitialSourceFresh(m, look) ==
    /\ look.git
    /\ tree[Anchor[m]] = head[Anchor[m]]
    /\ head[Anchor[m]] <= memory[m].committed

(* Fault: a changed source is taken as the session's new baseline.         *)
FreshnessRebinding(s, m, look) ==
    IF Anchor[m] = None THEN "unanchored"
    ELSE IF look.hash[Anchor[m]] = Gone THEN "source_unavailable" ELSE "unchanged"

(* look.hash is what the compilation read of the files before that.        *)
Freshness(s, m, look) ==
    LET now == Binding(m, look.hash[Anchor[m]])
        bound == s.bindings[m]
    IN  IF Anchor[m] = None THEN IF m \in Marked THEN "marked_stale" ELSE "unanchored"
        ELSE IF look.hash[Anchor[m]] = Gone THEN "source_unavailable"
        ELSE IF explicit[m] = now THEN "acknowledged"
        ELSE IF bound # None /\ bound.digest = now.digest
             THEN IF bound = now THEN "unchanged" ELSE "source_changed"
        ELSE IF m \in Marked THEN "marked_stale"
        ELSE IF InitialSourceFresh(m, look) THEN "unchanged" ELSE "source_unverified"

FileMatch(s, m) == s.active # None /\ Anchor[m] = s.active

RelevantNow(s) ==
    {m \in Memories : \/ FileMatch(s, m)
                      \/ m \in Relevant[s.goal]
                      \/ s.focus # None /\ m \in Relevant[s.focus]}

(* Retrieved by file, focus or goal, and whatever was selected last.       *)
Candidates(s) == IF learning THEN RelevantNow(s) \cup s.selected ELSE {}

(* The freshness label of candidate m, or the reason it is excluded before *)
(* edges are looked at.                                                    *)
Label(s, m, look) ==
    LET fresh == Freshness(s, m, look)
    IN  CASE ~memory[m].trusted -> "rejected"
          [] memory[m].trusted /\ fresh \notin Usable -> fresh
          [] OTHER -> IF m \in RelevantNow(s) THEN fresh ELSE "irrelevant"

(* Edges count only between eligible memories, and all at once.            *)
Displaced(labels) ==
    LET E == {m \in DOMAIN labels : labels[m] \in Usable}
        conflicts == {m \in E : \E o \in E : {<<m, o>>, <<o, m>>} \cap Contradicts # {}}
        superseded == {m \in E : \E o \in E : <<o, m>> \in Supersedes}
    IN  [m \in DOMAIN labels |->
            IF m \in conflicts THEN "conflicts_with"
            ELSE IF m \in superseded THEN "superseded_by" ELSE labels[m]]

(* Each candidate's label: a freshness in Usable, or why it is excluded.   *)
Labels(s, look) == Displaced([m \in Candidates(s) |-> Label(s, m, look)])

Current(labels) == {m \in DOMAIN labels : labels[m] \in Usable}

(* What was supplied and is not current any more stays withdrawn until it  *)
(* is current again.                                                       *)
Withdrawals(s, labels) ==
    [m \in Memories |->
        IF m \in Current(labels) THEN None
        ELSE IF m \notin s.selected THEN s.withdrawals[m]
        ELSE IF m \in DOMAIN labels THEN labels[m] ELSE "learning_disabled"]

(* A trusted memory found usable is bound to the version it was found at,  *)
(* relevant or not.                                                        *)
Bindings(s, look) ==
    [m \in Memories |->
        IF /\ m \in Candidates(s) /\ memory[m].trusted /\ Anchor[m] # None
           /\ Freshness(s, m, look) \in Usable
        THEN Binding(m, look.hash[Anchor[m]])
        ELSE s.bindings[m]]

NoteStatus(n, look) ==
    CASE n.at = NoAnchor -> "recorded"
      [] n.at # NoAnchor /\ look.hash[n.file] = Gone -> "SOURCE UNVERIFIED"
      [] OTHER -> IF look.hash[n.file] = n.at THEN "recorded" ELSE "SOURCE CHANGED"

Size(line) == IF line[1] \in {"memory", "note"} THEN 2 ELSE 1

(* [x for x in q if x in S] *)
Only(q, S) ==
    LET kept[i \in 0 .. Len(q)] ==
            IF i = 0 THEN << >>
            ELSE IF q[i] \in S THEN Append(kept[i - 1], q[i]) ELSE kept[i - 1]
    IN  kept[Len(q)]

(* The packet shows a memory that says what this line would say.           *)
Repeats(lines, line) ==
    line[1] = "memory" /\ \E i \in DOMAIN lines :
        lines[i][1] = "memory" /\ Text[lines[i][2]] = Text[line[2]]

(* append(): a line is taken whole if it fits, else left out; a memory     *)
(* whose text is there already is skipped.                                 *)
Appended(acc, line, room) ==
    IF Repeats(acc.lines, line) THEN acc
    ELSE IF acc.used + Size(line) <= room
    THEN [acc EXCEPT !.lines = Append(@, line), !.used = @ + Size(line)]
    ELSE [acc EXCEPT !.refused = Append(@, line)]

(* The packet after appending these lines, one after the other.            *)
Packed(lines, start, room) ==
    LET after[i \in 0 .. Len(lines)] ==
            IF i = 0 THEN start ELSE Appended(after[i - 1], lines[i], room)
    IN  after[Len(lines)]

Ordered(s, S) ==
    Only(Rank, {m \in S : FileMatch(s, m)}) \o Only(Rank, {m \in S : ~FileMatch(s, m)})

MapSeq(Op(_), q) == [i \in DOMAIN q |-> Op(q[i])]

Optional(cond, line) == IF cond THEN <<line>> ELSE << >>

(* The memories withdrawn for the reasons W. *)
Out(W) == Only(Rank, {m \in Memories : W[m] # None})

NextSteps(notes) == {n \in Range(notes) : n.kind = "next_step"}

(* The notes, the next step first. *)
SortedNotes(notes) == Only(notes, NextSteps(notes)) \o Only(notes, Range(notes) \ NextSteps(notes))

(* The lines that compete for the room, in the order they are appended.    *)
Body(s, labels, W, look) ==
    Optional(Out(W) # << >>, <<"withdrawn", None, None>>)
      \o MapSeq(LAMBDA m : <<"withdrawn", m, W[m]>>, Out(W))
      \o MapSeq(LAMBDA n : <<"note", n, NoteStatus(n, look)>>, SortedNotes(s.notes))
      \o Optional(s.focus \notin {None, s.goal}, <<"focus", s.focus, None>>)
      \o Optional(s.active # None, <<"files", s.active, None>>)
      \o MapSeq(LAMBDA m : <<"memory", m, labels[m]>>, Ordered(s, Current(labels)))

(* The notices, which come last and take the room that is left.            *)
Warnings(s, labels, W, refused, look) ==
    LET reasons == Range(labels)
        notes == SortedNotes(s.notes)
        suspect == Only(notes, {n \in Range(notes) : NoteStatus(n, look) # "recorded"})
        dropped(kind) == \E i \in DOMAIN refused : refused[i][1] = kind
    IN  Optional(Out(W) # << >>, <<"notice", "withdrawn", None>>)
          \o Optional(~learning, <<"notice", "learning", None>>)
          \o Optional(reasons \cap {"source_unavailable", "source_changed",
                                    "source_unverified"} # {},
                      <<"notice", "sources", None>>)
          \o Optional("conflicts_with" \in reasons, <<"notice", "conflicts", None>>)
          \o Optional(s.pruned > 0, <<"retired", s.pruned, None>>)
          \o MapSeq(LAMBDA n : <<"recheck", n, NoteStatus(n, look)>>, suspect)
          \o Optional(dropped("focus"), <<"notice", "focus omitted", None>>)
          \o Optional(dropped("note"), <<"notice", "notes omitted", None>>)

Holding(lines, kind) == {m \in Memories : \E i \in DOMAIN lines :
                           lines[i][1] = kind /\ lines[i][2] = m}

(* The packet of session s, whose candidates have these labels and whose   *)
(* withdrawn memories have these reasons: what it shows and whether a line *)
(* was left out.                                                           *)
Rendered(s, labels, W, room, look) ==
    LET filled == Packed(Body(s, labels, W, look),
                         [lines |-> << >>, used |-> 0, refused |-> << >>], room)
        shown == Holding(filled.lines, "memory")
        warnings == Warnings(s, labels, W, filled.refused, look)
        full == Packed(warnings, filled, room)
    IN  [packet |-> [goal |-> s.goal, lines |-> full.lines,
                     excluded |-> Cardinality(DOMAIN labels \ shown),
                     notices |-> Len(warnings)],
         shown |-> shown,
         refused |-> full.refused # << >>]

(* _compile: the packet of session s and the session it leaves behind.     *)
Compiled(s, room, look) ==
    LET labels == Labels(s, look)
        W == Withdrawals(s, labels)
        r == Rendered(s, labels, W, room, look)
    IN  [packet |-> r.packet,
         changed |-> r.packet # s.fingerprint,
         refused |-> r.refused,
         session |-> [s EXCEPT !.bindings = Bindings(s, look), !.withdrawals = W,
                               !.selected = r.shown, !.fingerprint = r.packet]]

MemoriesIn(packet) == Holding(packet.lines, "memory")

WithdrawnIn(packet) == Holding(packet.lines, "withdrawn")

IsPacket(x) == x # None /\ x # Unavailable

-----------------------------------------------------------------------------
(* The engine's operations on the session row.                             *)

NewSession(goal) ==
    [goal |-> goal, focus |-> None, active |-> None, notes |-> << >>, pruned |-> 0,
     bindings |-> [m \in Memories |-> None], withdrawals |-> [m \in Memories |-> None],
     selected |-> {}, fingerprint |-> None]

(* context() up to _compile: focus and files replace the stored ones when  *)
(* the caller gave any.                                                    *)
Focused(s, focus, file) ==
    [s EXCEPT !.focus = IF focus = None THEN @ ELSE focus,
              !.active = IF file = None THEN @ ELSE file]

(* Fault: an inspection counts as a selection.                             *)
UnconsumedSelected(s, old) == [s EXCEPT !.fingerprint = old.fingerprint]

(* consume=False keeps the delivery state the hooks compare with, but not  *)
(* the withdrawals and bindings the inspection found.                      *)
Unconsumed(s, old) ==
    [s EXCEPT !.fingerprint = old.fingerprint, !.selected = old.selected]

(* _check_budget: room 0 stands for a budget goal and constraints exceed.  *)
Fits(room) == room > 0

(* Fault: older notes are never retired.                                   *)
WithNoteUnpruned(s, n) ==
    IF n \in Range(s.notes) THEN s
    ELSE [s EXCEPT !.notes = Append(IF n.kind = "next_step"
             THEN Only(s.notes, Range(s.notes) \ NextSteps(s.notes)) ELSE s.notes, n)]

(* note(): duplicates are ignored, a next step replaces the last, the      *)
(* oldest notes are retired beyond MaxNotes.                               *)
WithNote(s, n) ==
    LET kept == IF n.kind = "next_step"
                THEN Only(s.notes, Range(s.notes) \ NextSteps(s.notes)) ELSE s.notes
        all == Append(kept, n)
        over == IF Len(all) > MaxNotes THEN Len(all) - MaxNotes ELSE 0
    IN  IF n \in Range(s.notes) THEN s
        ELSE [s EXCEPT !.notes = SubSeq(all, over + 1, Len(all)), !.pruned = @ + over]

Init ==
    /\ tree = [f \in Files |-> 0]
    /\ head = [f \in Files |-> 0]
    /\ log = [f \in Files |-> {0}]
    /\ newest = 0
    /\ memory = [m \in Memories |-> [digest |-> 0, trusted |-> TRUE, committed |-> 0]]
    /\ explicit = [m \in Memories |-> None]
    /\ config = [enabled |-> TRUE, room |-> Max(Rooms)]
    /\ learning = TRUE
    /\ session = None
    /\ txn = None
    /\ hook = Idle
    /\ seen = None
    /\ severed = {}
    /\ acked = {}
    /\ raced = {}
    /\ moves = 0
    /\ faults = 0

-----------------------------------------------------------------------------
(* A hook process, and the MCP server's get_working_context.               *)

HookUnchanged == UNCHANGED <<tree, head, log, newest, memory, explicit, config, learning,
                             acked, moves>>

Exit == hook' = Idle

(* Bound: one more move or fault. *)
Within == moves + faults < MaxEvents

(* BEGIN IMMEDIATE: whoever writes the database waits for a compilation.   *)
Unlocked == txn = None

(* SessionStart follows a compaction or a resume, which empties the        *)
(* agent's context.                                                        *)
Emptied(event) == seen' = IF event = "SessionStart" THEN None ELSE seen

(* An emptied agent that is given nothing parts from the recorded packet.  *)
Unserved(event, cause) ==
    severed' = IF event = "SessionStart" THEN severed \cup {cause} ELSE severed

(* working_hook_output up to the first write.                              *)
Begin(event, focus, file) ==
    /\ hook.pc = "idle"
    /\ Emptied(event)
    /\ IF config.enabled /\ (session # None \/ event = "UserPromptSubmit")
       THEN /\ hook' = [Idle EXCEPT !.pc = IF session = None THEN "start" ELSE "context",
                                    !.event = event, !.focus = focus, !.file = file]
            /\ UNCHANGED severed
       ELSE /\ UNCHANGED hook
            /\ Unserved(event, "unserved")
    /\ UNCHANGED <<session, txn, raced, faults>>
    /\ HookUnchanged

UserPromptSubmit == \E p \in Prompts : Begin("UserPromptSubmit", p, None)
SessionStart == Begin("SessionStart", None, None)
ToolUse == \E f \in Files \cup {None} : Begin("ToolUse", None, f)
GetWorkingContext ==
    \E p \in Prompts \cup {None}, f \in Files \cup {None} : Begin("Get", p, f)

(* load_working_context fails (configuration unreadable, database locked   *)
(* while its tables are made): enabled is still FALSE, so there is neither *)
(* an advisory nor an invalidation, and the caller falls back to recall.   *)
LoadError(event) ==
    /\ hook.pc = "idle"
    /\ faults < MaxFaults /\ Within
    /\ faults' = faults + 1
    /\ Emptied(event)
    /\ Unserved(event, "load")
    /\ UNCHANGED <<session, txn, hook, raced>>
    /\ HookUnchanged

(* The look at the stored configuration or session fails.                  *)
LookError(event) ==
    /\ hook.pc = "idle"
    /\ faults < MaxFaults /\ Within
    /\ faults' = faults + 1
    /\ Emptied(event)
    /\ hook' = [Idle EXCEPT !.pc = "fail", !.event = event]
    /\ UNCHANGED <<session, txn, severed, raced>>
    /\ HookUnchanged

(* engine.start without replace: somebody else may have started the        *)
(* session meanwhile, and with another goal that is an error.              *)
HookStart ==
    /\ hook.pc = "start"
    /\ Unlocked
    /\ IF session # None
       THEN hook' = [hook EXCEPT !.pc = IF session.goal = hook.focus THEN "context" ELSE "fail"]
            /\ UNCHANGED session
       ELSE IF Fits(config.room)
       THEN session' = NewSession(hook.focus) /\ hook' = [hook EXCEPT !.pc = "context"]
       ELSE hook' = [hook EXCEPT !.pc = "fail"] /\ UNCHANGED session
    /\ UNCHANGED <<txn, seen, severed, raced, faults>>
    /\ HookUnchanged

(* The exception handler: only a hook goes on to the advisory, an MCP call *)
(* answers with the error.                                                 *)
Raise == IF hook.event = "Get" THEN Exit ELSE hook' = [hook EXCEPT !.pc = "fail"]

Forced == hook.event \in {"SessionStart", "Get"}

(* A compilation begins: it takes the lock and hashes the files.           *)
Opened(by, focus, file) ==
    txn' = [by |-> by, focus |-> focus, file |-> file, room |-> config.room, hash |-> tree]

(* engine.context up to the hashing of the sources.                        *)
HookContext ==
    /\ hook.pc = "context"
    /\ Unlocked
    /\ IF Fits(config.room)
       THEN hook' = [hook EXCEPT !.pc = "compile"] /\ Opened("hook", hook.focus, hook.file)
       ELSE Raise /\ UNCHANGED txn
    /\ UNCHANGED <<session, seen, severed, raced, faults>>
    /\ HookUnchanged

(* The session that the open compilation is about to leave behind.         *)
Outcome(late) ==
    Compiled(Focused(session, txn.focus, txn.file), txn.room,
             [hash |-> txn.hash, git |-> late = 0])

(* What this session binds that its file no longer is.                     *)
Moved(s) ==
    {<<m, s.bindings[m].digest, s.bindings[m].version>> : m \in
        {n \in Memories : /\ s.bindings[n] \notin {None, session.bindings[n]}
                          /\ s.bindings[n].version # tree[Anchor[n]]}}

(* git has been asked, in time unless late: the transaction commits.       *)
Committed(late, s) ==
    /\ faults + late <= MaxFaults
    /\ late > 0 => Within
    /\ faults' = faults + late
    /\ session' = s
    /\ txn' = None
    /\ raced' = raced \cup Moved(s)

(* The rest of engine.context; the packet is printed if it changed or the  *)
(* event forces it.                                                        *)
HookCompile ==
    /\ hook.pc = "compile"
    /\ \E late \in 0 .. 1 :
         LET c == Outcome(late)
         IN  /\ Committed(late, c.session)
             /\ hook' = [hook EXCEPT !.pc = "deliver", !.refused = c.refused,
                                     !.out = IF c.changed \/ Forced THEN c.packet ELSE None]
    /\ UNCHANGED <<seen, severed>>
    /\ HookUnchanged

(* A transaction of this hook that is open is rolled back.                 *)
RolledBack == txn' = IF hook.pc = "compile" THEN None ELSE txn

(* The transaction fails (database locked, unreadable row) and rolls back. *)
HookError ==
    /\ hook.pc \in {"start", "context", "compile"}
    /\ faults < MaxFaults /\ Within
    /\ faults' = faults + 1
    /\ RolledBack
    /\ Raise
    /\ UNCHANGED <<session, seen, severed, raced>>
    /\ HookUnchanged

(* Fault: the advisory is printed and the delivery state kept.             *)
InvalidateNothing ==
    /\ hook.pc = "fail"
    /\ hook' = [hook EXCEPT !.pc = "deliver", !.out = Unavailable]
    /\ UNCHANGED <<session, txn, seen, severed, raced, faults>>
    /\ HookUnchanged

(* invalidate_delivery, then the advisory.                                 *)
Invalidate ==
    /\ hook.pc = "fail"
    /\ Unlocked
    /\ hook' = [hook EXCEPT !.pc = "deliver", !.out = Unavailable]
    /\ session' = IF session = None THEN None ELSE [session EXCEPT !.fingerprint = None]
    /\ UNCHANGED <<txn, seen, severed, raced, faults>>
    /\ HookUnchanged

(* The invalidation fails as well; suppress(Exception) hides it.           *)
InvalidateError ==
    /\ hook.pc = "fail"
    /\ faults < MaxFaults /\ Within
    /\ faults' = faults + 1
    /\ hook' = [hook EXCEPT !.pc = "deliver", !.out = Unavailable]
    /\ severed' = severed \cup {"invalidate"}
    /\ UNCHANGED <<session, txn, seen, raced>>
    /\ HookUnchanged

(* What was printed reaches the agent; a recorded packet that does brings  *)
(* record and agent together.                                              *)
Deliver ==
    /\ hook.pc = "deliver"
    /\ seen' = IF hook.out = None THEN seen ELSE hook.out
    /\ severed' = IF ~IsPacket(hook.out) THEN severed
                  ELSE IF session.fingerprint = hook.out THEN {} ELSE severed \cup {"replaced"}
    /\ Exit
    /\ UNCHANGED <<session, txn, raced, faults>>
    /\ HookUnchanged

(* The host kills a hook that overruns its timeout, or the process dies.   *)
Kill ==
    /\ hook.pc # "idle"
    /\ faults < MaxFaults /\ Within
    /\ faults' = faults + 1
    /\ RolledBack
    /\ Exit
    /\ severed' = IF hook.event = "SessionStart" \/ (hook.pc = "deliver" /\ hook.out # None)
                  THEN severed \cup {"lost"} ELSE severed
    /\ UNCHANGED <<session, seen, raced>>
    /\ HookUnchanged

-----------------------------------------------------------------------------
(* The command line, the MCP server's other tools, the editor and git.     *)

Move == moves < MaxMoves /\ Within /\ moves' = moves + 1

UserUnchanged == UNCHANGED <<txn, hook, seen, raced, faults>>

(* onmc working context: inspects without consuming.                       *)
PreviewOpen(focus, file) ==
    /\ Move
    /\ Unlocked
    /\ session # None /\ Fits(config.room)
    /\ Opened("preview", focus, file)
    /\ UNCHANGED <<tree, head, log, newest, memory, explicit, config, learning, session, hook,
                   seen, severed, acked, raced, faults>>

PreviewCompile ==
    /\ txn # None /\ txn.by = "preview"
    /\ \E late \in 0 .. 1 : Committed(late, Unconsumed(Outcome(late).session, session))
    /\ UNCHANGED <<hook, seen, severed>>
    /\ HookUnchanged

(* onmc working start, with --replace over an existing session.  The new   *)
(* row knows nothing of what the agent was given.                          *)
Start(goal) ==
    /\ Move
    /\ Unlocked
    /\ Fits(config.room)
    /\ session' = NewSession(goal)
    /\ severed' = IF session = None THEN severed ELSE severed \cup {"replaced"}
    /\ UNCHANGED <<tree, head, log, newest, memory, explicit, config, learning, acked>>
    /\ UserUnchanged

(* onmc working note and record_working_note. *)
Note(kind, file) ==
    /\ Move
    /\ Unlocked
    /\ session # None
    /\ file # None => tree[file] # Gone
    /\ session' = WithNote(session, [kind |-> kind, file |-> file,
                                     at |-> IF file = None THEN NoAnchor ELSE tree[file]])
    /\ UNCHANGED <<tree, head, log, newest, memory, explicit, config, learning, severed, acked>>
    /\ UserUnchanged

(* onmc working verify-memory *)
VerifyMemory(m) ==
    /\ Move
    /\ Unlocked
    /\ Anchor[m] # None /\ tree[Anchor[m]] # Gone
    /\ explicit' = [explicit EXCEPT ![m] = Binding(m, tree[Anchor[m]])]
    /\ acked' = acked \cup {<<m, memory[m].digest, tree[Anchor[m]]>>}
    /\ UNCHANGED <<tree, head, log, newest, memory, config, learning, session, severed>>
    /\ UserUnchanged

(* onmc working enable / disable.  configure() checks the budget against a *)
(* one-word goal, so it may be too small for the goal of a session.        *)
Configure(enabled, room) ==
    /\ Move
    /\ Unlocked
    /\ config' = [enabled |-> enabled, room |-> room]
    /\ config' # config
    /\ UNCHANGED <<tree, head, log, newest, memory, explicit, learning, session, severed, acked>>
    /\ UserUnchanged

(* The ONMC_LEARNING switch.  A compilation reads it when it begins: a     *)
(* switch made during one is as good as made after it.                     *)
SwitchLearning ==
    /\ Move
    /\ Unlocked
    /\ learning' = ~learning
    /\ UNCHANGED <<tree, head, log, newest, memory, explicit, config, session, severed, acked>>
    /\ UserUnchanged

(* confirm, reject, promote, revoke, feedback: the vote changes the        *)
(* memory's digest and moves updated_at to now.  (On a memory without an   *)
(* anchor only a vote that changes its trust can matter.)                  *)
Judge(m, trusted) ==
    /\ Move
    /\ Unlocked
    /\ Anchor[m] = None => trusted # memory[m].trusted
    /\ memory' = [memory EXCEPT ![m] =
          [digest |-> @.digest + 1, trusted |-> trusted,
           committed |-> IF Anchor[m] = None THEN 0 ELSE head[Anchor[m]]]]
    /\ UNCHANGED <<tree, head, log, newest, explicit, config, learning, session, severed, acked>>
    /\ UserUnchanged

(* The editor writes new content, a file is deleted, git restores it.      *)
Edit(f, v) ==
    /\ Move
    /\ v \in {newest + 1, Gone, head[f]} \ {tree[f]}
    /\ tree' = [tree EXCEPT ![f] = v]
    /\ newest' = IF v = newest + 1 THEN v ELSE newest
    /\ UNCHANGED <<head, log, memory, explicit, config, learning, session, severed, acked>>
    /\ UserUnchanged

Commit(f) ==
    /\ Move
    /\ tree[f] \notin {Gone, head[f]}
    /\ head' = [head EXCEPT ![f] = tree[f]]
    /\ log' = [log EXCEPT ![f] = @ \cup {tree[f]}]
    /\ UNCHANGED <<tree, newest, memory, explicit, config, learning, session, severed, acked>>
    /\ UserUnchanged

-----------------------------------------------------------------------------
Next ==
    \/ UserPromptSubmit
    \/ SessionStart
    \/ ToolUse
    \/ GetWorkingContext
    \/ \E event \in HookEvents : LoadError(event) \/ LookError(event)
    \/ HookStart
    \/ HookContext
    \/ HookCompile
    \/ HookError
    \/ Invalidate
    \/ InvalidateError
    \/ Deliver
    \/ Kill
    \/ \E p \in Prompts : PreviewOpen(p, None)
    \/ \E f \in Files : PreviewOpen(None, f)
    \/ PreviewCompile
    \/ \E p \in Prompts : Start(p)
    \/ Note("decision", None)
    \/ \E k \in NoteKinds, f \in Files : Note(k, f)
    \/ \E m \in Memories : VerifyMemory(m)
    \/ \E e \in BOOLEAN, r \in Rooms : Configure(e, r)
    \/ SwitchLearning
    \/ \E m \in Memories, t \in BOOLEAN : Judge(m, t)
    \/ \E f \in Files, v \in Gone .. newest + 1 : Edit(f, v)
    \/ \E f \in Files : Commit(f)

Spec == Init /\ [][Next]_vars

-----------------------------------------------------------------------------
(* Types of the stored rows, the processes' state and the packets they     *)
(* exchange; a session keeps at most MaxNotes notes and one next step.     *)
TypeOK ==
    /\ tree \in [Files -> Versions]
    /\ head \in [Files -> 0 .. MaxMoves]
    /\ log \in [Files -> SUBSET (0 .. MaxMoves)]
    /\ newest \in 0 .. MaxMoves
    /\ memory \in [Memories -> [digest : 0 .. MaxMoves, trusted : BOOLEAN,
                                committed : 0 .. MaxMoves]]
    /\ explicit \in [Memories -> BindingType \cup {None}]
    /\ config \in [enabled : BOOLEAN, room : Rooms]
    /\ learning \in BOOLEAN
    /\ session \in SessionType \cup {None}
    /\ session # None => /\ Len(session.notes) <= MaxNotes
                         /\ Cardinality(NextSteps(session.notes)) <= 1
    /\ hook \in HookType
    /\ hook.pc = "start" => hook.focus # None
    /\ hook.pc = "context" => session # None
    /\ txn \in TxnType \cup {None}
    /\ txn # None => session # None
    /\ hook.pc = "compile" => txn # None /\ txn.by = "hook"
    /\ seen \in Packet \cup {Unavailable, None}
    /\ severed \subseteq Causes
    /\ moves \in 0 .. MaxMoves /\ faults \in 0 .. MaxFaults

(* The agent's context is what the session believes it to be.  Hooks       *)
(* suppress a packet equal to the recorded fingerprint, so whenever no     *)
(* hook is running the agent must hold exactly that packet, or the         *)
(* fingerprint must be blank.  What may part the two, until a packet       *)
(* arrives: a killed process ("lost"), a failed invalidation, a session    *)
(* start served nothing because the store could not be opened ("load") or  *)
(* the feature is off ("unserved"), and an explicit --replace.             *)
AgentCurrent ==
    hook.pc = "idle" /\ severed = {} /\ session # None =>
        session.fingerprint \in {None, seen}

(* The version b of memory m was acknowledged for m as it then was, or was *)
(* at HEAD when m was last touched or before.                              *)
Earned(m, b) == \/ <<m, b.digest, b.version>> \in acked
                \/ b.version \in log[Anchor[m]] /\ b.version <= memory[m].committed

(* A memory's session baseline was earned, unless its file moved between   *)
(* the hash that is bound and the question to git: no other sequence of    *)
(* edits, commits, inspections, restarts and failed refreshes makes a      *)
(* changed file the new baseline by itself.                                *)
BaselineEarned ==
    session # None =>
        \A m \in Memories :
            LET b == session.bindings[m]
            IN  b # None => Earned(m, b) \/ <<m, b.digest, b.version>> \in raced

(* What a memory that the agent was given says is still said by the next   *)
(* packet, by that memory or by one with the same text, or the packet      *)
(* names the memory as withdrawn, unless it ran out of room or an earlier  *)
(* one was lost: evidence never just disappears.                           *)
WithdrawnTold ==
    [][ IsPacket(seen) /\ IsPacket(seen') /\ seen' # seen /\ severed = {} /\ ~hook.refused
        => \A m \in MemoriesIn(seen) :
             m \in WithdrawnIn(seen') \/ \E n \in MemoriesIn(seen') : Text[n] = Text[m] ]_vars

(* "Context refresh fails, then recovers: emit an unavailable notice, then *)
(* deliver a fresh packet": as long as no packet was lost with its         *)
(* process, a refresh that succeeds does not leave the agent with the      *)
(* advisory as the last word.                                              *)
RecoveryDelivers ==
    [][ hook.pc = "deliver" /\ hook'.pc = "idle" /\ faults' = faults
        /\ hook.out # Unavailable /\ "lost" \notin severed
        => seen' # Unavailable ]_vars

=============================================================================
