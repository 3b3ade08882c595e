------------------------------ MODULE LoopEngine ------------------------------
(***************************************************************************)
(* run_loop (loop/engine.py) with its checkpoint file (loop/checkpoint.py):*)
(* iterate agent and verifier until a win, a circuit breaker or a limit,   *)
(* saving the loop's state after every iteration; the process may die and  *)
(* a later invocation may pass --resume.                                   *)
(*                                                                         *)
(* The working tree is modelled because the engine judges the agent by it: *)
(* git status --porcelain and the HEAD sha, before and after the agent.    *)
(***************************************************************************)
EXTENDS Naturals, Sequences, FiniteSets

CONSTANTS
  Files,           \* paths of the repository
  Versions,        \* contents a file can have; 0 is the one checked out
  Tracked,         \* paths that are checked out
  Ignored,         \* paths of .gitignore: listed only while tracked
  Protected,       \* config.protected_paths, as files
  Allowed,         \* config.allowed_paths, as files; {} for no restriction
  Touches,         \* files_touched lists an adapter may report
  Heads,           \* heads of the output of a failing verifier
  Costs,           \* what an agent call may spend; 0 also for "not reported"
  Budget,          \* config.budget_tokens / max_cost_usd
  MaxIterations,   \* config.max_iterations
  NoChangeLimit, DuplicateLimit, ErrorLimit, NoProgressWindow,
  EscalationThreshold,
  Isolate,         \* config.isolate: every invocation gets a new worktree
  Probes,          \* outcomes of the change probe: a subset of BOOLEAN
  Interrupts,      \* stops imposed from outside: wall-time, aborted
  AgentErrors,     \* how an agent call may fail
  Saves,           \* outcomes of a checkpoint write: a subset of BOOLEAN
  Resumes,         \* values of the resume flag users pass
  MaxCrashes,      \* bound: process deaths explored
  MaxInvocations,  \* bound: invocations explored
  Absent,          \* what a path without a file holds
  None

Resumable ==
  {"budget", "wall-time", "agent-unavailable", "agent-credentials"}
Breakers == {"no-changes", "duplicate-action", "repeated-error", "no-progress"}
Stops ==
  Resumable \cup Breakers \cup
  {"none", "converged", "max-iterations", "aborted", "agent-error",
   "verifier-unavailable", "crash"}

ASSUME LoopAssumption ==
  /\ 0 \in Versions /\ Absent \notin Versions
  /\ Tracked \subseteq Files /\ Ignored \subseteq Files
  /\ Costs \subseteq Nat /\ Budget \in Nat \ {0}
  /\ Protected \subseteq Files /\ Allowed \subseteq Files
  /\ MaxIterations \in Nat /\ NoProgressWindow \in Nat \ {0}
  /\ {NoChangeLimit, DuplicateLimit, ErrorLimit, EscalationThreshold} \subseteq Nat
  /\ Isolate \in BOOLEAN /\ Probes \subseteq BOOLEAN /\ Saves \subseteq BOOLEAN
  /\ Resumes \subseteq BOOLEAN
  /\ Interrupts \subseteq {"wall-time", "aborted"}
  /\ AgentErrors \subseteq
       {"agent-error", "agent-unavailable", "agent-credentials"}
  /\ MaxCrashes \in Nat /\ MaxInvocations \in Nat

(* Outputs the engine writes itself. *)
OwnHeads == {"[agent-error]", "[verify error]", "[no-op]", "[scope]"}
AllHeads == Heads \cup OwnHeads

Contents == [Files -> Versions \cup {Absent}]

(* External: the moves <<from, to>> that git status may report as renames  *)
(* when a file of HEAD went and a new one came, each in one move at most;  *)
(* whether it does is up to how they were staged (git mv).                 *)
Moves(head, work) ==
  {m \in Files \X Files :
     /\ head[m[1]] # Absent /\ work[m[1]] = Absent
     /\ head[m[2]] = Absent /\ work[m[2]] # Absent}
Renamings(head, work) ==
  {r \in SUBSET Moves(head, work) :
     \A m, n \in r : m[1] = n[1] <=> m[2] = n[2]}

Trees ==
  {t \in [commits : Nat, head : Contents, work : Contents,
          renames : SUBSET (Files \X Files)] :
     t.renames \in Renamings(t.head, t.work)}

(* A tree without edits, and the trees whose edits are not committed. *)
Clean(commits, head) ==
  [commits |-> commits, head |-> head, work |-> head, renames |-> {}]
Edited(commits, head) ==
  UNION {{[commits |-> commits, head |-> head, work |-> work, renames |-> r] :
            r \in Renamings(head, work)} : work \in Contents}

CheckedOut == Clean(0, [f \in Files |-> IF f \in Tracked THEN 0 ELSE Absent])

Contracts == [outcome : {"win", "loss"}, files : Touches, head : AllHeads]
Signatures == Touches \X AllHeads

(* CheckpointState: the locals of run_loop that are saved. *)
LoopStates ==
  [iterations : Seq(Contracts), spent : Nat, losses : Nat, level : Nat,
   counts : [Signatures -> Nat], same : Nat, last : AllHeads \cup {None}]
NewLoop ==
  [iterations |-> <<>>, spent |-> 0, losses |-> 0, level |-> 0,
   counts |-> [s \in Signatures |-> 0], same |-> 0, last |-> None]

VARIABLES
  st,       \* the saved locals
  noops,    \* consecutive_noops: a local that is not saved
  base,     \* _run_start_seen and _run_start_sig: not saved either
  pre,      \* the tree and the probe's answer before the agent acted
  tree,     \* the working tree
  ckpt,     \* .onmc/loop-state/<sha8>.json
  pc,       \* "stopped", "top", "act", "verify", "save" or "return"
  stop,     \* stop_reason
  began,    \* the tree when the run began, across resumes
  spending, \* what the run really spent, across resumes
  invocations, crashes

vars == <<st, noops, base, pre, tree, ckpt, pc, stop, began, spending,
          invocations, crashes>>
history == <<began, invocations, crashes>>

Dirty(t) == {f \in Files : t.work[f] # t.head[f]}

(* External: the lines of git status --porcelain, <<code, from, to>>: one  *)
(* for each rename and one for each other dirty path, unless it is ignored *)
(* and HEAD does not have it.                                              *)
Codes == {"M", "A", "D", "R"}
Code(t, f) ==
  IF t.head[f] = Absent THEN "A" ELSE IF t.work[f] = Absent THEN "D" ELSE "M"
Lines(t) ==
  LET moved == {m[1] : m \in t.renames} \cup {m[2] : m \in t.renames}
      unseen == {f \in Ignored : t.head[f] = Absent}
  IN  {<<"R", m[1], m[2]>> : m \in t.renames} \cup
      {<<Code(t, f), f, f>> : f \in Dirty(t) \ (moved \cup unseen)}

(* What the probe sees: HEAD, and the status lines. *)
Sig(t) == [head |-> t.commits, lines |-> Lines(t)]
Probe(t, ok) == IF ok THEN Sig(t) ELSE None

Sigs == [head : Nat, lines : SUBSET (Codes \X Files \X Files)]

ASSUME NoneAssumption ==
  None \notin LoopStates /\ None \notin Sigs /\ None \notin AllHeads

TypeOK ==
  /\ st \in LoopStates
  /\ noops \in Nat
  /\ base \in [seen : BOOLEAN, sig : Sigs \cup {None}]
  /\ pre \in [tree : Trees, sig : Sigs \cup {None}]
  /\ tree \in Trees
  /\ ckpt = None \/ ckpt \in LoopStates
  /\ pc \in {"stopped", "top", "act", "verify", "save", "return"}
  /\ stop \in Stops
  /\ began \in Trees
  /\ spending \in Nat
  /\ invocations \in 0..MaxInvocations
  /\ crashes \in 0..MaxCrashes

NoBase == [seen |-> FALSE, sig |-> None]
NoPre  == [tree |-> CheckedOut, sig |-> None]

(* The repository may hold uncommitted edits of its user. *)
Init ==
  /\ st = NewLoop /\ noops = 0 /\ base = NoBase /\ pre = NoPre
  /\ tree \in Edited(0, CheckedOut.head)
  /\ ckpt = None
  /\ pc = "stopped" /\ stop = "none"
  /\ began = tree
  /\ spending = 0 /\ invocations = 0 /\ crashes = 0

-----------------------------------------------------------------------------
(* Fault: the totals of the checkpoint are not restored. *)
RestoredFree(resume) ==
  IF resume /\ ckpt # None THEN [ckpt EXCEPT !.spent = 0] ELSE NewLoop

(* Fault: the repeated-error streak of the checkpoint is not restored. *)
RestoredStreakless(resume) ==
  IF resume /\ ckpt # None THEN [ckpt EXCEPT !.last = None, !.same = 0]
  ELSE NewLoop

Restored(resume) == IF resume /\ ckpt # None THEN ckpt ELSE NewLoop

(* run_loop up to its first iteration. *)
Begin(resume) ==
  LET t == IF Isolate THEN CheckedOut ELSE tree IN
  /\ pc = "stopped"
  /\ invocations < MaxInvocations
  /\ invocations' = invocations + 1
  /\ st' = Restored(resume)
  /\ noops' = 0
  /\ base' = NoBase
  /\ pre' = NoPre
  /\ tree' = t
  /\ IF resume /\ ckpt # None
       THEN UNCHANGED <<began, spending>>
       ELSE began' = t /\ spending' = 0
  /\ pc' = "top"
  /\ stop' = "none"
  /\ UNCHANGED <<ckpt, crashes>>

(* Fault: a stop reason that no caller knows. *)
StopUnknown(reason) == stop' = "interrupted" /\ pc' = "return"

Stop(reason) == stop' = reason /\ pc' = "return"

(* The range of iterations is exhausted: save once more, and stop. *)
Exhausted ==
  /\ pc = "top"
  /\ Len(st.iterations) >= MaxIterations
  /\ stop' = "max-iterations"
  /\ pc' = "save"
  /\ UNCHANGED <<st, noops, base, pre, tree, ckpt, spending, history>>

OverBudget ==
  /\ pc = "top"
  /\ Len(st.iterations) < MaxIterations
  /\ st.spent >= Budget
  /\ Stop("budget")
  /\ UNCHANGED <<st, noops, base, pre, tree, ckpt, spending, history>>

Interrupt(reason) ==
  /\ pc = "top"
  /\ Len(st.iterations) < MaxIterations
  /\ st.spent < Budget
  /\ Stop(reason)
  /\ UNCHANGED <<st, noops, base, pre, tree, ckpt, spending, history>>

(* route_next_iteration: escalate on the loss threshold or on a live       *)
(* signal; heavy stands for a last loss with many tokens or files.         *)
Escalates(heavy) ==
  /\ \E i \in 1..Len(st.iterations) : st.iterations[i].outcome = "loss"
  /\ \/ st.losses >= IF EscalationThreshold > 1 THEN EscalationThreshold ELSE 1
     \/ noops > 0
     \/ st.same >= 2
     \/ heavy

(* Routing, the brief, and the probe before the agent acts. *)
Prepare(heavy, ok) ==
  /\ pc = "top"
  /\ Len(st.iterations) < MaxIterations
  /\ st.spent < Budget
  /\ st' = IF Escalates(heavy)
             THEN [st EXCEPT !.level = @ + 1, !.losses = 0] ELSE st
  /\ pre' = [tree |-> tree, sig |-> Probe(tree, ok)]
  /\ base' = IF base.seen THEN base
             ELSE [seen |-> TRUE, sig |-> Probe(tree, ok)]
  /\ pc' = "act"
  /\ UNCHANGED <<noops, tree, ckpt, stop, spending, history>>

-----------------------------------------------------------------------------
(* External: what an agent call may do to the tree, then perhaps commit. *)
AgentTrees ==
  Edited(tree.commits, tree.head) \cup
  {Clean(tree.commits + 1, head) : head \in Contents \ {tree.head}}

Appended(c) == [st EXCEPT !.iterations = Append(@, c)]

Spend(cost) == spending' = spending + cost

(* The agent ran. *)
Act(t, cost) ==
  /\ pc = "act"
  /\ tree' = t
  /\ st' = [st EXCEPT !.spent = @ + cost]
  /\ Spend(cost)
  /\ pc' = "verify"
  /\ UNCHANGED <<noops, base, pre, ckpt, stop, history>>

(* The agent call failed: a forced loss, saved, and a stop by cause. *)
ActFails(reason, files, cost) ==
  /\ pc = "act"
  /\ st' = [Appended([outcome |-> "loss", files |-> files,
                      head |-> "[agent-error]"]) EXCEPT !.spent = @ + cost]
  /\ Spend(cost)
  /\ stop' = reason
  /\ pc' = "save"
  /\ UNCHANGED <<noops, base, pre, tree, ckpt, history>>

(* The verifier could not run. *)
VerifierUnavailable(files) ==
  /\ pc = "verify"
  /\ st' = Appended([outcome |-> "loss", files |-> files,
                     head |-> "[verify error]"])
  /\ stop' = "verifier-unavailable"
  /\ pc' = "save"
  /\ UNCHANGED <<noops, base, pre, tree, ckpt, spending, history>>

(* Fault: a pass is vacuous only when this iteration changed nothing. *)
VacuousHere(post) == pre.sig # None /\ post # None /\ post = pre.sig

(* The pass reflects a tree the run has not changed; without a baseline,   *)
(* a tree this iteration has not changed; without a probe, never.          *)
Vacuous(post) ==
  /\ post # None
  /\ IF base.sig # None THEN post = base.sig
     ELSE pre.sig # None /\ post = pre.sig

(* _changed_files_delta: the paths of the status lines that were not there,*)
(* of a rename its destination only (_files_from_git_status).              *)
Delta(post) == {line[3] : line \in post.lines \ pre.sig.lines}

(* Fault: only the allowed paths are looked at. *)
OutOfScopeAllowed(post) ==
  /\ Protected \cup Allowed # {}
  /\ \/ pre.sig = None \/ post = None
     \/ Allowed # {} /\ ~(Delta(post) \subseteq Allowed)

(* _scope_violation *)
OutOfScope(post) ==
  /\ Protected \cup Allowed # {}
  /\ \/ pre.sig = None \/ post = None
     \/ Delta(post) \cap Protected # {}
     \/ Allowed # {} /\ ~(Delta(post) \subseteq Allowed)

(* A genuine pass that stays in scope. *)
Win(files, ok) ==
  LET post == Probe(tree, ok) IN
  /\ pc = "verify"
  /\ ~Vacuous(post)
  /\ ~OutOfScope(post)
  /\ \E head \in Heads :
       st' = Appended([outcome |-> "win", files |-> files, head |-> head])
  /\ noops' = 0
  /\ stop' = "converged"
  /\ pc' = "save"
  /\ UNCHANGED <<base, pre, tree, ckpt, spending, history>>

(* Fault: the no-change breaker fires one iteration late. *)
TooManyNoopsLate(n) == NoChangeLimit > 0 /\ n > NoChangeLimit

TooManyNoops(n) == NoChangeLimit > 0 /\ n >= NoChangeLimit

(* The breakers, in the order in which each may return before the next     *)
(* counter is touched.                                                     *)
Loss(files, head, vacuous) ==
  LET sig    == <<files, head>>
      n      == IF vacuous THEN noops + 1 ELSE 0
      count  == st.counts[sig] + 1
      streak == IF head = st.last THEN st.same + 1 ELSE 1
      first  == [Appended([outcome |-> "loss", files |-> files, head |-> head])
                   EXCEPT !.losses = @ + 1]
      second == [first EXCEPT !.counts[sig] = count]
      third  == [second EXCEPT !.last = head,
                               !.same = IF ErrorLimit > 0 THEN streak ELSE @]
      After(s, reason) ==
        /\ st' = s
        /\ stop' = reason
  IN
  /\ noops' = n
  /\ IF vacuous /\ TooManyNoops(n) THEN After(first, "no-changes")
     ELSE IF DuplicateLimit > 0 /\ count >= DuplicateLimit
       THEN After(second, "duplicate-action")
     ELSE IF ErrorLimit > 0 /\ streak >= ErrorLimit
       THEN After(third, "repeated-error")
     ELSE IF count >= NoProgressWindow THEN After(third, "no-progress")
     ELSE After(third, "none")
  /\ pc' = "save"
  /\ UNCHANGED <<base, pre, tree, ckpt, spending, history>>

VacuousPass(files, ok) ==
  /\ pc = "verify"
  /\ Vacuous(Probe(tree, ok))
  /\ Loss(files, "[no-op]", TRUE)

ScopeLoss(files, ok) ==
  /\ pc = "verify"
  /\ ~Vacuous(Probe(tree, ok))
  /\ OutOfScope(Probe(tree, ok))
  /\ Loss(files, "[scope]", FALSE)

VerifyFails(files, head) ==
  /\ pc = "verify"
  /\ Loss(files, head, FALSE)

-----------------------------------------------------------------------------
(* _save_checkpoint: temporary file, then os.replace; best effort. *)
Save(ok) ==
  /\ pc = "save"
  /\ ckpt' = IF ok THEN st ELSE ckpt
  /\ pc' = IF stop = "none" THEN "top" ELSE "return"
  /\ UNCHANGED <<st, noops, base, pre, tree, stop, spending, history>>

(* Fault: every stop clears the checkpoint. *)
KeepsNothing(reason) == FALSE

KeepsCheckpoint(reason) == reason \in Resumable

(* _make_result: tear the worktree down, clear the checkpoint unless the   *)
(* stop is resumable, return.                                              *)
Return ==
  /\ pc = "return"
  /\ ckpt' = IF KeepsCheckpoint(stop) THEN ckpt ELSE None
  /\ pc' = "stopped"
  /\ UNCHANGED <<st, noops, base, pre, tree, stop, spending, history>>

Crash ==
  /\ pc # "stopped"
  /\ crashes < MaxCrashes
  /\ crashes' = crashes + 1
  /\ st' = NewLoop /\ noops' = 0 /\ base' = NoBase /\ pre' = NoPre
  /\ pc' = "stopped"
  /\ stop' = "crash"
  /\ UNCHANGED <<tree, ckpt, began, spending, invocations>>

Iterate ==
  \/ Exhausted
  \/ OverBudget
  \/ \E reason \in Interrupts : Interrupt(reason)
  \/ \E heavy \in BOOLEAN, ok \in Probes : Prepare(heavy, ok)
  \/ \E t \in AgentTrees, cost \in Costs : Act(t, cost)
  \/ \E reason \in AgentErrors, files \in Touches, cost \in Costs :
       ActFails(reason, files, cost)
  \/ \E files \in Touches, ok \in Probes :
       \/ VerifierUnavailable(files)
       \/ Win(files, ok)
       \/ VacuousPass(files, ok)
       \/ ScopeLoss(files, ok)
       \/ \E head \in Heads : VerifyFails(files, head)
  \/ \E ok \in Saves : Save(ok)
  \/ Return

Next ==
  \/ \E resume \in Resumes : Begin(resume)
  \/ Iterate
  \/ Crash

Spec == Init /\ [][Next]_vars

-----------------------------------------------------------------------------
(* "A vacuous pass ... can NEVER be counted as a convergence win"          *)
(* (models.py, no_change_limit): a run that converged has changed the tree *)
(* it began with.                                                          *)
NoVacuousWin ==
  stop = "converged" => Sig(tree) # Sig(began)

(* A protected file that HEAD has and that was clean when the agent got    *)
(* the tree.                                                               *)
Guarded == {f \in Protected \ Dirty(pre.tree) : pre.tree.head[f] # Absent}

(* "any match causes the iteration to be counted as a loss" (models.py,    *)
(* protected_paths), as far as the gate can tell: the agent of a winning   *)
(* iteration that made no commit left every guarded file as it was, or git *)
(* reports it as the source of a rename.                                   *)
ScopeKept ==
  pc = "save" /\ stop = "converged" /\ tree.commits = pre.tree.commits =>
    \A f \in Guarded :
      \/ tree.work[f] = pre.tree.work[f]
      \/ \E g \in Files : <<f, g>> \in tree.renames

(* What the run really spends stays below the budget plus one agent call   *)
(* for each invocation that died and one more: totals survive --resume.    *)
SpendBounded ==
  \A most \in Costs :
    (\A c \in Costs : c <= most) =>
      spending <= (Budget - 1) + most * (crashes + 1)

(* Passes without a change, one after the other, stay below the limit that *)
(* stops the loop (no_change_limit).                                       *)
NoopsBounded ==
  NoChangeLimit > 0 /\ pc = "top" =>
    \A i \in 1..Len(st.iterations) :
      (\A j \in i..Len(st.iterations) : st.iterations[j].head = "[no-op]") =>
        Len(st.iterations) - i + 1 < NoChangeLimit

(* A loop that goes on has not failed ErrorLimit times in a row with the   *)
(* same output (repeated_error_limit), counted across --resume; a death    *)
(* between the last save and the clearing of the checkpoint undoes the     *)
(* stop and costs one iteration more.                                      *)
ErrorsBounded ==
  ErrorLimit > 0 /\ pc = "top" =>
    \A i \in 1..Len(st.iterations) :
      LET c == st.iterations[i]
          streak == \A j \in i..Len(st.iterations) :
                      st.iterations[j] \in [outcome : {"loss"}, files : Touches,
                                            head : {c.head} \cap Heads]
      IN  streak => Len(st.iterations) - i + 1 < ErrorLimit + crashes

(* A stop that invites --resume leaves a checkpoint of exactly the loop    *)
(* that stopped, and a decided one leaves none to resume.                  *)
StopMatchesCheckpoint ==
  pc = "stopped" =>
    /\ stop \in Resumable /\ st.iterations # <<>> => ckpt = st
    /\ stop \notin Resumable \cup {"none", "crash"} => ckpt = None
=============================================================================
