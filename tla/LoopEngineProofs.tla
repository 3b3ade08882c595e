--------------------------- MODULE LoopEngineProofs ---------------------------
(***************************************************************************)
(* Theorems about run_loop and its checkpoint, for any files, outputs,     *)
(* costs, limits and numbers of invocations and deaths.                    *)
(*                                                                         *)
(* Each property has an inductive invariant of its own: what the locals,   *)
(* the tree and the checkpoint owe each other at every point of the loop.  *)
(***************************************************************************)
EXTENDS LoopEngine, Integers, TLAPS

(* Where a loop has not stopped yet. *)
Deciding == {"top", "act", "verify"}

(* A stop is decided once: until then the loop has none.  (run_loop)       *)
Undecided == pc \in Deciding => stop = "none"

(* What every other invariant of the loop presumes. *)
LoopInv == TypeOK /\ Undecided

(* The scope gate compares the tree with the one the agent was given, and  *)
(* without a commit both have the same HEAD.  (_changed_files_delta)       *)
ScopeInv ==
  /\ pre.sig \in {None, Sig(pre.tree)}
  /\ pc = "act" => tree = pre.tree
  /\ pc = "verify" /\ tree.commits = pre.tree.commits =>
       tree.head = pre.tree.head
  /\ ScopeKept

(* The baseline of the vacuous-pass gate is the tree the run began with.   *)
VacuousInv ==
  /\ pc \in {"top", "save"} /\ ~base.seen => tree = began
  /\ pc \in {"act", "verify"} => base.seen
  /\ pc # "stopped" /\ base.seen => base.sig = Sig(began)
  /\ NoVacuousWin

(* The last iterations of a loop, from i on, were passes without a change. *)
Idle(s, i) == \A j \in i..Len(s) : s[j].head = "[no-op]"

(* consecutive_noops counts the idle iterations at the end, and a loop     *)
(* that will go on has fewer than the limit.                               *)
NoopsInv ==
  /\ \A i \in 1..Len(st.iterations) :
       Idle(st.iterations, i) => Len(st.iterations) - i + 1 <= noops
  /\ NoChangeLimit > 0 /\ pc # "stopped" /\ stop = "none" => noops < NoChangeLimit

(* The iterations from i on failed with the output of iteration i.         *)
Streak(s, i) ==
  \A j \in i..Len(s) :
    s[j] \in [outcome : {"loss"}, files : Touches, head : {s[i].head} \cap Heads]

(* consecutive_same_error counts the failures at the end of a loop, up to  *)
(* n that went uncounted, and they exceed the limit by less than n.        *)
Counted(s, n) ==
  \A i \in 1..Len(s.iterations) :
    Streak(s.iterations, i) =>
      /\ Len(s.iterations) - i + 1 <=
           (IF s.last = s.iterations[i].head THEN s.same ELSE 0) + n
      /\ Len(s.iterations) - i + 1 < ErrorLimit + n

(* An iteration goes uncounted when a breaker stopped the loop before its  *)
(* counter was reached, or at it: then the checkpoint is about to be       *)
(* cleared, and only a death keeps it.                                     *)
Uncounted == IF stop \in Resumable \cup {"none"} THEN crashes ELSE crashes + 1
(* The same for the loop that the checkpoint holds. *)
UncountedSaved ==
  IF pc = "return" /\ stop \notin Resumable THEN crashes + 1 ELSE crashes

(* The streak is counted in the loop and in its checkpoint. *)
ErrorsInv ==
  /\ pc # "stopped" => Counted(st, Uncounted)
  /\ ckpt # None => Counted(ckpt, UncountedSaved)

(* Between two iterations the checkpoint is the loop itself.               *)
CheckpointInv ==
  /\ pc = "top" /\ st.iterations # <<>> => ckpt = st
  /\ pc = "return" /\ stop \in Resumable /\ st.iterations # <<>> => ckpt = st
  /\ StopMatchesCheckpoint

(* What was really spent is what the loop accounts for and at most one     *)
(* call of cost `most` for each death; the checkpoint accounts for it too, *)
(* but for the call of the iteration under way.                            *)
Lost(most) == most * crashes

(* The budget bounds what was spent, up to one call and one for each       *)
(* death.                                                                  *)
SpendInv(most) ==
  /\ spending <= (Budget - 1) + Lost(most) + most
  /\ st.spent <= (Budget - 1) + most
  /\ pc = "act" => st.spent < Budget
  /\ pc # "stopped" => spending <= st.spent + Lost(most)
  /\ ckpt # None =>
       /\ ckpt.spent <= (Budget - 1) + most
       /\ spending <= ckpt.spent + Lost(most) +
            (IF pc \in {"verify", "save"} THEN most ELSE 0)

(* For the dearest call, whichever it is. *)
SpendAll ==
  \A most \in Costs : (\A c \in Costs : c <= most) => SpendInv(most)

-----------------------------------------------------------------------------
(* What is appended to a loop's history is its last entry, and the entries *)
(* before it stay.  (contracts.append)                                     *)
LEMMA AppendedParts ==
  ASSUME st \in LoopStates, NEW c \in Contracts
  PROVE  /\ Appended(c) \in LoopStates
         /\ Appended(c).iterations = Append(st.iterations, c)
         /\ \A f \in {"spent", "losses", "level", "counts", "same", "last"} :
              Appended(c)[f] = st[f]
<1>1. st.iterations \in Seq(Contracts) /\ Append(st.iterations, c) \in Seq(Contracts)
  BY DEF LoopStates
<1>2. Appended(c) = [st EXCEPT !.iterations = Append(st.iterations, c)]
  BY DEF Appended
<1>. QED  BY <1>1, <1>2 DEF LoopStates

(* Spending changes the total and nothing else.                            *)
LEMMA SpentParts ==
  ASSUME NEW s \in LoopStates, NEW cost \in Nat
  PROVE  LET u == [s EXCEPT !.spent = s.spent + cost]
         IN  /\ u \in LoopStates
             /\ u.spent = s.spent + cost
             /\ u.iterations = s.iterations
             /\ u.last = s.last /\ u.same = s.same
<1>1. PICK k \in Nat : k = s.spent + cost
  BY DEF LoopStates
<1>. DEFINE u == [s EXCEPT !.spent = k]
<1>2. /\ u \in LoopStates
      /\ u.spent = k
      /\ u.iterations = s.iterations
      /\ u.last = s.last /\ u.same = s.same
  BY DEF LoopStates
<1>. QED  BY <1>1, <1>2

(* Escalating changes the level and the losses and nothing else.           *)
LEMMA RoutedParts ==
  ASSUME NEW s \in LoopStates
  PROVE  LET u == [s EXCEPT !.level = s.level + 1, !.losses = 0]
         IN  /\ u \in LoopStates
             /\ u.iterations = s.iterations /\ u.spent = s.spent
             /\ u.last = s.last /\ u.same = s.same
<1>1. PICK k \in Nat : k = s.level + 1
  BY DEF LoopStates
<1>. DEFINE u == [s EXCEPT !.level = k, !.losses = 0]
<1>2. /\ u \in LoopStates
      /\ u.iterations = s.iterations /\ u.spent = s.spent
      /\ u.last = s.last /\ u.same = s.same
  BY DEF LoopStates
<1>. QED  BY <1>1, <1>2

(* A loss adds one iteration and touches the counters as far as the        *)
(* breakers let it: a loss whose error streak was not counted ends the     *)
(* loop, and one that does not end it is below each limit.  (run_loop)     *)
LEMMA LossParts ==
  ASSUME TypeOK, NEW files \in Touches, NEW head \in AllHeads,
         NEW vacuous \in BOOLEAN, Loss(files, head, vacuous)
  PROVE  /\ st' \in LoopStates
         /\ st'.iterations = Append(st.iterations,
              [outcome |-> "loss", files |-> files, head |-> head])
         /\ st'.spent = st.spent
         /\ \/ st'.last = st.last /\ st'.same = st.same /\ stop' # "none"
            \/ /\ st'.last = head
               /\ ErrorLimit > 0 =>
                    /\ st'.same = IF head = st.last THEN st.same + 1 ELSE 1
                    /\ stop' = "none" => st'.same < ErrorLimit
         /\ noops' = IF vacuous THEN noops + 1 ELSE 0
         /\ stop' = "none" => ~(vacuous /\ TooManyNoops(noops'))
         /\ stop' \in Breakers \cup {"none"}
         /\ pc' = "save"
         /\ UNCHANGED <<base, pre, tree, ckpt, spending, history>>
<1>. DEFINE c      == [outcome |-> "loss", files |-> files, head |-> head]
            sig    == <<files, head>>
            n      == IF vacuous THEN noops + 1 ELSE 0
            count  == st.counts[sig] + 1
            streak == IF head = st.last THEN st.same + 1 ELSE 1
            first  == [Appended(c) EXCEPT !.losses = @ + 1]
            second == [first EXCEPT !.counts[sig] = count]
            third  == [second EXCEPT !.last = head,
                                     !.same = IF ErrorLimit > 0 THEN streak ELSE @]
            Good(s) == /\ s \in LoopStates
                       /\ s.iterations = Append(st.iterations, c)
                       /\ s.spent = st.spent
<1>1. /\ Appended(c) \in LoopStates
      /\ Appended(c).iterations = Append(st.iterations, c)
      /\ Appended(c).spent = st.spent
      /\ Appended(c).counts = st.counts
      /\ Appended(c).last = st.last
      /\ Appended(c).same = st.same
  <2>1. c \in Contracts
    BY DEF Contracts
  <2>. QED  BY <2>1, AppendedParts DEF TypeOK
<1>2. sig \in Signatures /\ count \in Nat /\ streak \in Nat /\ ErrorLimit \in Nat
  <2>1. sig \in Signatures
    BY DEF Signatures
  <2>2. st.counts \in [Signatures -> Nat] /\ st.same \in Nat
    BY DEF TypeOK, LoopStates
  <2>3. count \in Nat
    BY <2>1, <2>2
  <2>. QED  BY <2>1, <2>2, <2>3, LoopAssumption
<1>3. Good(first) /\ first.last = st.last /\ first.same = st.same /\ first.counts = st.counts
  <2>. DEFINE a == Appended(c)
  <2>. HIDE DEF a, c
  <2>1. first = [a EXCEPT !.losses = a.losses + 1]
    BY DEF a
  <2>2. /\ a \in LoopStates /\ a.iterations = Append(st.iterations, c)
        /\ a.spent = st.spent /\ a.counts = st.counts
        /\ a.last = st.last /\ a.same = st.same
    BY <1>1 DEF a
  <2>3. PICK l \in Nat : l = a.losses + 1
    BY <2>2 DEF LoopStates
  <2>4. first = [a EXCEPT !.losses = l]
    BY <2>1, <2>3
  <2>. HIDE DEF first
  <2>. QED  BY <2>2, <2>4 DEF LoopStates
<1>. HIDE DEF first, count, streak, sig, c
<1>4. Good(second) /\ second.last = st.last /\ second.same = st.same
  <2>1. [first.counts EXCEPT ![sig] = count] \in [Signatures -> Nat]
    BY <1>2, <1>3 DEF LoopStates
  <2>2. second = [first EXCEPT !.counts = [first.counts EXCEPT ![sig] = count]]
    OBVIOUS
  <2>. QED  BY <1>3, <2>1, <2>2 DEF LoopStates
<1>. HIDE DEF second
<1>5. /\ Good(third)
      /\ third.last = head
      /\ ErrorLimit > 0 => third.same = streak
  <2>1. third = [second EXCEPT !.last = head, !.same = third.same]
    BY <1>4 DEF LoopStates
  <2>2. third.same = (IF ErrorLimit > 0 THEN streak ELSE second.same)
    BY <1>4 DEF LoopStates
  <2>. QED  BY <1>2, <1>4, <2>1, <2>2 DEF LoopStates
<1>6. /\ noops' = n /\ pc' = "save"
      /\ UNCHANGED <<base, pre, tree, ckpt, spending, history>>
      /\ \/ st' = first /\ stop' = "no-changes"
         \/ /\ ~(vacuous /\ TooManyNoops(n))
            /\ \/ st' = second /\ stop' = "duplicate-action"
               \/ st' = third /\ stop' = "repeated-error"
               \/ st' = third /\ stop' = "no-progress" /\ ~(ErrorLimit > 0 /\ streak >= ErrorLimit)
               \/ st' = third /\ stop' = "none" /\ ~(ErrorLimit > 0 /\ streak >= ErrorLimit)
  BY DEF Loss, first, second, count, streak, sig, c
<1>. HIDE DEF third
<1>7. streak = IF head = st.last THEN st.same + 1 ELSE 1
  BY DEF streak
<1>. QED  BY <1>2, <1>3, <1>4, <1>5, <1>6, <1>7 DEF Breakers, c

-----------------------------------------------------------------------------
(* A new loop is a loop state.  (CheckpointState) *)
LEMMA NewLoopType == NewLoop \in LoopStates
  BY DEF NewLoop, LoopStates

(* A tree's signature is one. *)
LEMMA SigType ==
  ASSUME NEW t \in Trees
  PROVE  Sig(t) \in Sigs /\ Sig(t) # None
<1>1. Lines(t) \subseteq Codes \X Files \X Files
  BY DEF Lines, Code, Codes, Dirty, Trees
<1>. QED  BY <1>1, NoneAssumption DEF Trees, Sig, Sigs

(* A probe sees a signature, or nothing when git fails. *)
LEMMA ProbeType ==
  ASSUME NEW t \in Trees, NEW ok \in BOOLEAN
  PROVE  Probe(t, ok) \in Sigs \cup {None}
  BY SigType DEF Probe

(* A tree without edits is a tree: nothing was moved. *)
LEMMA CleanType ==
  ASSUME NEW n \in Nat, NEW head \in Contents
  PROVE  Clean(n, head) \in Trees
<1>1. {} \in Renamings(head, head)
  BY DEF Renamings
<1>. QED  BY <1>1 DEF Clean, Trees

(* A tree with edits is a tree, with the HEAD it was made from. *)
LEMMA EditedType ==
  ASSUME NEW n \in Nat, NEW head \in Contents, NEW t \in Edited(n, head)
  PROVE  t \in Trees /\ t.head = head /\ t.commits = n
<1>1. PICK work \in Contents : \E r \in Renamings(head, work) :
        t = [commits |-> n, head |-> head, work |-> work, renames |-> r]
  BY DEF Edited
<1>2. PICK r \in Renamings(head, work) :
        t = [commits |-> n, head |-> head, work |-> work, renames |-> r]
  BY <1>1
<1>3. r \in SUBSET (Files \X Files)
  BY DEF Renamings, Moves
<1>. QED  BY <1>2, <1>3 DEF Trees

(* The tree that is checked out is a tree. *)
LEMMA CheckedOutType == CheckedOut \in Trees /\ CheckedOut.head \in Contents
<1>1. [f \in Files |-> IF f \in Tracked THEN 0 ELSE Absent] \in Contents
  BY LoopAssumption DEF Contents
<1>. QED  BY <1>1, CleanType DEF CheckedOut, Clean

(* An agent leaves a tree behind.                                          *)
LEMMA AgentTreesType ==
  ASSUME tree \in Trees, NEW t \in AgentTrees
  PROVE  t \in Trees /\ (t.commits = tree.commits => t.head = tree.head)
<1>1. tree.commits \in Nat /\ tree.head \in Contents
  BY DEF Trees
<1>2. CASE t \in Edited(tree.commits, tree.head)
  BY <1>1, <1>2, EditedType
<1>3. ASSUME NEW head \in Contents, t = Clean(tree.commits + 1, head)
      PROVE  t \in Trees /\ t.commits = tree.commits + 1
  BY <1>1, <1>3, CleanType DEF Clean
<1>. QED  BY <1>1, <1>2, <1>3 DEF AgentTrees

(* The heads that the engine writes itself. *)
LEMMA AgentHead == "[agent-error]" \in AllHeads /\ "[verify error]" \in AllHeads
                   /\ "[no-op]" \in AllHeads /\ "[scope]" \in AllHeads
  BY DEF AllHeads, OwnHeads

(* Types hold at first. *)
LEMMA InitType == Init => TypeOK
<1>. SUFFICES ASSUME Init PROVE TypeOK
  OBVIOUS
<1>1. tree \in Trees /\ began \in Trees
  BY CheckedOutType, EditedType DEF Init
<1>2. base \in [seen : BOOLEAN, sig : Sigs \cup {None}]
  BY DEF Init, NoBase
<1>3. pre \in [tree : Trees, sig : Sigs \cup {None}]
  BY CheckedOutType DEF Init, NoPre
<1>. QED  BY <1>1, <1>2, <1>3, NewLoopType, LoopAssumption DEF Init, TypeOK, Stops

(* Every step keeps the types. *)
LEMMA NextType == TypeOK /\ [Next]_vars => TypeOK'
<1>. SUFFICES ASSUME TypeOK, [Next]_vars PROVE TypeOK'
  OBVIOUS
<1>. USE DEF history
<1>1. ASSUME NEW resume \in Resumes, Begin(resume) PROVE TypeOK'
  <2>1. tree' \in Trees /\ began' \in Trees /\ spending' \in Nat
    BY <1>1, CheckedOutType DEF Begin, TypeOK
  <2>2. st' \in LoopStates
    BY <1>1, NewLoopType DEF Begin, Restored, TypeOK
  <2>3. base' \in [seen : BOOLEAN, sig : Sigs \cup {None}]
    BY <1>1 DEF Begin, NoBase
  <2>4. pre' \in [tree : Trees, sig : Sigs \cup {None}]
    BY <1>1, CheckedOutType DEF Begin, NoPre
  <2>5. invocations' \in 0..MaxInvocations
    BY <1>1, LoopAssumption DEF Begin, TypeOK
  <2>. QED  BY <1>1, <2>1, <2>2, <2>3, <2>4, <2>5 DEF Begin, TypeOK, Stops
<1>2. CASE Exhausted
  BY <1>2 DEF Exhausted, TypeOK, Stops
<1>3. CASE OverBudget
  BY <1>3 DEF OverBudget, Stop, TypeOK, Stops, Resumable
<1>4. ASSUME NEW reason \in Interrupts, Interrupt(reason) PROVE TypeOK'
  <2>1. reason \in Stops
    BY LoopAssumption DEF Stops, Resumable
  <2>. QED  BY <1>4, <2>1 DEF Interrupt, Stop, TypeOK
<1>5. ASSUME NEW heavy \in BOOLEAN, NEW ok \in Probes, Prepare(heavy, ok) PROVE TypeOK'
  <2>1. ok \in BOOLEAN
    BY LoopAssumption
  <2>2. st' \in LoopStates
    BY <1>5, RoutedParts DEF Prepare, TypeOK
  <2>3. pre' \in [tree : Trees, sig : Sigs \cup {None}]
    BY <1>5, <2>1, ProbeType DEF Prepare, TypeOK
  <2>4. base' \in [seen : BOOLEAN, sig : Sigs \cup {None}]
    BY <1>5, <2>1, ProbeType DEF Prepare, TypeOK
  <2>. QED  BY <1>5, <2>2, <2>3, <2>4 DEF Prepare, TypeOK
<1>6. ASSUME NEW t \in AgentTrees, NEW cost \in Costs, Act(t, cost) PROVE TypeOK'
  <2>1. t \in Trees /\ cost \in Nat
    BY AgentTreesType, LoopAssumption DEF TypeOK
  <2>2. st' \in LoopStates /\ spending' \in Nat
    BY <1>6, <2>1, SpentParts DEF Act, Spend, TypeOK
  <2>. QED  BY <1>6, <2>1, <2>2 DEF Act, TypeOK
<1>7. ASSUME NEW reason \in AgentErrors, NEW files \in Touches, NEW cost \in Costs,
             ActFails(reason, files, cost)
      PROVE  TypeOK'
  <2>. DEFINE c == [outcome |-> "loss", files |-> files, head |-> "[agent-error]"]
              a == Appended(c)
  <2>1. a \in LoopStates /\ cost \in Nat
    BY AppendedParts, AgentHead, LoopAssumption DEF TypeOK, Contracts
  <2>2. st' = [a EXCEPT !.spent = a.spent + cost] /\ spending' = spending + cost
    BY <1>7 DEF ActFails, Spend
  <2>. HIDE DEF a
  <2>3. st' \in LoopStates /\ spending' \in Nat
    BY <2>1, <2>2, SpentParts DEF TypeOK
  <2>4. reason \in Stops
    BY LoopAssumption DEF Stops, Resumable
  <2>. QED  BY <1>7, <2>3, <2>4 DEF ActFails, TypeOK
<1>8. ASSUME NEW files \in Touches, VerifierUnavailable(files) PROVE TypeOK'
  <2>1. st' \in LoopStates
    BY <1>8, AppendedParts, AgentHead DEF VerifierUnavailable, TypeOK, Contracts
  <2>. QED  BY <1>8, <2>1 DEF VerifierUnavailable, TypeOK, Stops
<1>9. ASSUME NEW files \in Touches, NEW ok \in Probes, Win(files, ok) PROVE TypeOK'
  <2>1. PICK head \in Heads :
          st' = Appended([outcome |-> "win", files |-> files, head |-> head])
    BY <1>9 DEF Win
  <2>2. st' \in LoopStates
    BY <2>1, AppendedParts DEF TypeOK, Contracts, AllHeads
  <2>. QED  BY <1>9, <2>2 DEF Win, TypeOK, Stops
<1>10. ASSUME NEW files \in Touches, NEW head \in AllHeads, NEW vacuous \in BOOLEAN,
              Loss(files, head, vacuous)
       PROVE  TypeOK'
  <2>1. /\ st' \in LoopStates /\ noops' \in Nat
        /\ stop' \in Breakers \cup {"none"} /\ pc' = "save"
        /\ UNCHANGED <<base, pre, tree, ckpt, spending, history>>
    <3>1. noops \in Nat /\ noops + 1 \in Nat
      BY DEF TypeOK
    <3>2. noops' = IF vacuous THEN noops + 1 ELSE 0
      BY <1>10 DEF Loss
    <3>3. noops' \in Nat
      BY <3>1, <3>2
    <3>. QED  BY <1>10, <3>3, LossParts
  <2>2. stop' \in Stops
    BY <2>1 DEF Stops
  <2>. QED  BY <2>1, <2>2 DEF TypeOK
<1>11. ASSUME NEW ok \in Saves, Save(ok) PROVE TypeOK'
  BY <1>11 DEF Save, TypeOK
<1>12. CASE Return
  BY <1>12 DEF Return, TypeOK
<1>13. CASE Crash
  <2>1. base' \in [seen : BOOLEAN, sig : Sigs \cup {None}]
    BY <1>13 DEF Crash, NoBase
  <2>2. pre' \in [tree : Trees, sig : Sigs \cup {None}]
    BY <1>13, CheckedOutType DEF Crash, NoPre
  <2>3. crashes' \in 0..MaxCrashes
    BY <1>13, LoopAssumption DEF Crash, TypeOK
  <2>. QED  BY <1>13, <2>1, <2>2, <2>3, NewLoopType DEF Crash, TypeOK, Stops
<1>14. CASE UNCHANGED vars
  BY <1>14 DEF vars, TypeOK
<1>15. ASSUME NEW files \in Touches, NEW ok \in Probes,
              \/ VacuousPass(files, ok)
              \/ ScopeLoss(files, ok)
              \/ \E head \in Heads : VerifyFails(files, head)
       PROVE  TypeOK'
  BY <1>15, <1>10, AgentHead DEF VacuousPass, ScopeLoss, VerifyFails, AllHeads
<1>. QED
  BY <1>1, <1>2, <1>3, <1>4, <1>5, <1>6, <1>7, <1>8, <1>9, <1>11, <1>12, <1>13,
     <1>14, <1>15 DEF Next, Iterate

(* Every value the loop keeps has its type, for any limits and costs.      *)
THEOREM TypeCorrect == Spec => []TypeOK
<1>1. Init => TypeOK
  BY InitType
<1>2. TypeOK /\ [Next]_vars => TypeOK'
  BY NextType
<1>. QED  BY <1>1, <1>2, PTL DEF Spec

-----------------------------------------------------------------------------
(* The steps of the loop by what they do to its state.                     *)

(* A limit or an interruption ends the loop between two iterations.        *)
Halts ==
  /\ pc = "top"
  /\ \/ stop' = "max-iterations" /\ pc' = "save"
     \/ stop' \in {"budget", "wall-time", "aborted"} /\ pc' = "return"
  /\ UNCHANGED <<st, noops, base, pre, tree, ckpt, spending, history>>

(* The agent or the verifier could not run: a loss, and the end.           *)
Breaks(files, head, cost) ==
  /\ \/ pc = "act" /\ head = "[agent-error]" /\ stop' \in AgentErrors
     \/ pc = "verify" /\ head = "[verify error]" /\ cost = 0
        /\ stop' = "verifier-unavailable"
  /\ st' \in LoopStates
  /\ st'.iterations = Append(st.iterations,
       [outcome |-> "loss", files |-> files, head |-> head])
  /\ st'.spent = st.spent + cost
  /\ spending' = spending + cost
  /\ pc' = "save"
  /\ UNCHANGED <<noops, base, pre, tree, ckpt, history>>

(* The verifier failed, or its pass was refused by a gate.                 *)
Loses(files, head, vacuous) ==
  /\ pc = "verify"
  /\ Loss(files, head, vacuous)
  /\ IF vacuous THEN head = "[no-op]" ELSE head \in Heads \cup {"[scope]"}

(* An iteration ends in a verdict.                                         *)
Judges ==
  \/ \E files \in Touches, head \in OwnHeads, cost \in Costs \cup {0} :
       Breaks(files, head, cost)
  \/ \E files \in Touches, ok \in Probes : Win(files, ok)
  \/ \E files \in Touches, head \in AllHeads, vacuous \in BOOLEAN :
       Loses(files, head, vacuous)

(* Every verdict leads to the save. *)
LEMMA JudgesSaves ==
  ASSUME Judges
  PROVE  pc' = "save"
<1>1. ASSUME NEW files, NEW head, NEW vacuous, Loss(files, head, vacuous)
      PROVE  pc' = "save"
  BY <1>1, Zenon DEF Loss
<1>2. ASSUME NEW files, NEW ok, Win(files, ok) PROVE pc' = "save"
  BY <1>2 DEF Win
<1>. QED  BY <1>1, <1>2 DEF Judges, Breaks, Loses

(* The kinds of steps that the proofs below tell apart. *)
LEMMA StepKinds ==
  ASSUME TypeOK, [Next]_vars
  PROVE  \/ \E resume \in Resumes : Begin(resume)
         \/ Halts
         \/ \E heavy \in BOOLEAN, ok \in Probes : Prepare(heavy, ok)
         \/ \E t \in AgentTrees, cost \in Costs : Act(t, cost)
         \/ \E files \in Touches, head \in OwnHeads, cost \in Costs \cup {0} :
              Breaks(files, head, cost)
         \/ \E files \in Touches, ok \in Probes : Win(files, ok)
         \/ \E files \in Touches, head \in AllHeads, vacuous \in BOOLEAN :
              Loses(files, head, vacuous)
         \/ \E ok \in Saves : Save(ok)
         \/ Return
         \/ Crash
         \/ UNCHANGED vars
<1>1. Exhausted \/ OverBudget \/ (\E reason \in Interrupts : Interrupt(reason)) => Halts
  BY LoopAssumption DEF Exhausted, OverBudget, Interrupt, Stop, Halts
<1>2. ASSUME NEW reason \in AgentErrors, NEW files \in Touches, NEW cost \in Costs,
             ActFails(reason, files, cost)
      PROVE  Breaks(files, "[agent-error]", cost)
  <2>. DEFINE c == [outcome |-> "loss", files |-> files, head |-> "[agent-error]"]
              a == Appended(c)
  <2>1. /\ a \in LoopStates /\ cost \in Nat
        /\ a.iterations = Append(st.iterations, c) /\ a.spent = st.spent
    BY AppendedParts, AgentHead, LoopAssumption DEF TypeOK, Contracts
  <2>2. st' = [a EXCEPT !.spent = a.spent + cost] /\ spending' = spending + cost
    BY <1>2 DEF ActFails, Spend
  <2>. HIDE DEF a
  <2>3. /\ st' \in LoopStates /\ st'.iterations = Append(st.iterations, c)
        /\ st'.spent = st.spent + cost
    BY <2>1, <2>2, SpentParts
  <2>. QED  BY <1>2, <2>2, <2>3 DEF ActFails, Breaks
<1>3. ASSUME NEW files \in Touches, VerifierUnavailable(files)
      PROVE  Breaks(files, "[verify error]", 0)
  <2>. DEFINE c == [outcome |-> "loss", files |-> files, head |-> "[verify error]"]
  <2>1. /\ st' = Appended(c)
        /\ st' \in LoopStates /\ st'.iterations = Append(st.iterations, c)
        /\ st'.spent = st.spent
    BY <1>3, AppendedParts, AgentHead DEF VerifierUnavailable, TypeOK, Contracts
  <2>2. st.spent = st.spent + 0 /\ spending = spending + 0
    BY DEF TypeOK, LoopStates
  <2>. QED  BY <1>3, <2>1, <2>2 DEF VerifierUnavailable, Breaks
<1>4. ASSUME NEW files \in Touches, NEW ok \in Probes,
             \/ VacuousPass(files, ok)
             \/ ScopeLoss(files, ok)
             \/ \E head \in Heads : VerifyFails(files, head)
      PROVE  \E head \in AllHeads, vacuous \in BOOLEAN : Loses(files, head, vacuous)
  <2>1. CASE VacuousPass(files, ok)
    <3>1. Loses(files, "[no-op]", TRUE)
      BY <2>1 DEF VacuousPass, Loses
    <3>. QED  BY <3>1, AgentHead
  <2>2. CASE ScopeLoss(files, ok)
    <3>1. Loses(files, "[scope]", FALSE)
      BY <2>2 DEF ScopeLoss, Loses
    <3>. QED  BY <3>1, AgentHead
  <2>3. ASSUME NEW head \in Heads, VerifyFails(files, head)
        PROVE  head \in AllHeads /\ Loses(files, head, FALSE)
    BY <2>3 DEF VerifyFails, Loses, AllHeads
  <2>. QED  BY <1>4, <2>1, <2>2, <2>3
<1>5. "[agent-error]" \in OwnHeads /\ "[verify error]" \in OwnHeads
  BY DEF OwnHeads
<1>. QED  BY <1>1, <1>2, <1>3, <1>4, <1>5 DEF Next, Iterate

(* No step decides a stop and goes on. *)
LEMMA UndecidedStep == TypeOK /\ Undecided /\ [Next]_vars => Undecided'
<1>. SUFFICES ASSUME TypeOK, Undecided, [Next]_vars PROVE Undecided'
  OBVIOUS
<1>. USE DEF Undecided, Deciding
<1>1. ASSUME NEW resume \in Resumes, Begin(resume) PROVE Undecided'
  BY <1>1 DEF Begin
<1>2. CASE Halts
  BY <1>2 DEF Halts
<1>3. ASSUME NEW heavy \in BOOLEAN, NEW ok \in Probes, Prepare(heavy, ok) PROVE Undecided'
  BY <1>3 DEF Prepare
<1>4. ASSUME NEW t \in AgentTrees, NEW cost \in Costs, Act(t, cost) PROVE Undecided'
  BY <1>4 DEF Act
<1>5. CASE Judges
  BY <1>5, JudgesSaves
<1>6. ASSUME NEW ok \in Saves, Save(ok) PROVE Undecided'
  BY <1>6 DEF Save
<1>7. CASE Return \/ Crash
  BY <1>7 DEF Return, Crash
<1>8. CASE UNCHANGED vars
  BY <1>8 DEF vars
<1>. QED
  BY <1>1, <1>2, <1>3, <1>4, <1>5, <1>6, <1>7, <1>8, StepKinds DEF Judges

(* Types and Undecided are invariant. *)
LEMMA LoopInvHolds == Spec => []LoopInv
<1>1. Init => LoopInv
  BY InitType DEF LoopInv, Init, Undecided, Deciding
<1>2. LoopInv /\ [Next]_vars => LoopInv'
  BY NextType, UndecidedStep DEF LoopInv
<1>. QED  BY <1>1, <1>2, PTL DEF Spec

-----------------------------------------------------------------------------
(* Neither end of a move reported as a rename is clean, and its new end is *)
(* not at HEAD.  (git status)                                              *)
LEMMA MovedEnds ==
  ASSUME NEW t \in Trees, NEW m \in t.renames
  PROVE  /\ m[1] \in Files /\ m[2] \in Files /\ m = <<m[1], m[2]>>
         /\ t.head[m[1]] # Absent /\ t.work[m[1]] = Absent
         /\ t.head[m[2]] = Absent /\ t.work[m[2]] # Absent
<1>1. m \in Moves(t.head, t.work)
  BY DEF Trees, Renamings
<1>. QED  BY <1>1 DEF Moves

(* No status line names a clean file that HEAD has.  (git status)          *)
LEMMA UnlistedClean ==
  ASSUME NEW t \in Trees, NEW f \in Files, f \notin Dirty(t), t.head[f] # Absent
  PROVE  \A line \in Lines(t) : line[3] # f
<1>1. \A m \in t.renames : m[2] # f
  BY MovedEnds
<1>. QED  BY <1>1 DEF Lines

(* A dirty file that HEAD has is named by a status line of its own unless  *)
(* it is the source of a rename.  (_files_from_git_status)                 *)
LEMMA ListedDirty ==
  ASSUME NEW t \in Trees, NEW f \in Dirty(t), t.head[f] # Absent,
         \A g \in Files : <<f, g>> \notin t.renames
  PROVE  \E line \in Lines(t) : line[3] = f
<1>1. \A m \in t.renames : m[1] # f /\ m[2] # f
  BY MovedEnds
<1>2. <<Code(t, f), f, f>> \in Lines(t)
  BY <1>1 DEF Lines
<1>. QED  BY <1>2

(* Every step keeps ScopeInv: a win passes the gate. *)
LEMMA ScopeStep == LoopInv /\ ScopeInv /\ [Next]_vars => ScopeInv'
<1>. SUFFICES ASSUME LoopInv, ScopeInv, [Next]_vars PROVE ScopeInv'
  OBVIOUS
<1>0. TypeOK /\ Undecided
  BY DEF LoopInv
<1>. USE DEF ScopeInv, ScopeKept, Guarded
<1>1. ASSUME NEW resume \in Resumes, Begin(resume) PROVE ScopeInv'
  BY <1>1 DEF Begin, NoPre
<1>2. CASE Halts
  BY <1>2 DEF Halts
<1>3. ASSUME NEW heavy \in BOOLEAN, NEW ok \in Probes, Prepare(heavy, ok) PROVE ScopeInv'
  BY <1>3 DEF Prepare, Probe
<1>4. ASSUME NEW t \in AgentTrees, NEW cost \in Costs, Act(t, cost) PROVE ScopeInv'
  <2>1. t.commits = tree.commits => t.head = tree.head
    BY <1>0, AgentTreesType DEF TypeOK
  <2>. QED  BY <1>4, <2>1 DEF Act
<1>5. ASSUME NEW files \in Touches, NEW head \in OwnHeads, NEW cost \in Costs \cup {0},
             Breaks(files, head, cost)
      PROVE  ScopeInv'
  <2>1. stop' # "converged"
    BY <1>5, LoopAssumption DEF Breaks
  <2>. QED  BY <1>5, <2>1 DEF Breaks
<1>6. ASSUME NEW files \in Touches, NEW ok \in Probes, Win(files, ok) PROVE ScopeInv'
  <2>. DEFINE post == Probe(tree, ok)
  <2>1. pc = "verify" /\ ~OutOfScope(post) /\ pc' = "save" /\ UNCHANGED <<pre, tree>>
    BY <1>6 DEF Win
  <2>2. ASSUME tree.commits = pre.tree.commits, NEW f \in Guarded,
               tree.work[f] # pre.tree.work[f]
        PROVE  \E g \in Files : <<f, g>> \in tree.renames
    <3>1. tree.head = pre.tree.head
      BY <2>1, <2>2
    <3>2. pre.sig # None /\ post # None /\ Delta(post) \cap Protected = {}
      BY <2>1, <2>2 DEF OutOfScope
    <3>3. pre.sig = Sig(pre.tree) /\ post = Sig(tree)
      BY <3>2 DEF Probe
    <3>4. /\ f \in Files /\ f \in Protected /\ f \notin Dirty(pre.tree)
          /\ pre.tree.head[f] # Absent
      BY <2>2, LoopAssumption DEF Guarded
    <3>5. f \in Dirty(tree)
      BY <2>2, <3>1, <3>4 DEF Dirty
    <3>6. \A line \in Lines(tree) : line[3] = f => line \in Lines(pre.tree)
      BY <3>2, <3>3, <3>4 DEF Delta, Sig
    <3>7. \A line \in Lines(pre.tree) : line[3] # f
      BY <1>0, <3>4, UnlistedClean DEF TypeOK
    <3>8. tree \in Trees /\ tree.head[f] # Absent
      BY <1>0, <3>1, <3>4 DEF TypeOK
    <3>9. ASSUME \A g \in Files : <<f, g>> \notin tree.renames PROVE FALSE
      BY <3>4, <3>5, <3>6, <3>7, <3>8, <3>9, ListedDirty
    <3>. QED  BY <3>9
  <2>. QED  BY <2>1, <2>2 DEF Guarded
<1>7. ASSUME NEW files \in Touches, NEW head \in AllHeads, NEW vacuous \in BOOLEAN,
             Loses(files, head, vacuous)
      PROVE  ScopeInv'
  <2>1. stop' # "converged" /\ pc' = "save" /\ UNCHANGED <<pre, tree>>
    BY <1>0, <1>7, LossParts DEF Loses, Breakers
  <2>. QED  BY <2>1
<1>8. ASSUME NEW ok \in Saves, Save(ok) PROVE ScopeInv'
  BY <1>8 DEF Save
<1>9. CASE Return
  BY <1>9 DEF Return
<1>10. CASE Crash
  BY <1>10 DEF Crash, NoPre
<1>11. CASE UNCHANGED vars
  BY <1>11 DEF vars
<1>. QED
  BY <1>0, <1>1, <1>2, <1>3, <1>4, <1>5, <1>6, <1>7, <1>8, <1>9, <1>10, <1>11, StepKinds

(* A winning iteration that made no commit left every protected file that  *)
(* HEAD has and that was clean before it as it was, or git reports that    *)
(* file as the source of a rename: renames, commits and files that were    *)
(* dirty or untracked already are all that escapes the gate, whether or    *)
(* not git could be asked and however often the run was resumed.           *)
(* (_scope_violation)                                                      *)
THEOREM ScopeKeptHolds == Spec => []ScopeKept
<1>1. Init => ScopeInv
  BY DEF Init, ScopeInv, ScopeKept, NoPre
<1>2. LoopInv /\ ScopeInv /\ [Next]_vars => ScopeInv'
  BY ScopeStep
<1>3. ScopeInv => ScopeKept
  BY DEF ScopeInv
<1>. QED  BY <1>1, <1>2, <1>3, LoopInvHolds, PTL DEF Spec

-----------------------------------------------------------------------------
(* Every step keeps VacuousInv while git answers and nothing is resumed. *)
LEMMA VacuousStep ==
  ASSUME Probes \subseteq {TRUE}, Resumes \subseteq {FALSE}
  PROVE  LoopInv /\ VacuousInv /\ [Next]_vars => VacuousInv'
<1>. SUFFICES ASSUME LoopInv, VacuousInv, [Next]_vars PROVE VacuousInv'
  OBVIOUS
<1>0. TypeOK /\ Undecided
  BY DEF LoopInv
<1>. USE DEF VacuousInv, NoVacuousWin, history
<1>1. ASSUME NEW resume \in Resumes, Begin(resume) PROVE VacuousInv'
  BY <1>1 DEF Begin, NoBase
<1>2. CASE Halts
  BY <1>2 DEF Halts
<1>3. ASSUME NEW heavy \in BOOLEAN, NEW ok \in Probes, Prepare(heavy, ok) PROVE VacuousInv'
  <2>1. stop # "converged" /\ UNCHANGED <<tree, began, stop>> /\ pc = "top" /\ pc' = "act"
    BY <1>0, <1>3 DEF Prepare, Undecided, Deciding
  <2>2. base'.seen /\ base'.sig = Sig(began)
    <3>1. base' = IF base.seen THEN base ELSE [seen |-> TRUE, sig |-> Sig(tree)]
      BY <1>3 DEF Prepare, Probe
    <3>. QED  BY <2>1, <3>1
  <2>. QED  BY <2>1, <2>2 DEF Sig, Dirty
<1>4. ASSUME NEW t \in AgentTrees, NEW cost \in Costs, Act(t, cost) PROVE VacuousInv'
  <2>1. stop' # "converged"
    BY <1>0, <1>4 DEF Act, Undecided, Deciding
  <2>. QED  BY <1>4, <2>1 DEF Act, Sig, Dirty
<1>5. ASSUME NEW files \in Touches, NEW head \in OwnHeads, NEW cost \in Costs \cup {0},
             Breaks(files, head, cost)
      PROVE  VacuousInv'
  <2>1. stop' # "converged"
    BY <1>5, LoopAssumption DEF Breaks
  <2>. QED  BY <1>5, <2>1 DEF Breaks
<1>6. ASSUME NEW files \in Touches, NEW ok \in Probes, Win(files, ok) PROVE VacuousInv'
  <2>1. Probe(tree, ok) = Sig(tree) /\ base.sig = Sig(began)
    BY <1>6 DEF Probe, Win
  <2>2. Sig(tree) # None /\ Sig(began) # None
    BY <1>0, SigType DEF TypeOK
  <2>3. Sig(tree) # Sig(began)
    BY <1>6, <2>1, <2>2 DEF Win, Vacuous
  <2>. QED  BY <1>6, <2>3 DEF Win, Sig, Dirty
<1>7. ASSUME NEW files \in Touches, NEW head \in AllHeads, NEW vacuous \in BOOLEAN,
             Loses(files, head, vacuous)
      PROVE  VacuousInv'
  <2>1. stop' # "converged" /\ pc = "verify" /\ pc' = "save" /\ UNCHANGED <<base, tree, history>>
    BY <1>0, <1>7, LossParts DEF Loses, Breakers
  <2>. QED  BY <2>1
<1>8. ASSUME NEW ok \in Saves, Save(ok) PROVE VacuousInv'
  BY <1>8 DEF Save
<1>9. CASE Return
  BY <1>9 DEF Return
<1>10. CASE Crash
  BY <1>10 DEF Crash, NoBase
<1>11. CASE UNCHANGED vars
  BY <1>11 DEF vars
<1>. QED
  BY <1>0, <1>1, <1>2, <1>3, <1>4, <1>5, <1>6, <1>7, <1>8, <1>9, <1>10, <1>11, StepKinds

(* While git answers and no invocation resumes an earlier one, a run that  *)
(* converged has changed the tree it began with.  Both hypotheses are      *)
(* needed: without an answer the code drops its gate, and a resumed        *)
(* invocation takes its baseline from the tree it finds.                   *)
THEOREM NoVacuousWinHolds ==
  ASSUME Probes \subseteq {TRUE}, Resumes \subseteq {FALSE}
  PROVE  Spec => []NoVacuousWin
<1>1. Init => VacuousInv
  BY DEF Init, VacuousInv, NoVacuousWin, NoBase
<1>2. LoopInv /\ VacuousInv /\ [Next]_vars => VacuousInv'
  BY VacuousStep
<1>3. VacuousInv => NoVacuousWin
  BY DEF VacuousInv
<1>. QED  BY <1>1, <1>2, <1>3, LoopInvHolds, PTL DEF Spec

-----------------------------------------------------------------------------
(* Every step keeps CheckpointInv while checkpoint writes succeed. *)
LEMMA CheckpointStep ==
  ASSUME Saves \subseteq {TRUE}
  PROVE  LoopInv /\ CheckpointInv /\ [Next]_vars => CheckpointInv'
<1>. SUFFICES ASSUME LoopInv, CheckpointInv, [Next]_vars PROVE CheckpointInv'
  OBVIOUS
<1>0. TypeOK /\ Undecided
  BY DEF LoopInv
<1>. USE DEF CheckpointInv, StopMatchesCheckpoint
<1>1. ASSUME NEW resume \in Resumes, Begin(resume) PROVE CheckpointInv'
  BY <1>1 DEF Begin, Restored, NewLoop
<1>2. CASE Halts
  BY <1>2 DEF Halts
<1>3. ASSUME NEW heavy \in BOOLEAN, NEW ok \in Probes, Prepare(heavy, ok) PROVE CheckpointInv'
  BY <1>3 DEF Prepare
<1>4. ASSUME NEW t \in AgentTrees, NEW cost \in Costs, Act(t, cost) PROVE CheckpointInv'
  BY <1>4 DEF Act
<1>5. CASE Judges
  BY <1>5, JudgesSaves
<1>6. ASSUME NEW ok \in Saves, Save(ok) PROVE CheckpointInv'
  BY <1>6 DEF Save
<1>7. CASE Return
  BY <1>7 DEF Return, KeepsCheckpoint
<1>8. CASE Crash
  BY <1>8 DEF Crash, Resumable
<1>9. CASE UNCHANGED vars
  BY <1>9 DEF vars
<1>. QED
  BY <1>0, <1>1, <1>2, <1>3, <1>4, <1>5, <1>6, <1>7, <1>8, <1>9, StepKinds DEF Judges

(* While checkpoint writes succeed, a stop that invites --resume leaves    *)
(* the loop that stopped in the checkpoint, and a decided one leaves none  *)
(* (_make_result).  A failed write is only logged and leaves an older      *)
(* loop there.                                                             *)
THEOREM StopMatchesCheckpointHolds ==
  ASSUME Saves \subseteq {TRUE}
  PROVE  Spec => []StopMatchesCheckpoint
<1>1. Init => CheckpointInv
  BY DEF Init, CheckpointInv, StopMatchesCheckpoint, NewLoop
<1>2. LoopInv /\ CheckpointInv /\ [Next]_vars => CheckpointInv'
  BY CheckpointStep
<1>3. CheckpointInv => StopMatchesCheckpoint
  BY DEF CheckpointInv
<1>. QED  BY <1>1, <1>2, <1>3, LoopInvHolds, PTL DEF Spec

-----------------------------------------------------------------------------
(* The arithmetic of one more death. *)
LEMMA LostParts ==
  ASSUME NEW most \in Nat, NEW n \in Nat
  PROVE  most * n \in Nat /\ most * (n + 1) = most * n + most
  OBVIOUS

(* Every step keeps SpendAll while checkpoint writes succeed. *)
LEMMA SpendStep ==
  ASSUME Saves \subseteq {TRUE}
  PROVE  LoopInv /\ SpendAll /\ [Next]_vars => SpendAll'
<1>. SUFFICES ASSUME LoopInv, SpendAll, [Next]_vars,
                     NEW most \in Costs, \A c \in Costs : c <= most
              PROVE  SpendInv(most)'
  BY DEF SpendAll
<1>0. TypeOK /\ Undecided /\ SpendInv(most)
  BY DEF LoopInv, SpendAll
<1>t. /\ st.spent \in Nat /\ spending \in Nat /\ most \in Nat /\ Budget \in Nat /\ Budget >= 1
      /\ ckpt # None => ckpt.spent \in Nat
      /\ \A c \in Costs \cup {0} : c \in Nat /\ c <= most
  <2>1. most \in Nat /\ Budget \in Nat /\ Budget >= 1
    BY LoopAssumption
  <2>2. \A c \in Costs \cup {0} : c \in Nat /\ c <= most
    BY <2>1, LoopAssumption
  <2>3. st.spent \in Nat /\ spending \in Nat /\ (ckpt # None => ckpt.spent \in Nat)
    BY <1>0 DEF TypeOK, LoopStates
  <2>. QED  BY <2>1, <2>2, <2>3
<1>l. Lost(most) \in Nat
  BY <1>0, <1>t, LostParts DEF TypeOK, Lost
<1>s. UNCHANGED crashes => Lost(most)' = Lost(most)
  BY DEF Lost
<1>1. ASSUME NEW resume \in Resumes, Begin(resume) PROVE SpendInv(most)'
  <2>1. pc = "stopped" /\ pc' = "top" /\ UNCHANGED <<ckpt, crashes>>
    BY <1>1 DEF Begin
  <2>2. CASE resume /\ ckpt # None
    <3>1. st' = ckpt /\ spending' = spending
      BY <1>1, <2>2 DEF Begin, Restored
    <3>. QED  BY <1>0, <1>t, <1>l, <1>s, <2>1, <2>2, <3>1 DEF SpendInv
  <2>3. CASE ~(resume /\ ckpt # None)
    <3>1. st'.spent = 0 /\ spending' = 0
      BY <1>1, <2>3 DEF Begin, Restored, NewLoop
    <3>. QED  BY <1>0, <1>t, <1>l, <1>s, <2>1, <3>1 DEF SpendInv
  <2>. QED  BY <2>2, <2>3
<1>2. CASE Halts
  <2>1. /\ pc = "top" /\ pc' \in {"save", "return"}
        /\ UNCHANGED <<st, ckpt, spending, crashes>>
    BY <1>2 DEF Halts, history
  <2>. QED  BY <1>0, <1>t, <1>l, <1>s, <2>1 DEF SpendInv
<1>3. ASSUME NEW heavy \in BOOLEAN, NEW ok \in Probes, Prepare(heavy, ok)
      PROVE  SpendInv(most)'
  <2>1. /\ pc = "top" /\ pc' = "act" /\ st.spent < Budget
        /\ UNCHANGED <<ckpt, spending, crashes>>
    BY <1>3 DEF Prepare, history
  <2>2. st'.spent = st.spent
    BY <1>0, <1>3, RoutedParts DEF Prepare, TypeOK
  <2>. QED  BY <1>0, <1>t, <1>l, <1>s, <2>1, <2>2 DEF SpendInv
<1>4. ASSUME NEW t \in AgentTrees, NEW cost \in Costs, Act(t, cost) PROVE SpendInv(most)'
  <2>1. /\ pc = "act" /\ pc' = "verify" /\ spending' = spending + cost
        /\ UNCHANGED <<ckpt, crashes>>
    BY <1>4 DEF Act, Spend, history
  <2>2. st'.spent = st.spent + cost
    BY <1>0, <1>4, <1>t, SpentParts DEF Act, TypeOK
  <2>3. cost \in Nat /\ cost <= most
    BY <1>t
  <2>. QED  BY <1>0, <1>t, <1>l, <1>s, <2>1, <2>2, <2>3 DEF SpendInv
<1>5. ASSUME NEW files \in Touches, NEW head \in OwnHeads, NEW cost \in Costs \cup {0},
             Breaks(files, head, cost)
      PROVE  SpendInv(most)'
  <2>1. /\ pc = "act" \/ (pc = "verify" /\ cost = 0)
        /\ pc' = "save" /\ spending' = spending + cost /\ st'.spent = st.spent + cost
        /\ UNCHANGED <<ckpt, crashes>>
    <3>1. pc = "act" \/ (pc = "verify" /\ cost = 0)
      BY <1>5, Zenon DEF Breaks
    <3>2. pc' = "save" /\ spending' = spending + cost /\ st'.spent = st.spent + cost
      BY <1>5, Zenon DEF Breaks
    <3>3. UNCHANGED <<ckpt, crashes>>
      BY <1>5 DEF Breaks, history
    <3>. QED  BY <3>1, <3>2, <3>3
  <2>2. cost \in Nat /\ cost <= most
    BY <1>t
  <2>3. CASE pc = "act"
    BY <1>0, <1>t, <1>l, <1>s, <2>1, <2>2, <2>3 DEF SpendInv
  <2>4. CASE pc = "verify" /\ cost = 0
    BY <1>0, <1>t, <1>l, <1>s, <2>1, <2>4 DEF SpendInv
  <2>. QED  BY <2>1, <2>3, <2>4
<1>6. ASSUME NEW files \in Touches, NEW ok \in Probes, Win(files, ok) PROVE SpendInv(most)'
  <2>1. PICK head \in Heads :
          st' = Appended([outcome |-> "win", files |-> files, head |-> head])
    BY <1>6 DEF Win
  <2>2. st'.spent = st.spent
    BY <1>0, <2>1, AppendedParts DEF TypeOK, Contracts, AllHeads
  <2>3. pc = "verify" /\ pc' = "save" /\ UNCHANGED <<ckpt, spending, crashes>>
    BY <1>6 DEF Win, history
  <2>. QED  BY <1>0, <1>t, <1>l, <1>s, <2>2, <2>3 DEF SpendInv
<1>7. ASSUME NEW files \in Touches, NEW head \in AllHeads, NEW vacuous \in BOOLEAN,
             Loses(files, head, vacuous)
      PROVE  SpendInv(most)'
  <2>1. /\ pc = "verify" /\ pc' = "save" /\ st'.spent = st.spent
        /\ UNCHANGED <<ckpt, spending, crashes>>
    BY <1>0, <1>7, LossParts DEF Loses, history
  <2>. QED  BY <1>0, <1>t, <1>l, <1>s, <2>1 DEF SpendInv
<1>8. ASSUME NEW ok \in Saves, Save(ok) PROVE SpendInv(most)'
  <2>1. /\ pc = "save" /\ ckpt' = st /\ pc' \in {"top", "return"}
        /\ UNCHANGED <<st, spending, crashes>>
    BY <1>8 DEF Save, history
  <2>. QED  BY <1>0, <1>t, <1>l, <1>s, <2>1 DEF SpendInv
<1>9. CASE Return
  <2>1. /\ pc = "return" /\ ckpt' \in {ckpt, None} /\ pc' = "stopped"
        /\ UNCHANGED <<st, spending, crashes>>
    BY <1>9 DEF Return, history
  <2>. QED  BY <1>0, <1>t, <1>l, <1>s, <2>1 DEF SpendInv
<1>10. CASE Crash
  <2>1. /\ pc # "stopped" /\ st'.spent = 0 /\ pc' = "stopped"
        /\ UNCHANGED <<ckpt, spending>>
    BY <1>10 DEF Crash, NewLoop
  <2>2. Lost(most)' = Lost(most) + most
    <3>1. crashes' = crashes + 1 /\ crashes \in Nat
      BY <1>0, <1>10 DEF Crash, TypeOK
    <3>. QED  BY <1>t, <3>1, LostParts DEF Lost
  <2>. QED  BY <1>0, <1>t, <1>l, <2>1, <2>2 DEF SpendInv
<1>11. CASE UNCHANGED vars
  <2>1. UNCHANGED <<pc, st, ckpt, spending, crashes>>
    BY <1>11 DEF vars
  <2>. QED  BY <1>0, <1>t, <1>l, <1>s, <2>1 DEF SpendInv
<1>. QED
  BY <1>0, <1>1, <1>2, <1>3, <1>4, <1>5, <1>6, <1>7, <1>8, <1>9, <1>10, <1>11, StepKinds

(* While checkpoint writes succeed, a run spends less than its budget,     *)
(* one agent call more, and one for each invocation that died, however     *)
(* often it is resumed (the totals restored from the checkpoint).          *)
THEOREM SpendBoundedHolds ==
  ASSUME Saves \subseteq {TRUE}
  PROVE  Spec => []SpendBounded
<1>1. Init => SpendAll
  <2>1. \A most \in Costs : most \in Nat /\ most * 0 = 0
    BY LoopAssumption
  <2>. QED  BY <2>1, LoopAssumption DEF Init, SpendAll, SpendInv, Lost, NewLoop
<1>2. LoopInv /\ SpendAll /\ [Next]_vars => SpendAll'
  BY SpendStep
<1>3. LoopInv /\ SpendAll => SpendBounded
  <2>. SUFFICES ASSUME LoopInv, SpendAll, NEW most \in Costs, \A c \in Costs : c <= most
                PROVE  spending <= (Budget - 1) + most * (crashes + 1)
    BY DEF SpendBounded
  <2>1. spending <= (Budget - 1) + Lost(most) + most
    BY DEF SpendAll, SpendInv
  <2>2. most * (crashes + 1) = Lost(most) + most /\ Lost(most) \in Nat
    BY LostParts, LoopAssumption DEF LoopInv, TypeOK, Lost
  <2>. QED  BY <2>1, <2>2, LoopAssumption DEF LoopInv, TypeOK
<1>. QED  BY <1>1, <1>2, <1>3, LoopInvHolds, PTL DEF Spec

-----------------------------------------------------------------------------
(* Idle iterations at the end of a longer history were at the end of the   *)
(* shorter one, and the new one is idle.                                   *)
LEMMA IdleAppend ==
  ASSUME NEW s \in Seq(Contracts), NEW c \in Contracts,
         NEW i \in 1..Len(Append(s, c)), Idle(Append(s, c), i)
  PROVE  /\ Len(Append(s, c)) = Len(s) + 1
         /\ c.head = "[no-op]"
         /\ i = Len(s) + 1 \/ (i \in 1..Len(s) /\ Idle(s, i))
<1>1. /\ Len(s) \in Nat /\ Len(Append(s, c)) = Len(s) + 1
      /\ Append(s, c)[Len(s) + 1] = c
      /\ \A j \in 1..Len(s) : Append(s, c)[j] = s[j]
  OBVIOUS
<1>2. Len(s) + 1 \in i..(Len(s) + 1)
  BY <1>1
<1>3. i \in 1..Len(s) => Idle(s, i)
  <2>. SUFFICES ASSUME i \in 1..Len(s), NEW j \in i..Len(s) PROVE s[j].head = "[no-op]"
    BY DEF Idle
  <2>1. j \in i..(Len(s) + 1) /\ j \in 1..Len(s)
    BY <1>1
  <2>. QED  BY <1>1, <2>1 DEF Idle
<1>. QED  BY <1>1, <1>2, <1>3 DEF Idle

(* Every step keeps NoopsInv without resumes. *)
LEMMA NoopsStep ==
  ASSUME Resumes \subseteq {FALSE}, "[no-op]" \notin Heads
  PROVE  LoopInv /\ NoopsInv /\ [Next]_vars => NoopsInv'
<1>. SUFFICES ASSUME LoopInv, NoopsInv, [Next]_vars PROVE NoopsInv'
  OBVIOUS
<1>0. TypeOK /\ Undecided
  BY DEF LoopInv
<1>t. /\ NoChangeLimit \in Nat /\ noops \in Nat
      /\ st.iterations \in Seq(Contracts) /\ Len(st.iterations) \in Nat
  BY <1>0, LoopAssumption DEF TypeOK, LoopStates
<1>n. ASSUME NEW s \in LoopStates, NEW c \in Contracts, c.head # "[no-op]",
             s.iterations = Append(st.iterations, c)
      PROVE  \A i \in 1..Len(s.iterations) : ~Idle(s.iterations, i)
  BY <1>t, <1>n, IdleAppend
<1>1. ASSUME NEW resume \in Resumes, Begin(resume) PROVE NoopsInv'
  <2>1. st' = NewLoop /\ noops' = 0
    BY <1>1 DEF Begin, Restored
  <2>. QED  BY <1>t, <2>1 DEF NoopsInv, NewLoop
<1>2. CASE Halts
  BY <1>2 DEF Halts, NoopsInv
<1>3. ASSUME NEW heavy \in BOOLEAN, NEW ok \in Probes, Prepare(heavy, ok) PROVE NoopsInv'
  <2>1. st'.iterations = st.iterations
    BY <1>0, <1>3, RoutedParts DEF Prepare, TypeOK
  <2>2. UNCHANGED <<noops, stop>> /\ pc = "top"
    BY <1>3 DEF Prepare
  <2>. QED  BY <2>1, <2>2 DEF NoopsInv
<1>4. ASSUME NEW t \in AgentTrees, NEW cost \in Costs, Act(t, cost) PROVE NoopsInv'
  <2>1. st'.iterations = st.iterations
    BY <1>0, <1>4, SpentParts, LoopAssumption DEF Act, TypeOK
  <2>2. UNCHANGED <<noops, stop>> /\ pc = "act"
    BY <1>4 DEF Act
  <2>. QED  BY <2>1, <2>2 DEF NoopsInv
<1>5. ASSUME NEW files \in Touches, NEW head \in OwnHeads, NEW cost \in Costs \cup {0},
             Breaks(files, head, cost)
      PROVE  NoopsInv'
  <2>. DEFINE c == [outcome |-> "loss", files |-> files, head |-> head]
  <2>1. /\ st' \in LoopStates /\ st'.iterations = Append(st.iterations, c)
        /\ head \in {"[agent-error]", "[verify error]"}
    BY <1>5 DEF Breaks
  <2>2. c \in Contracts /\ c.head # "[no-op]"
    BY <2>1 DEF Contracts, AllHeads
  <2>3. stop' # "none"
    BY <1>5, LoopAssumption DEF Breaks
  <2>. QED  BY <1>n, <2>1, <2>2, <2>3 DEF NoopsInv
<1>6. ASSUME NEW files \in Touches, NEW ok \in Probes, Win(files, ok) PROVE NoopsInv'
  <2>1. PICK head \in Heads :
          st' = Appended([outcome |-> "win", files |-> files, head |-> head])
    BY <1>6 DEF Win
  <2>. DEFINE c == [outcome |-> "win", files |-> files, head |-> head]
  <2>2. c \in Contracts /\ c.head # "[no-op]"
    BY DEF Contracts, AllHeads
  <2>3. st' \in LoopStates /\ st'.iterations = Append(st.iterations, c)
    BY <1>0, <2>1, <2>2, AppendedParts DEF TypeOK
  <2>4. stop' # "none"
    BY <1>6 DEF Win
  <2>. QED  BY <1>n, <2>2, <2>3, <2>4 DEF NoopsInv
<1>7. ASSUME NEW files \in Touches, NEW head \in AllHeads, NEW vacuous \in BOOLEAN,
             Loses(files, head, vacuous)
      PROVE  NoopsInv'
  <2>. DEFINE c == [outcome |-> "loss", files |-> files, head |-> head]
  <2>1. c \in Contracts
    BY DEF Contracts
  <2>2. /\ st' \in LoopStates /\ st'.iterations = Append(st.iterations, c)
        /\ noops' = IF vacuous THEN noops + 1 ELSE 0
        /\ stop' = "none" => ~(vacuous /\ TooManyNoops(noops'))
    BY <1>0, <1>7, LossParts DEF Loses
  <2>3. CASE vacuous
    <3>1. noops' = noops + 1
      BY <2>2, <2>3
    <3>2. NoChangeLimit > 0 /\ stop' = "none" => noops' < NoChangeLimit
      BY <1>t, <2>2, <2>3, <3>1 DEF TooManyNoops
    <3>3. ASSUME NEW i \in 1..Len(st'.iterations), Idle(st'.iterations, i)
          PROVE  Len(st'.iterations) - i + 1 <= noops'
      <4>1. /\ Len(st'.iterations) = Len(st.iterations) + 1
            /\ \/ i = Len(st.iterations) + 1
               \/ i \in 1..Len(st.iterations) /\ Idle(st.iterations, i)
        BY <1>t, <2>1, <2>2, <3>3, IdleAppend
      <4>2. CASE i = Len(st.iterations) + 1
        BY <1>t, <3>1, <4>1, <4>2
      <4>3. CASE i \in 1..Len(st.iterations) /\ Idle(st.iterations, i)
        <5>1. Len(st.iterations) - i + 1 <= noops
          BY <4>3 DEF NoopsInv
        <5>. QED  BY <1>t, <3>1, <4>1, <4>3, <5>1
      <4>. QED  BY <4>1, <4>2, <4>3
    <3>. QED  BY <3>2, <3>3 DEF NoopsInv
  <2>4. CASE ~vacuous
    <3>1. noops' = 0
      BY <2>2, <2>4
    <3>2. c.head # "[no-op]"
      BY <1>7, <2>4 DEF Loses
    <3>. QED  BY <1>n, <1>t, <2>1, <2>2, <3>1, <3>2 DEF NoopsInv
  <2>. QED  BY <2>3, <2>4
<1>8. ASSUME NEW ok \in Saves, Save(ok) PROVE NoopsInv'
  BY <1>8 DEF Save, NoopsInv
<1>9. CASE Return
  BY <1>9 DEF Return, NoopsInv
<1>10. CASE Crash
  BY <1>t, <1>10 DEF Crash, NoopsInv, NewLoop
<1>11. CASE UNCHANGED vars
  BY <1>11 DEF vars, NoopsInv
<1>. QED
  BY <1>0, <1>1, <1>2, <1>3, <1>4, <1>5, <1>6, <1>7, <1>8, <1>9, <1>10, <1>11, StepKinds

(* A loop that goes on has passed without a change fewer times in a row    *)
(* than no_change_limit, as long as no invocation resumes another (the     *)
(* counter is not saved) and no verifier prints the engine's own mark.     *)
THEOREM NoopsBoundedHolds ==
  ASSUME Resumes \subseteq {FALSE}, "[no-op]" \notin Heads
  PROVE  Spec => []NoopsBounded
<1>1. Init => NoopsInv
  BY LoopAssumption DEF Init, NoopsInv, NewLoop
<1>2. LoopInv /\ NoopsInv /\ [Next]_vars => NoopsInv'
  BY NoopsStep
<1>3. LoopInv /\ NoopsInv => NoopsBounded
  <2>. SUFFICES ASSUME LoopInv, NoopsInv, NoChangeLimit > 0, pc = "top",
                       NEW i \in 1..Len(st.iterations), Idle(st.iterations, i)
                PROVE  Len(st.iterations) - i + 1 < NoChangeLimit
    BY DEF NoopsBounded, Idle
  <2>1. Len(st.iterations) - i + 1 <= noops /\ noops < NoChangeLimit
    BY DEF LoopInv, Undecided, Deciding, NoopsInv
  <2>2. Len(st.iterations) \in Nat /\ noops \in Nat /\ NoChangeLimit \in Nat
    BY LoopAssumption DEF LoopInv, TypeOK, LoopStates
  <2>. QED  BY <2>1, <2>2
<1>. QED  BY <1>1, <1>2, <1>3, LoopInvHolds, PTL DEF Spec

-----------------------------------------------------------------------------
(* A streak at the end of a longer history ends in a loss with an output   *)
(* of the verifier, and without that loss it was one of the shorter one.   *)
LEMMA StreakAppend ==
  ASSUME NEW s \in Seq(Contracts), NEW c \in Contracts,
         NEW i \in 1..Len(Append(s, c)), Streak(Append(s, c), i)
  PROVE  /\ Len(Append(s, c)) = Len(s) + 1
         /\ c.outcome = "loss" /\ c.head \in Heads /\ c.head = Append(s, c)[i].head
         /\ \/ i = Len(s) + 1
            \/ i \in 1..Len(s) /\ Streak(s, i) /\ s[i].head = c.head
<1>1. /\ Len(s) \in Nat /\ Len(Append(s, c)) = Len(s) + 1
      /\ Append(s, c)[Len(s) + 1] = c
      /\ \A j \in 1..Len(s) : Append(s, c)[j] = s[j]
  OBVIOUS
<1>2. Len(s) + 1 \in i..(Len(s) + 1)
  BY <1>1
<1>3. c \in [outcome : {"loss"}, files : Touches,
              head : {Append(s, c)[i].head} \cap Heads]
  BY <1>1, <1>2 DEF Streak
<1>4. c.outcome = "loss" /\ c.head \in Heads /\ c.head = Append(s, c)[i].head
  BY <1>3
<1>5. ASSUME i \in 1..Len(s) PROVE Streak(s, i) /\ s[i].head = c.head
  <2>1. Append(s, c)[i] = s[i]
    BY <1>1, <1>5
  <2>2. ASSUME NEW j \in i..Len(s)
        PROVE  s[j] \in [outcome : {"loss"}, files : Touches,
                          head : {s[i].head} \cap Heads]
    <3>1. j \in i..(Len(s) + 1) /\ j \in 1..Len(s)
      BY <1>1, <1>5
    <3>2. Append(s, c)[j] = s[j]
      BY <1>1, <3>1
    <3>. QED  BY <1>1, <2>1, <3>1, <3>2 DEF Streak
  <2>. QED  BY <1>4, <2>1, <2>2 DEF Streak
<1>6. i = Len(s) + 1 \/ i \in 1..Len(s)
  BY <1>1
<1>. QED  BY <1>1, <1>4, <1>5, <1>6

(* What is uncounted by n is uncounted by more.                            *)
LEMMA CountedMore ==
  ASSUME NEW s \in LoopStates, NEW n \in Nat, Counted(s, n)
  PROVE  Counted(s, n + 1)
<1>1. Len(s.iterations) \in Nat /\ s.same \in Nat /\ ErrorLimit \in Nat
  BY LoopAssumption DEF LoopStates
<1>. SUFFICES ASSUME NEW i \in 1..Len(s.iterations), Streak(s.iterations, i)
              PROVE  /\ Len(s.iterations) - i + 1 <=
                          (IF s.last = s.iterations[i].head THEN s.same ELSE 0) + (n + 1)
                     /\ Len(s.iterations) - i + 1 < ErrorLimit + (n + 1)
  BY DEF Counted
<1>2. /\ Len(s.iterations) - i + 1 <=
           (IF s.last = s.iterations[i].head THEN s.same ELSE 0) + n
      /\ Len(s.iterations) - i + 1 < ErrorLimit + n
  BY DEF Counted
<1>. QED  BY SMTT(40), <1>1, <1>2

(* A new loop has nothing to count. *)
LEMMA CountedNew ==
  ASSUME NEW n
  PROVE  Counted(NewLoop, n)
  BY DEF Counted, NewLoop

(* An iteration that is no failure of the verifier leaves no streak.       *)
LEMMA CountedBroken ==
  ASSUME NEW s \in LoopStates, NEW u \in LoopStates, NEW c \in Contracts, NEW n,
         u.iterations = Append(s.iterations, c),
         c.outcome # "loss" \/ c.head \notin Heads
  PROVE  Counted(u, n)
<1>1. s.iterations \in Seq(Contracts)
  BY DEF LoopStates
<1>. QED  BY <1>1, StreakAppend DEF Counted

(* A failure lengthens the streaks by one: counted, they stay counted, and *)
(* uncounted they are so by one more.                                      *)
LEMMA CountedLoss ==
  ASSUME NEW s \in LoopStates, NEW u \in LoopStates, NEW c \in Contracts, NEW n \in Nat,
         ErrorLimit > 0,
         Counted(s, n), u.iterations = Append(s.iterations, c),
         \/ u.last = s.last /\ u.same = s.same
         \/ u.last = c.head /\ u.same = IF c.head = s.last THEN s.same + 1 ELSE 1
  PROVE  /\ Counted(u, n + 1)
         /\ u.last = c.head /\ u.same < ErrorLimit
            /\ u.same = (IF c.head = s.last THEN s.same + 1 ELSE 1) => Counted(u, n)
<1>. DEFINE L == Len(s.iterations)
            Before(h) == IF s.last = h THEN s.same ELSE 0
            After(h)  == IF u.last = h THEN u.same ELSE 0
<1>1. /\ s.iterations \in Seq(Contracts) /\ L \in Nat /\ s.same \in Nat /\ u.same \in Nat
      /\ ErrorLimit \in Nat
  BY LoopAssumption DEF LoopStates
<1>2. ASSUME NEW i \in 1..Len(u.iterations), Streak(u.iterations, i)
      PROVE  /\ i \in Int /\ Len(u.iterations) - i + 1 = (L - i + 1) + 1
             /\ c.head = u.iterations[i].head
             /\ L - i + 1 <= Before(c.head) + n
             /\ L - i + 1 < ErrorLimit + n
  <2>1. /\ Len(u.iterations) = L + 1
        /\ c.head = u.iterations[i].head
        /\ \/ i = L + 1
           \/ i \in 1..L /\ Streak(s.iterations, i) /\ s.iterations[i].head = c.head
    BY <1>1, <1>2, StreakAppend
  <2>2. CASE i = L + 1
    BY <1>1, <2>1, <2>2
  <2>3. CASE i \in 1..L /\ Streak(s.iterations, i) /\ s.iterations[i].head = c.head
    <3>1. L - i + 1 <= Before(c.head) + n /\ L - i + 1 < ErrorLimit + n
      BY <2>3 DEF Counted
    <3>. QED  BY <1>1, <2>1, <2>3, <3>1
  <2>. QED  BY <2>1, <2>2, <2>3
<1>3. Before(c.head) <= After(c.head)
  BY <1>1
<1>4. Counted(u, n + 1)
  <2>. SUFFICES ASSUME NEW i \in 1..Len(u.iterations), Streak(u.iterations, i)
                PROVE  /\ Len(u.iterations) - i + 1 <= After(u.iterations[i].head) + (n + 1)
                       /\ Len(u.iterations) - i + 1 < ErrorLimit + (n + 1)
    BY DEF Counted
  <2>1. PICK a \in Nat, b \in Nat : a = After(c.head) /\ b = Before(c.head) /\ b <= a
    BY <1>1, <1>3
  <2>2. After(u.iterations[i].head) = a
    BY <1>2, <2>1
  <2>3. /\ Len(u.iterations) - i + 1 = (L - i + 1) + 1
        /\ L - i + 1 <= b + n /\ L - i + 1 < ErrorLimit + n
    BY <1>2, <2>1
  <2>i. i \in Int
    BY <1>2
  <2>4. PICK k \in Int : k = L - i + 1
    <3>. HIDE DEF L
    <3>1. L - i + 1 \in Int
      BY <1>1, <2>i, SMT
    <3>. QED  BY <3>1, Zenon
  <2>j. k <= b + n /\ k < ErrorLimit + n
    BY <2>3, <2>4, Zenon
  <2>k. k <= b + n /\ k < ErrorLimit + n /\ b <= a /\ ErrorLimit \in Nat
    BY <1>1, <2>1, <2>j, Zenon
  <2>5. k + 1 <= a + (n + 1) /\ k + 1 < ErrorLimit + (n + 1)
    BY <2>k
  <2>. HIDE DEF After
  <2>. QED  BY <2>2, <2>3, <2>4, <2>5
<1>5. ASSUME u.last = c.head, u.same < ErrorLimit,
             u.same = IF c.head = s.last THEN s.same + 1 ELSE 1
      PROVE  Counted(u, n)
  <2>. SUFFICES ASSUME NEW i \in 1..Len(u.iterations), Streak(u.iterations, i)
                PROVE  /\ Len(u.iterations) - i + 1 <= After(u.iterations[i].head) + n
                       /\ Len(u.iterations) - i + 1 < ErrorLimit + n
    BY DEF Counted
  <2>1. PICK b \in Nat : b = Before(c.head) /\ u.same = b + 1
    BY <1>1, <1>5
  <2>2. After(u.iterations[i].head) = u.same
    BY <1>2, <1>5
  <2>3. /\ Len(u.iterations) - i + 1 = (L - i + 1) + 1
        /\ L - i + 1 <= b + n /\ L - i + 1 < ErrorLimit + n
    BY <1>2, <2>1
  <2>i. i \in Int
    BY <1>2
  <2>4. PICK k \in Int : k = L - i + 1
    <3>. HIDE DEF L
    <3>1. L - i + 1 \in Int
      BY <1>1, <2>i, SMT
    <3>. QED  BY <3>1, Zenon
  <2>k. k <= b + n /\ ErrorLimit \in Nat
    BY <1>1, <2>3, <2>4, Zenon
  <2>l. b + 1 < ErrorLimit
    BY <1>5, <2>1
  <2>m. k + 1 <= (b + 1) + n /\ k + 1 < ErrorLimit + n
    BY <2>k, <2>l
  <2>5. k + 1 <= u.same + n /\ k + 1 < ErrorLimit + n
    BY <2>1, <2>m
  <2>. HIDE DEF After
  <2>. QED  BY <2>2, <2>3, <2>4, <2>5
<1>. QED  BY <1>4, <1>5

(* The counters decide, not the rest of the loop's state.                  *)
LEMMA CountedFrame ==
  ASSUME NEW s, NEW u, NEW n, Counted(s, n),
         u.iterations = s.iterations, u.last = s.last, u.same = s.same
  PROVE  Counted(u, n)
  BY DEF Counted

(* Every step keeps ErrorsInv. *)
LEMMA ErrorsStep ==
  ASSUME Heads \cap OwnHeads = {}, ErrorLimit > 0
  PROVE  LoopInv /\ ErrorsInv /\ [Next]_vars => ErrorsInv'
<1>. SUFFICES ASSUME LoopInv, ErrorsInv, [Next]_vars PROVE ErrorsInv'
  OBVIOUS
<1>0. TypeOK /\ Undecided
  BY DEF LoopInv
<1>t. st \in LoopStates /\ (ckpt # None => ckpt \in LoopStates) /\ crashes \in Nat
  BY <1>0 DEF TypeOK
<1>u. pc \in Deciding => Counted(st, crashes)
  BY <1>0 DEF Undecided, Deciding, ErrorsInv, Uncounted
<1>c. pc # "return" /\ ckpt # None => Counted(ckpt, crashes)
  BY DEF ErrorsInv, UncountedSaved
<1>1. ASSUME NEW resume \in Resumes, Begin(resume) PROVE ErrorsInv'
  <2>1. /\ pc = "stopped" /\ pc' = "top" /\ stop' = "none" /\ UNCHANGED <<ckpt, crashes>>
        /\ st' = NewLoop \/ (ckpt # None /\ st' = ckpt)
    BY <1>1 DEF Begin, Restored
  <2>2. Counted(st', crashes)
    BY <1>c, <2>1, CountedNew
  <2>3. Uncounted' = crashes /\ UncountedSaved' = crashes
    BY <2>1 DEF Uncounted, UncountedSaved
  <2>. QED  BY <1>c, <2>1, <2>2, <2>3 DEF ErrorsInv
<1>2. CASE Halts
  <2>1. /\ pc = "top" /\ UNCHANGED <<st, ckpt, crashes>>
        /\ Uncounted' \in {crashes, crashes + 1}
        /\ UncountedSaved' \in {crashes, crashes + 1}
    BY <1>2 DEF Halts, history, Uncounted, UncountedSaved
  <2>2. Counted(st, crashes) /\ (ckpt # None => Counted(ckpt, crashes))
    BY <1>u, <1>c, <2>1 DEF Deciding
  <2>3. Counted(st, crashes + 1) /\ (ckpt # None => Counted(ckpt, crashes + 1))
    BY <1>t, <2>2, CountedMore
  <2>. QED  BY <2>1, <2>2, <2>3 DEF ErrorsInv
<1>3. ASSUME NEW heavy \in BOOLEAN, NEW ok \in Probes, Prepare(heavy, ok) PROVE ErrorsInv'
  <2>1. st'.iterations = st.iterations /\ st'.last = st.last /\ st'.same = st.same
    BY <1>3, <1>t, RoutedParts DEF Prepare
  <2>2. /\ pc = "top" /\ pc' = "act" /\ stop' = "none" /\ UNCHANGED <<ckpt, crashes>>
    BY <1>0, <1>3 DEF Prepare, history, Undecided, Deciding
  <2>3. Counted(st', crashes)
    BY <1>u, <2>1, <2>2, CountedFrame DEF Deciding
  <2>4. Uncounted' = crashes /\ UncountedSaved' = crashes
    BY <2>2 DEF Uncounted, UncountedSaved
  <2>. QED  BY <1>c, <2>2, <2>3, <2>4 DEF ErrorsInv
<1>4. ASSUME NEW t \in AgentTrees, NEW cost \in Costs, Act(t, cost) PROVE ErrorsInv'
  <2>1. st'.iterations = st.iterations /\ st'.last = st.last /\ st'.same = st.same
    BY <1>4, <1>t, SpentParts, LoopAssumption DEF Act
  <2>2. /\ pc = "act" /\ pc' = "verify" /\ stop' = "none" /\ UNCHANGED <<ckpt, crashes>>
    BY <1>0, <1>4 DEF Act, history, Undecided, Deciding
  <2>3. Counted(st', crashes)
    BY <1>u, <2>1, <2>2, CountedFrame DEF Deciding
  <2>4. Uncounted' = crashes /\ UncountedSaved' = crashes
    BY <2>2 DEF Uncounted, UncountedSaved
  <2>. QED  BY <1>c, <2>2, <2>3, <2>4 DEF ErrorsInv
<1>5. ASSUME pc' = "save", UNCHANGED ckpt, UNCHANGED crashes, pc # "return",
             NEW n, n = Uncounted', Counted(st', n)
      PROVE  ErrorsInv'
  BY <1>c, <1>5 DEF ErrorsInv, UncountedSaved
<1>6. ASSUME NEW files \in Touches, NEW head \in OwnHeads, NEW cost \in Costs \cup {0},
             Breaks(files, head, cost)
      PROVE  ErrorsInv'
  <2>. DEFINE c == [outcome |-> "loss", files |-> files, head |-> head]
  <2>1. /\ st' \in LoopStates /\ st'.iterations = Append(st.iterations, c)
        /\ pc' = "save" /\ pc # "return" /\ UNCHANGED <<ckpt, crashes>>
    BY <1>6 DEF Breaks, history
  <2>2. c \in Contracts /\ c.head \notin Heads
    BY DEF Contracts, AllHeads
  <2>3. Counted(st', Uncounted')
    BY <1>t, <2>1, <2>2, CountedBroken
  <2>. QED  BY <1>5, <2>1, <2>3
<1>7. ASSUME NEW files \in Touches, NEW ok \in Probes, Win(files, ok) PROVE ErrorsInv'
  <2>1. PICK head \in Heads :
          st' = Appended([outcome |-> "win", files |-> files, head |-> head])
    BY <1>7 DEF Win
  <2>. DEFINE c == [outcome |-> "win", files |-> files, head |-> head]
  <2>2. c \in Contracts /\ c.outcome # "loss"
    BY DEF Contracts, AllHeads
  <2>3. st' \in LoopStates /\ st'.iterations = Append(st.iterations, c)
    BY <1>t, <2>1, <2>2, AppendedParts
  <2>4. pc' = "save" /\ pc # "return" /\ UNCHANGED <<ckpt, crashes>>
    BY <1>7 DEF Win, history
  <2>5. Counted(st', Uncounted')
    BY <1>t, <2>2, <2>3, CountedBroken
  <2>. QED  BY <1>5, <2>4, <2>5
<1>8. ASSUME NEW files \in Touches, NEW head \in AllHeads, NEW vacuous \in BOOLEAN,
             Loses(files, head, vacuous)
      PROVE  ErrorsInv'
  <2>. DEFINE c == [outcome |-> "loss", files |-> files, head |-> head]
              counted == /\ st'.last = head
                         /\ st'.same = IF head = st.last THEN st.same + 1 ELSE 1
  <2>1. c \in Contracts /\ c.head = head
    BY DEF Contracts
  <2>2. /\ st' \in LoopStates /\ st'.iterations = Append(st.iterations, c)
        /\ pc = "verify" /\ pc' = "save" /\ UNCHANGED <<ckpt, crashes>>
        /\ stop' \in Breakers \cup {"none"}
        /\ \/ st'.last = st.last /\ st'.same = st.same /\ stop' # "none"
           \/ counted /\ (stop' = "none" => st'.same < ErrorLimit)
    BY <1>0, <1>8, LossParts DEF Loses, history
  <2>3. Counted(st, crashes)
    BY <1>u, <2>2 DEF Deciding
  <2>4. Counted(st', crashes + 1)
    BY <1>t, <2>1, <2>2, <2>3, CountedLoss
  <2>5. CASE stop' = "none"
    <3>1. Counted(st', crashes)
      BY <1>t, <2>1, <2>2, <2>3, <2>5, CountedLoss
    <3>2. Uncounted' = crashes
      BY <2>2, <2>5 DEF Uncounted
    <3>. QED  BY <1>5, <2>2, <3>1, <3>2
  <2>6. CASE stop' # "none"
    <3>1. Uncounted' = crashes + 1
      BY <2>2, <2>6 DEF Uncounted, Resumable, Breakers
    <3>. QED  BY <1>5, <2>2, <2>4, <3>1
  <2>. QED  BY <2>5, <2>6
<1>9. ASSUME NEW ok \in Saves, Save(ok) PROVE ErrorsInv'
  <2>1. /\ pc = "save" /\ UNCHANGED <<st, stop, crashes>>
        /\ ckpt' = st \/ ckpt' = ckpt
        /\ pc' = IF stop = "none" THEN "top" ELSE "return"
    BY <1>9 DEF Save, history
  <2>2. Counted(st, Uncounted) /\ (ckpt # None => Counted(ckpt, crashes))
    BY <1>c, <2>1 DEF ErrorsInv
  <2>3. ckpt # None => Counted(ckpt, crashes + 1)
    BY <1>t, <2>2, CountedMore
  <2>4. Uncounted' = Uncounted /\ UncountedSaved' = Uncounted /\ Uncounted \in {crashes, crashes + 1}
    BY <2>1 DEF Uncounted, UncountedSaved
  <2>. QED  BY <2>1, <2>2, <2>3, <2>4 DEF ErrorsInv
<1>10. CASE Return
  <2>1. /\ pc = "return" /\ pc' = "stopped" /\ UNCHANGED crashes
        /\ ckpt' = IF stop \in Resumable THEN ckpt ELSE None
    BY <1>10 DEF Return, KeepsCheckpoint, history
  <2>. QED  BY <2>1 DEF ErrorsInv, UncountedSaved
<1>11. CASE Crash
  <2>1. pc' = "stopped" /\ crashes' = crashes + 1 /\ UNCHANGED ckpt
    BY <1>11 DEF Crash
  <2>2. ckpt # None => Counted(ckpt, crashes + 1)
    <3>1. ckpt # None => Counted(ckpt, crashes) \/ Counted(ckpt, crashes + 1)
      BY DEF ErrorsInv, UncountedSaved
    <3>. QED  BY <1>t, <3>1, CountedMore
  <2>3. UncountedSaved' = crashes + 1
    BY <2>1 DEF UncountedSaved
  <2>. QED  BY <2>1, <2>2, <2>3 DEF ErrorsInv
<1>12. CASE UNCHANGED vars
  BY <1>12 DEF vars, ErrorsInv, Uncounted, UncountedSaved
<1>. QED
  BY <1>0, <1>1, <1>2, <1>3, <1>4, <1>6, <1>7, <1>8, <1>9, <1>10, <1>11, <1>12, StepKinds

(* A loop that goes on has not failed repeated_error_limit times in a row  *)
(* with the same output, one more for each death, across resumes and       *)
(* failed checkpoint writes, as long as no verifier prints a mark of the   *)
(* engine's own.                                                           *)
THEOREM ErrorsBoundedHolds ==
  ASSUME Heads \cap OwnHeads = {}
  PROVE  Spec => []ErrorsBounded
<1>1. CASE ErrorLimit > 0
  <2>1. Init => ErrorsInv
    BY DEF Init, ErrorsInv
  <2>2. LoopInv /\ ErrorsInv /\ [Next]_vars => ErrorsInv'
    BY <1>1, ErrorsStep
  <2>3. LoopInv /\ ErrorsInv => ErrorsBounded
    <3>. SUFFICES ASSUME LoopInv, ErrorsInv, pc = "top",
                         NEW i \in 1..Len(st.iterations), Streak(st.iterations, i)
                  PROVE  Len(st.iterations) - i + 1 < ErrorLimit + crashes
      BY DEF ErrorsBounded, Streak
    <3>1. Counted(st, crashes)
      BY DEF LoopInv, Undecided, Deciding, ErrorsInv, Uncounted
    <3>. QED  BY <3>1 DEF Counted
  <2>. QED  BY <2>1, <2>2, <2>3, LoopInvHolds, PTL DEF Spec
<1>2. CASE ~(ErrorLimit > 0)
  <2>1. ErrorsBounded
    BY <1>2 DEF ErrorsBounded
  <2>. QED  BY <2>1, PTL
<1>. QED  BY <1>1, <1>2

=============================================================================
