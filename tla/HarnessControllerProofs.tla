------------------------ MODULE HarnessControllerProofs ------------------------
(***************************************************************************)
(* Theorems about the controller's processes and the durable runs they     *)
(* share, for any number of processes, nodes, attempts and deaths.         *)
(*                                                                         *)
(* The invariant has two halves.  RunInv is about an attempt's durable     *)
(* files: what a used key says about the run, what a receipt says about    *)
(* it, what a completion rests on.  ProcInv is about one process: where it *)
(* stands in the walk and what it has therefore seen done.  A process is   *)
(* right about what another one did because what it relies on is final: a  *)
(* succeeded node, a terminal run, a sound execution.                      *)
(***************************************************************************)
EXTENDS HarnessController, RunCommandsProofs, TLAPS

(* A key that was used tells what became of the run.  (idempotency keys of *)
(* _execute and _succeed_pending_node)                                     *)
KeysTell(a) ==
  /\ runs[a].idem[<<"harness", "complete">>] # None => runs[a].state = "completed"
  /\ \A k \in {"fail", "proof-fail", "policy-block"} :
       runs[a].idem[<<"harness", k>>] # None => runs[a].state = "failed"
  /\ \A n \in Nodes :
       runs[a].idem[<<n, "complete">>] # None =>
         runs[a].nodes[n].state = "succeeded"

(* A receipt says what the run's state says.  (_persist_receipt) *)
ReceiptTells(a) ==
  /\ receipt[a].status = "completed" => runs[a].state = "completed"
  /\ receipt[a].status \in {"failed", "blocked"} => runs[a].state = "failed"

(* What is true of each attempt. *)
RunInv(a) == KeysTell(a) /\ ReceiptTells(a)

(* A completed run has all nodes succeeded and a sound loop execution. *)
CompletionEarned(a) ==
  runs[a].state = "completed" =>
    /\ \A i \in 1..Len(Order) : runs[a].nodes[Order[i]].state = "succeeded"
    /\ a \in good

(* Where a process stands in Order. *)
Position(p) ==
  /\ pc[p] \in {"idle", "resolve", "create", "start", "load", "unpause"} => idx[p] = 1
  /\ pc[p] \in {"node", "finish"} => idx[p] \in 1..Len(Order) /\ idx[p] # ExecPos
  /\ pc[p] \in {"execute", "loop", "fail-execute", "complete-execute"} =>
       idx[p] = ExecPos
  /\ pc[p] = "fail-running" => idx[p] \in 1..Len(Order)
  /\ pc[p] = "complete-run" => idx[p] = Len(Order) + 1

(* What a process saw succeed has succeeded. *)
SeenTrue(p) ==
  /\ \A n \in Nodes :
       seen[p][n] = "succeeded" => runs[att[p]].nodes[n].state = "succeeded"
  /\ pc[p] \in {"idle", "resolve"} => \A n \in Nodes : seen[p][n] # "succeeded"

(* The steps of the walk over the DAG. *)
Walking == {"node", "finish", "execute", "loop", "complete-execute", "complete-run"}

(* The nodes that the walk has passed have succeeded, whoever moved the    *)
(* run since.                                                              *)
Walked(p) ==
  pc[p] \in Walking =>
    \A i \in 1..(idx[p] - 1) : runs[att[p]].nodes[Order[i]].state = "succeeded"

(* What a process is about to report. *)
Judged(p) ==
  /\ out[p].verified <=> out[p].verdict = "passed"
  /\ out[p].verdict = "passed" => att[p] \in good
  /\ pc[p] \in {"idle", "resolve"} => out[p].verdict # "passed"
  /\ pc[p] \in {"node", "finish"} /\ idx[p] > ExecPos => out[p].verdict = "passed"
  /\ pc[p] = "complete-run" => out[p].verdict = "passed"
  /\ pc[p] \in {"fail-execute", "start-verify", "fail-verify", "fail-run"} =>
       out[p].verdict # "passed"
  /\ pc[p] = "receipt" =>
       runs[att[p]].state = IF out[p].verdict = "passed" THEN "completed" ELSE "failed"

(* A result is completed exactly when verified, and then the run is. *)
ReplyTrue(p) ==
  /\ reply[p].status = "completed" <=> reply[p].verified
  /\ reply[p].verified => runs[reply[p].run].state = "completed"

(* What is true of each process. *)
ProcInv(p) ==
  /\ Position(p)
  /\ SeenTrue(p)
  /\ Walked(p)
  /\ Judged(p)
  /\ ReplyTrue(p)

(* The inductive invariant for any number of processes and operators. *)
HarnessInv ==
  /\ TypeOK
  /\ \A a \in Attempts : RunInv(a)
  /\ \A p \in Clients : ProcInv(p)

(* No attempt was completed without having earned it. *)
AllEarned == \A a \in Attempts : CompletionEarned(a)

-----------------------------------------------------------------------------
(* One user at a time: a finished attempt has no process left that could   *)
(* still change it.                                                        *)
Active ==
  {"create", "start", "unpause", "node", "finish", "execute", "loop",
   "fail-execute", "complete-execute", "start-verify", "fail-verify",
   "fail-run", "complete-run", "handler", "fail-running", "fail-exception"}

(* With one process at a time: whoever executes an attempt has an          *)
(* unfinished run, and an unfinished run has no receipt yet.               *)
SoloInv ==
  /\ \A a \in Attempts :
       /\ runs[a].state = "cancelled" =>
            \A n \in Nodes : runs[a].nodes[n].state \in NodeTerminal
       /\ runs[a].state \notin {"failed", "completed"} => receipt[a].status = "none"
  /\ \A p \in Clients :
       /\ pc[p] \in Active => runs[att[p]].state \notin {"failed", "completed"}
       /\ pc[p] = "receipt" => receipt[att[p]].status = "none"

-----------------------------------------------------------------------------
(* The DAG order, commands and keys. *)

(* The fixed DAG: nodes before the execute node, and at least one after    *)
(* it.                                                                     *)
LEMMA OrderFacts ==
  /\ Order \in Seq(Nodes) /\ Len(Order) \in Nat
  /\ ExecPos \in Nat /\ 1 < ExecPos /\ ExecPos + 1 <= Len(Order)
  /\ Order[ExecPos] = "execute"
  /\ \A i \in 1..Len(Order) : Order[i] \in Nodes
<1>. DEFINE A == PreNodes \o <<"execute">>
<1>1. /\ PreNodes \in Seq(Nodes) /\ PostNodes \in Seq(Nodes) /\ "execute" \in Nodes
      /\ Len(PreNodes) \in Nat /\ Len(PostNodes) \in Nat
      /\ PreNodes # <<>> /\ Len(PostNodes) > 0
  BY HarnessAssumption
<1>2. Len(PreNodes) > 0
  BY <1>1
<1>3. A \in Seq(Nodes) /\ Len(A) = Len(PreNodes) + 1 /\ A[Len(PreNodes) + 1] = "execute"
  BY <1>1
<1>4. Order = A \o PostNodes
  BY DEF Order
<1>. HIDE DEF A
<1>5. Order \in Seq(Nodes) /\ Len(Order) = Len(A) + Len(PostNodes)
  <2>1. A \o PostNodes \in Seq(Nodes) /\ Len(A \o PostNodes) = Len(A) + Len(PostNodes)
    BY <1>1, <1>3
  <2>. QED  BY <1>4, <2>1
<1>6. Order[Len(A)] = A[Len(A)]
  BY <1>1, <1>3, <1>4
<1>7. \A i \in 1..Len(Order) : Order[i] \in Nodes
  BY <1>5
<1>. QED  BY <1>1, <1>2, <1>3, <1>5, <1>6, <1>7 DEF ExecPos

(* A run transition is a command, with its target. *)
LEMMA RunToCommand ==
  ASSUME NEW state \in RunTargets, NEW reason \in Reasons
  PROVE  /\ RunTo(state, reason) \in Commands
         /\ RunTo(state, reason).type = "run_transition"
         /\ RunTo(state, reason).to = state
  BY DEF RunTo, Commands, CommandsWith, RunCmds

(* A node transition is a command, with its node and target. *)
LEMMA NodeToCommand ==
  ASSUME NEW n \in Nodes, NEW state \in NodeTargets, NEW reason \in Reasons
  PROVE  /\ NodeTo(n, state, reason) \in Commands
         /\ NodeTo(n, state, reason).type = "node_transition"
         /\ NodeTo(n, state, reason).node = n
         /\ NodeTo(n, state, reason).to = state
  BY DEF NodeTo, Commands, CommandsWith, NodeCmds

(* So is the creation of a run. *)
LEMMA CreateCommand ==
  [type |-> "run_created"] \in Commands
  BY DEF Commands, CommandsWith, CreateCmds

(* The controller's fixed idempotency keys are keys. *)
LEMMA KeyTypes ==
  /\ \A k \in {"create", "start", "resume", "fail", "proof-fail", "policy-block",
               "complete", "exception"} : <<"harness", k>> \in Keys
  /\ \A n \in Nodes, k \in {"start", "complete", "fail", "policy-block", "exception"} :
       <<n, k>> \in Keys
  /\ \A i \in 1..MaxMoves : <<"operator", i>> \in Keys
  BY HarnessAssumption DEF HarnessKeys

(* The reasons and targets that the controller passes are known ones. *)
LEMMA ReasonTypes ==
  /\ {"none", "proof", "policy", "error"} \subseteq Reasons
  /\ StopReasons \subseteq Reasons
  /\ {"running", "completed", "failed"} \subseteq RunTargets
  /\ {"running", "succeeded", "failed"} \subseteq NodeTargets
  BY HarnessAssumption

(* The command recorded under a key that tells what became of the run is   *)
(* the one that made it so.                                                *)
KeyFits(cmd, key) ==
  /\ key = <<"harness", "complete">> =>
       cmd.type = "run_transition" /\ cmd.to = "completed"
  /\ \A k \in {"fail", "proof-fail", "policy-block"} :
       key = <<"harness", k>> => cmd.type = "run_transition" /\ cmd.to = "failed"
  /\ \A n \in Nodes :
       key = <<n, "complete">> =>
         cmd.type = "node_transition" /\ cmd.node = n /\ cmd.to = "succeeded"

(* What an admitted command of the controller makes of a run.              *)
LEMMA AfterParts ==
  ASSUME NEW s \in Snapshots, NEW cmd \in Commands, NEW key \in Keys,
         Admits(s, cmd, key)
  PROVE  LET t == After(s, cmd, key) IN
         /\ t \in Snapshots
         /\ \A k \in Keys : t.idem[k] = IF k = key THEN cmd ELSE s.idem[k]
         /\ s.state \in RunTerminal => t.state = s.state
         /\ \A n \in Nodes :
              s.nodes[n].state \in NodeTerminal => t.nodes[n].state = s.nodes[n].state
         /\ cmd.type = "run_transition" =>
              /\ t.state = cmd.to
              /\ cmd.to # "cancelled" => t.nodes = s.nodes
         /\ cmd.type = "node_transition" =>
              t.state = s.state /\ t.nodes[cmd.node].state = cmd.to
         /\ cmd.type \notin {"run_created", "run_transition"} => t.state = s.state
         /\ t.state # None
<1>. DEFINE e == EventOf(s, cmd, key, 0)
            t == Apply(s, e, 0)
<1>1. Permits(s, cmd, 0) /\ After(s, cmd, key) = t
  BY DEF Admits, After
<1>2. e.cmd = cmd /\ e.key = key
  BY DEF EventOf
<1>3. /\ t.state = StateAfter(s, e) /\ t.nodes = NodesAfter(s, e, 0)
      /\ t.idem = [s.idem EXCEPT ![key] = cmd]
  BY <1>2 DEF Apply
<1>4. t \in Snapshots /\ t.state # None
  BY <1>1, ApplyType, RunExistsAfter
<1>5. /\ s.state \in RunTerminal => t.state = s.state
      /\ \A n \in Nodes :
           s.nodes[n].state \in NodeTerminal => t.nodes[n].state = s.nodes[n].state
  BY <1>1, TerminalAfter
<1>6. \A k \in Keys : t.idem[k] = IF k = key THEN cmd ELSE s.idem[k]
  <2>1. s.idem \in [Keys -> Commands \cup {None}]
    BY DEF Snapshots
  <2>. HIDE DEF t
  <2>. QED  BY <1>3, <2>1
<1>7. cmd.type = "run_transition" =>
        t.state = cmd.to /\ (cmd.to # "cancelled" => t.nodes = s.nodes)
  BY <1>2, <1>3 DEF StateAfter, NodesAfter
<1>8. cmd.type = "node_transition" =>
        t.state = s.state /\ t.nodes[cmd.node].state = cmd.to
  <2>. SUFFICES ASSUME cmd.type = "node_transition"
                PROVE  t.state = s.state /\ t.nodes[cmd.node].state = cmd.to
    OBVIOUS
  <2>1. cmd.node \in Nodes /\ s.nodes \in [Nodes -> NodeSnapshots]
    BY CommandFields DEF Snapshots
  <2>2. t.state = s.state
    BY <1>2, <1>3 DEF StateAfter
  <2>3. t.nodes = [s.nodes EXCEPT ![cmd.node].state = cmd.to]
    BY <1>2, <1>3 DEF NodesAfter
  <2>. HIDE DEF t
  <2>. QED  BY <2>1, <2>2, <2>3 DEF NodeSnapshots
<1>9. cmd.type \notin {"run_created", "run_transition"} => t.state = s.state
  BY <1>2, <1>3 DEF StateAfter
<1>. HIDE DEF t
<1>. QED  BY <1>1, <1>4, <1>5, <1>6, <1>7, <1>8, <1>9

-----------------------------------------------------------------------------
(* Steps that write, and what they leave alone. *)

(* An admitted command was appended to attempt a. *)
Wrote(a, cmd, key) ==
  /\ Admits(runs[a], cmd, key)
  /\ runs' = [runs EXCEPT ![a] = After(runs[a], cmd, key)]

(* What everybody relies on stays. *)
Stable ==
  /\ \A a \in Attempts :
       /\ runs[a].state \in RunTerminal => runs'[a].state = runs[a].state
       /\ \A n \in Nodes :
            runs[a].nodes[n].state = "succeeded" =>
              runs'[a].nodes[n].state = "succeeded"
  /\ good \subseteq good'

(* A write moves one attempt, and what never goes back does not. *)
LEMMA WroteStable ==
  ASSUME TypeOK, NEW a \in Attempts, NEW cmd \in Commands, NEW key \in Keys,
         Wrote(a, cmd, key), good \subseteq good'
  PROVE  Stable /\ runs' \in [Attempts -> Snapshots]
         /\ runs'[a] = After(runs[a], cmd, key)
         /\ \A b \in Attempts \ {a} : runs'[b] = runs[b]
<1>1. runs \in [Attempts -> Snapshots]
  BY DEF TypeOK
<1>2. /\ After(runs[a], cmd, key) \in Snapshots
      /\ runs[a].state \in RunTerminal => After(runs[a], cmd, key).state = runs[a].state
      /\ \A n \in Nodes : runs[a].nodes[n].state = "succeeded" =>
           After(runs[a], cmd, key).nodes[n].state = "succeeded"
  BY <1>1, AfterParts DEF Wrote, NodeTerminal
<1>3. /\ runs' \in [Attempts -> Snapshots]
      /\ runs'[a] = After(runs[a], cmd, key)
      /\ \A b \in Attempts \ {a} : runs'[b] = runs[b]
  BY <1>1, <1>2 DEF Wrote
<1>. QED  BY <1>2, <1>3 DEF Stable

(* A write under a key that fits its command keeps what keys and receipts  *)
(* tell.                                                                   *)
LEMMA WroteRunInv ==
  ASSUME HarnessInv, NEW a \in Attempts, NEW cmd \in Commands, NEW key \in Keys,
         Wrote(a, cmd, key), KeyFits(cmd, key), receipt' = receipt, good \subseteq good',
         NEW b \in Attempts
  PROVE  RunInv(b)'
<1>. DEFINE s == runs[a]
            t == After(runs[a], cmd, key)
<1>1. /\ TypeOK /\ RunInv(a) /\ RunInv(b)
      /\ s \in Snapshots
  BY DEF HarnessInv, TypeOK
<1>2. /\ runs'[a] = t
      /\ b # a => runs'[b] = runs[b]
  BY <1>1, WroteStable
<1>3. /\ \A k \in Keys : t.idem[k] = IF k = key THEN cmd ELSE s.idem[k]
      /\ s.state \in RunTerminal => t.state = s.state
      /\ \A n \in Nodes :
           s.nodes[n].state \in NodeTerminal => t.nodes[n].state = s.nodes[n].state
      /\ cmd.type = "run_transition" => t.state = cmd.to
      /\ cmd.type = "node_transition" => t.nodes[cmd.node].state = cmd.to
  BY <1>1, AfterParts DEF Wrote
<1>. HIDE DEF s, t
<1>4. CASE b # a
  BY <1>1, <1>2, <1>4 DEF RunInv, KeysTell, ReceiptTells
<1>5. CASE b = a
  <2>0. runs[a] = s /\ RunTerminal = {"completed", "failed", "cancelled"}
        /\ "succeeded" \in NodeTerminal
    BY DEF s, RunTerminal, NodeTerminal
  <2>1. ReceiptTells(a)'
    BY <1>1, <1>2, <1>3, <2>0 DEF RunInv, ReceiptTells
  <2>2. t.idem[<<"harness", "complete">>] # None => t.state = "completed"
    BY <1>1, <1>3, <2>0, KeyTypes DEF RunInv, KeysTell, KeyFits
  <2>3. ASSUME NEW k \in {"fail", "proof-fail", "policy-block"}
        PROVE  t.idem[<<"harness", k>>] # None => t.state = "failed"
    BY SMTT(40), <1>1, <1>3, <2>0, KeyTypes DEF RunInv, KeysTell, KeyFits
  <2>4. ASSUME NEW n \in Nodes
        PROVE  t.idem[<<n, "complete">>] # None => t.nodes[n].state = "succeeded"
    BY ZenonT(60), <1>1, <1>3, <2>0, KeyTypes DEF RunInv, KeysTell, KeyFits
  <2>. QED  BY <1>2, <1>5, <2>1, <2>2, <2>3, <2>4 DEF RunInv, KeysTell
<1>. QED  BY <1>4, <1>5

(* A process is not disturbed by the steps of others.                      *)
Kept(q) ==
  /\ pc'[q] = pc[q] /\ att'[q] = att[q] /\ idx'[q] = idx[q]
  /\ seen'[q] = seen[q] /\ out'[q] = out[q] /\ reply'[q] = reply[q]

(* A process that does not move keeps its invariant while others write. *)
LEMMA KeptInv ==
  ASSUME HarnessInv, Stable, NEW q \in Clients, Kept(q)
  PROVE  ProcInv(q)'
<1>1. /\ ProcInv(q) /\ att[q] \in Attempts /\ reply[q].run \in Attempts
      /\ idx[q] \in 1..(Len(Order) + 1)
  BY DEF HarnessInv, TypeOK
<1>2. Position(q)'
  BY <1>1 DEF ProcInv, Position, Kept
<1>3. SeenTrue(q)'
  BY <1>1 DEF ProcInv, SeenTrue, Kept, Stable
<1>4. Walked(q)'
  <2>1. \A i \in 1..(idx[q] - 1) : Order[i] \in Nodes
    BY <1>1, OrderFacts
  <2>. QED  BY <1>1, <2>1 DEF ProcInv, Walked, Kept, Stable
<1>5. Judged(q)'
  BY <1>1 DEF ProcInv, Judged, Kept, Stable, RunTerminal
<1>6. ReplyTrue(q)'
  BY <1>1 DEF ProcInv, ReplyTrue, Kept, Stable, RunTerminal
<1>. QED  BY <1>2, <1>3, <1>4, <1>5, <1>6 DEF ProcInv

(* Without a write the attempts keep theirs. *)
LEMMA SameRunInv ==
  ASSUME HarnessInv, UNCHANGED runs, UNCHANGED receipt, NEW a \in Attempts
  PROVE  RunInv(a)'
  BY DEF HarnessInv, RunInv, KeysTell, ReceiptTells

(* What a store call does for everybody but its caller's place in the      *)
(* walk; it comes to the next step with the command in effect, now or      *)
(* earlier.                                                                *)
InEffect(p, cmd, key) ==
  Wrote(att[p], cmd, key) \/ (runs' = runs /\ runs[att[p]].idem[key] = cmd)

(* A store call, accepted, repeated or refused, keeps the types and every  *)
(* attempt's invariant.                                                    *)
LEMMA StoreCallStep ==
  ASSUME HarnessInv, NEW p \in Clients, NEW cmd \in Commands, NEW key \in Keys,
         NEW ok \in Steps \ {"idle", "resolve"}, NEW broken \in Steps \ {"idle", "resolve"},
         KeyFits(cmd, key), StoreCall(p, cmd, key, ok, broken),
         UNCHANGED <<receipt, att, out, reply, told, good, crashes>>,
         idx' \in [Clients -> 1..(Len(Order) + 1)],
         \A q \in Clients \ {p} : idx'[q] = idx[q]
  PROVE  /\ TypeOK'
         /\ \A a \in Attempts : RunInv(a)'
         /\ \A q \in Clients \ {p} : ProcInv(q)'
         /\ SeenTrue(p)' /\ ReplyTrue(p)'
         /\ Stable
         /\ \/ pc'[p] = broken
            \/ pc'[p] = ok /\ InEffect(p, cmd, key)
<1>. DEFINE a == att[p]
<1>1. /\ TypeOK /\ a \in Attempts /\ runs[a] \in Snapshots /\ ProcInv(p)
      /\ runs \in [Attempts -> Snapshots]
      /\ seen \in [Clients -> [Nodes -> NodeStates]] /\ pc \in [Clients -> Steps]
  BY DEF HarnessInv, TypeOK
<1>2. \/ /\ Wrote(a, cmd, key) \/ (runs' = runs /\ runs[a].idem[key] = cmd)
         /\ seen' = [seen EXCEPT ![p] = NodeStatesOf(runs'[a])]
         /\ pc' = [pc EXCEPT ![p] = ok]
      \/ /\ UNCHANGED <<runs, seen>>
         /\ pc' = [pc EXCEPT ![p] = broken]
  <2>1. CASE Admits(runs[a], cmd, key)
    <3>1. /\ runs' = [runs EXCEPT ![a] = After(runs[a], cmd, key)]
          /\ seen' = [seen EXCEPT ![p] = NodeStatesOf(After(runs[a], cmd, key))]
          /\ pc' = [pc EXCEPT ![p] = ok]
      BY <2>1 DEF StoreCall
    <3>2. runs'[a] = After(runs[a], cmd, key)
      BY <1>1, <3>1
    <3>. QED  BY <2>1, <3>1, <3>2 DEF Wrote
  <2>2. CASE ~Admits(runs[a], cmd, key) /\ Repeated(runs[a], cmd, key)
    <3>1. /\ runs' = [runs EXCEPT ![a] = runs[a]]
          /\ seen' = [seen EXCEPT ![p] = NodeStatesOf(runs[a])]
          /\ pc' = [pc EXCEPT ![p] = ok]
      BY <2>2 DEF StoreCall
    <3>2. runs' = runs
      BY <1>1, <3>1
    <3>. QED  BY <2>2, <3>1, <3>2 DEF Repeated
  <2>3. CASE ~Admits(runs[a], cmd, key) /\ ~Repeated(runs[a], cmd, key)
    BY <2>3 DEF StoreCall
  <2>. QED  BY <2>1, <2>2, <2>3
<1>3. Stable /\ runs' \in [Attempts -> Snapshots]
  <2>1. CASE Wrote(a, cmd, key)
    BY <1>1, <2>1, WroteStable
  <2>2. CASE runs' = runs
    BY <1>1, <2>2 DEF Stable
  <2>. QED  BY <1>2, <2>1, <2>2
<1>4. ASSUME NEW b \in Attempts PROVE RunInv(b)'
  <2>1. CASE Wrote(a, cmd, key)
    BY <1>1, <2>1, WroteRunInv
  <2>2. CASE runs' = runs
    BY <2>2, SameRunInv
  <2>. QED  BY <1>2, <2>1, <2>2
<1>5. NodeStatesOf(runs'[a]) \in [Nodes -> NodeStates]
  BY <1>1, <1>3 DEF NodeStatesOf, Snapshots, NodeSnapshots
<1>6. /\ seen' \in [Clients -> [Nodes -> NodeStates]] /\ pc' \in [Clients -> Steps]
      /\ \A q \in Clients \ {p} : seen'[q] = seen[q] /\ pc'[q] = pc[q]
  <2>1. CASE seen' = [seen EXCEPT ![p] = NodeStatesOf(runs'[a])] /\ pc' = [pc EXCEPT ![p] = ok]
    BY <1>1, <1>5, <2>1
  <2>2. CASE seen' = seen /\ pc' = [pc EXCEPT ![p] = broken]
    BY <1>1, <2>2
  <2>. QED  BY <1>2, <2>1, <2>2
<1>7. TypeOK'
  BY <1>1, <1>3, <1>6 DEF TypeOK
<1>8. ASSUME NEW q \in Clients \ {p} PROVE ProcInv(q)'
  <2>1. Kept(q)
    BY <1>6 DEF Kept
  <2>. QED  BY <1>3, <2>1, KeptInv
<1>9. pc'[p] = ok \/ pc'[p] = broken
  BY <1>1, <1>2
<1>10. SeenTrue(p)'
  <2>1. CASE seen' = [seen EXCEPT ![p] = NodeStatesOf(runs'[a])]
    <3>1. seen'[p] = NodeStatesOf(runs'[a])
      BY <1>1, <2>1
    <3>. QED  BY <1>9, <3>1 DEF SeenTrue, NodeStatesOf
  <2>2. CASE seen' = seen
    BY <1>1, <1>3, <1>9, <2>2 DEF ProcInv, SeenTrue, Stable
  <2>. QED  BY <1>2, <2>1, <2>2
<1>11. ReplyTrue(p)'
  <2>1. reply[p].run \in Attempts
    BY <1>1 DEF TypeOK
  <2>. QED  BY <1>1, <1>3, <2>1 DEF ProcInv, ReplyTrue, Stable, RunTerminal
<1>12. pc'[p] = broken \/ (pc'[p] = ok /\ InEffect(p, cmd, key))
  BY <1>1, <1>2 DEF InEffect
<1>. QED  BY <1>3, <1>4, <1>7, <1>8, <1>10, <1>11, <1>12

(* Together with the caller's own place that is the invariant. *)
LEMMA StoreCallInv ==
  ASSUME TypeOK', \A a \in Attempts : RunInv(a)', NEW p \in Clients,
         \A q \in Clients \ {p} : ProcInv(q)',
         Position(p)', SeenTrue(p)', Walked(p)', Judged(p)', ReplyTrue(p)'
  PROVE  HarnessInv'
  BY DEF HarnessInv, ProcInv

(* A step that only moves one process. *)
LEMMA LocalInv ==
  ASSUME HarnessInv, TypeOK', NEW p \in Clients, UNCHANGED <<runs, receipt>>,
         good \subseteq good', \A q \in Clients \ {p} : Kept(q), ProcInv(p)'
  PROVE  HarnessInv'
<1>1. Stable
  BY DEF Stable
<1>2. \A q \in Clients \ {p} : ProcInv(q)'
  BY <1>1, KeptInv
<1>3. \A a \in Attempts : RunInv(a)'
  BY SameRunInv
<1>. QED  BY <1>2, <1>3 DEF HarnessInv

(* The end of an invocation: nothing is kept but the answer.               *)
LEMMA ReplyStep ==
  ASSUME HarnessInv, NEW p \in Clients,
         NEW status \in {"none", "declined", "mismatch", "completed", "failed",
                         "blocked", "raised"},
         NEW verified \in BOOLEAN, NEW a \in Attempts,
         Reply(p, status, verified, a), UNCHANGED runs, UNCHANGED good,
         (status = "completed") <=> verified,
         verified => runs[a].state = "completed"
  PROVE  /\ pc' \in [Clients -> Steps] /\ att' \in [Clients -> Attempts]
         /\ idx' \in [Clients -> 1..(Len(Order) + 1)]
         /\ seen' \in [Clients -> [Nodes -> NodeStates]]
         /\ out' \in [Clients -> [verdict : Verdicts, reason : Reasons, verified : BOOLEAN]]
         /\ reply' \in [Clients ->
              [status : {"none", "declined", "mismatch", "completed", "failed",
                         "blocked", "raised"},
               verified : BOOLEAN, run : Attempts]]
         /\ \A q \in Clients : ProcInv(q)'
<1>1. TypeOK
  BY DEF HarnessInv
<1>2. 1 \in Attempts /\ 1 \in 1..(Len(Order) + 1)
  BY HarnessAssumption, OrderFacts DEF Attempts
<1>3. NodeStatesOf(NoRun) = [n \in Nodes |-> "pending"]
      /\ NodeStatesOf(NoRun) \in [Nodes -> NodeStates]
  BY DEF NodeStatesOf, NoRun, NodeStates
<1>4. NoOutcome \in [verdict : Verdicts, reason : Reasons, verified : BOOLEAN]
  BY ReasonTypes DEF NoOutcome, Verdicts
<1>5. /\ pc' \in [Clients -> Steps] /\ att' \in [Clients -> Attempts]
      /\ idx' \in [Clients -> 1..(Len(Order) + 1)]
      /\ seen' \in [Clients -> [Nodes -> NodeStates]]
      /\ out' \in [Clients -> [verdict : Verdicts, reason : Reasons, verified : BOOLEAN]]
  BY <1>1, <1>2, <1>3, <1>4 DEF Reply, TypeOK, Steps
<1>6. reply' \in [Clients ->
        [status : {"none", "declined", "mismatch", "completed", "failed",
                   "blocked", "raised"},
         verified : BOOLEAN, run : Attempts]]
  BY <1>1 DEF Reply, TypeOK
<1>7. /\ pc'[p] = "idle" /\ idx'[p] = 1 /\ seen'[p] = NodeStatesOf(NoRun)
      /\ out'[p] = NoOutcome
      /\ reply'[p] = [status |-> status, verified |-> verified, run |-> a]
  BY <1>1 DEF Reply, TypeOK
<1>8. ProcInv(p)'
  <2>1. Position(p)' /\ Walked(p)'
    BY <1>7 DEF Position, Walked, Walking
  <2>2. SeenTrue(p)'
    BY <1>3, <1>7 DEF SeenTrue
  <2>3. Judged(p)'
    BY <1>7 DEF Judged, NoOutcome
  <2>4. ReplyTrue(p)'
    BY <1>7 DEF ReplyTrue
  <2>. QED  BY <2>1, <2>2, <2>3, <2>4 DEF ProcInv
<1>9. ASSUME NEW q \in Clients, q # p PROVE ProcInv(q)'
  <2>1. Kept(q)
    BY <1>1, <1>9 DEF Reply, Kept, TypeOK
  <2>2. Stable
    BY DEF Stable
  <2>. QED  BY <2>1, <2>2, KeptInv
<1>. QED  BY <1>5, <1>6, <1>8, <1>9

(* An invocation that ends without touching the run. *)
LEMMA ReplyInv ==
  ASSUME HarnessInv, NEW p \in Clients,
         NEW status \in {"none", "declined", "mismatch", "completed", "failed",
                         "blocked", "raised"},
         NEW verified \in BOOLEAN, NEW a \in Attempts,
         Reply(p, status, verified, a), UNCHANGED <<runs, receipt, good>>,
         (status = "completed") <=> verified,
         verified => runs[a].state = "completed",
         told' \subseteq Attempts, crashes' \in 0..MaxCrashes
  PROVE  HarnessInv'
<1>1. TypeOK'
  BY SMTT(40), ReplyStep DEF HarnessInv, TypeOK
<1>2. \A q \in Clients : ProcInv(q)'
  BY ReplyStep
<1>3. \A b \in Attempts : RunInv(b)'
  BY SameRunInv
<1>. QED  BY <1>1, <1>2, <1>3 DEF HarnessInv

(* The walk's past stays true at the same position. *)
LEMMA WalkedOn ==
  ASSUME HarnessInv, Stable, NEW p \in Clients, pc[p] \in Walking,
         idx'[p] = idx[p], att'[p] = att[p]
  PROVE  Walked(p)'
<1>1. ProcInv(p) /\ att[p] \in Attempts /\ idx[p] \in 1..(Len(Order) + 1)
  BY DEF HarnessInv, TypeOK
<1>2. \A i \in 1..(idx[p] - 1) : Order[i] \in Nodes
  BY <1>1, OrderFacts
<1>. QED  BY <1>1, <1>2 DEF ProcInv, Walked, Stable

(* The walk may pass a node that has succeeded. *)
LEMMA WalkedNext ==
  ASSUME HarnessInv, Stable, NEW p \in Clients, pc[p] \in Walking,
         idx[p] \in 1..Len(Order), idx'[p] = idx[p] + 1, att'[p] = att[p],
         runs'[att[p]].nodes[Order[idx[p]]].state = "succeeded"
  PROVE  Walked(p)'
<1>1. ProcInv(p) /\ att[p] \in Attempts
  BY DEF HarnessInv, TypeOK
<1>2. \A i \in 1..(idx[p] - 1) : Order[i] \in Nodes
  BY OrderFacts
<1>3. \A i \in 1..(idx[p] - 1) : runs'[att[p]].nodes[Order[i]].state = "succeeded"
  BY <1>1, <1>2 DEF ProcInv, Walked, Stable
<1>4. \A i \in 1..(idx'[p] - 1) : i \in 1..(idx[p] - 1) \/ i = idx[p]
  BY OrderFacts
<1>. QED  BY <1>3, <1>4 DEF Walked

-----------------------------------------------------------------------------
(* Which commands go under which keys. *)

(* Keys that tell nothing fit any command. *)
LEMMA OtherKeyFits ==
  ASSUME NEW cmd, NEW k \in {"create", "start", "resume", "exception"}
  PROVE  KeyFits(cmd, <<"harness", k>>)
  BY HarnessAssumption DEF KeyFits

(* The key harness:complete stands for a completed run. *)
LEMMA CompleteKeyFits ==
  ASSUME NEW cmd, cmd.type = "run_transition", cmd.to = "completed"
  PROVE  KeyFits(cmd, <<"harness", "complete">>)
  BY HarnessAssumption DEF KeyFits

(* The failure keys stand for a failed run. *)
LEMMA FailKeyFits ==
  ASSUME NEW cmd, cmd.type = "run_transition", cmd.to = "failed",
         NEW k \in {"fail", "proof-fail", "policy-block"}
  PROVE  KeyFits(cmd, <<"harness", k>>)
  BY HarnessAssumption DEF KeyFits

(* The other node keys tell nothing. *)
LEMMA NodeKeyFits ==
  ASSUME NEW cmd, NEW n \in Nodes, NEW k \in {"start", "fail", "policy-block", "exception"}
  PROVE  KeyFits(cmd, <<n, k>>)
  BY HarnessAssumption DEF KeyFits

(* A node's complete key stands for a succeeded node. *)
LEMMA NodeCompleteFits ==
  ASSUME NEW cmd, NEW n \in Nodes, cmd.type = "node_transition", cmd.node = n,
         cmd.to = "succeeded"
  PROVE  KeyFits(cmd, <<n, "complete">>)
  BY HarnessAssumption DEF KeyFits

(* An operator's keys tell nothing. *)
LEMMA OperatorKeyFits ==
  ASSUME NEW cmd, NEW i \in 1..MaxMoves
  PROVE  KeyFits(cmd, <<"operator", i>>)
<1>1. "operator" # "harness" /\ "operator" \notin Nodes
  BY HarnessAssumption
<1>. QED  BY <1>1 DEF KeyFits

(* A store call, given what it does to the caller's own place.             *)
LEMMA CallInv ==
  ASSUME HarnessInv, NEW p \in Clients, NEW cmd \in Commands, NEW key \in Keys,
         NEW ok \in Steps \ {"idle", "resolve"}, NEW broken \in {"handler", "raise"},
         KeyFits(cmd, key), StoreCall(p, cmd, key, ok, broken),
         UNCHANGED <<receipt, att, out, reply, told, good, crashes>>,
         idx' \in [Clients -> 1..(Len(Order) + 1)],
         \A q \in Clients \ {p} : idx'[q] = idx[q],
         pc'[p] = ok /\ Stable /\ KeysTell(att[p])' /\ runs'[att[p]].idem[key] # None
           => Position(p)' /\ Walked(p)' /\ Judged(p)'
  PROVE  HarnessInv'
<1>1. "handler" \in Steps \ {"idle", "resolve"} /\ "raise" \in Steps \ {"idle", "resolve"}
  BY DEF Steps
<1>2. /\ TypeOK'
      /\ \A a \in Attempts : RunInv(a)'
      /\ \A q \in Clients \ {p} : ProcInv(q)'
      /\ SeenTrue(p)' /\ ReplyTrue(p)'
      /\ Stable
      /\ \/ pc'[p] = broken
         \/ pc'[p] = ok /\ InEffect(p, cmd, key)
  BY <1>1, StoreCallStep
<1>3. TypeOK /\ ProcInv(p) /\ att[p] \in Attempts /\ runs[att[p]] \in Snapshots
  BY DEF HarnessInv, TypeOK
<1>4. CASE pc'[p] = broken
  <2>1. Position(p)' /\ Walked(p)'
    BY <1>4 DEF Position, Walked, Walking
  <2>2. Judged(p)'
    BY <1>3, <1>4 DEF ProcInv, Judged
  <2>. QED  BY <1>2, <2>1, <2>2, StoreCallInv
<1>5. CASE pc'[p] = ok /\ InEffect(p, cmd, key)
  <2>1. cmd # None
    BY NoneAssumption
  <2>2. runs'[att[p]].idem[key] = cmd
    <3>1. CASE Wrote(att[p], cmd, key)
      <4>1. runs'[att[p]] = After(runs[att[p]], cmd, key)
        BY <1>3, <3>1, WroteStable
      <4>2. After(runs[att[p]], cmd, key).idem[key] = cmd
        BY <1>3, <3>1, AfterParts DEF Wrote
      <4>. QED  BY <4>1, <4>2
    <3>2. CASE runs' = runs /\ runs[att[p]].idem[key] = cmd
      BY <3>2
    <3>. QED  BY <1>5, <3>1, <3>2 DEF InEffect
  <2>3. KeysTell(att[p])'
    BY <1>2, <1>3 DEF RunInv
  <2>4. Position(p)' /\ Walked(p)' /\ Judged(p)'
    BY <1>2, <1>5, <2>1, <2>2, <2>3
  <2>. QED  BY <1>2, <2>4, StoreCallInv
<1>. QED  BY <1>2, <1>4, <1>5

-----------------------------------------------------------------------------
(* Creating, starting and resuming the run: the walk begins at its first   *)
(* node.                                                                   *)
LEMMA BeginInv ==
  ASSUME HarnessInv, NEW p \in Clients, NEW cmd \in Commands,
         NEW k \in {"create", "start", "resume"}, NEW ok \in {"start", "node"},
         pc[p] \in {"create", "start", "unpause"},
         StoreCall(p, cmd, <<"harness", k>>, ok, "raise"),
         UNCHANGED <<receipt, Local, Ghosts>>
  PROVE  HarnessInv'
<1>1. TypeOK /\ ProcInv(p) /\ idx[p] = 1
  BY DEF HarnessInv, ProcInv, Position
<1>2. KeyFits(cmd, <<"harness", k>>) /\ <<"harness", k>> \in Keys
  BY OtherKeyFits, KeyTypes
<1>3. ok \in Steps \ {"idle", "resolve"}
  BY DEF Steps
<1>4. ASSUME pc'[p] = ok PROVE Position(p)' /\ Walked(p)' /\ Judged(p)'
  <2>1. idx'[p] = 1 /\ out'[p] = out[p] /\ att'[p] = att[p] /\ good' = good
    BY <1>1 DEF Local, Ghosts
  <2>2. Position(p)'
    BY <1>4, <2>1, OrderFacts DEF Position
  <2>3. Walked(p)'
    BY <2>1 DEF Walked
  <2>4. Judged(p)'
    BY <1>1, <1>4, <2>1, OrderFacts DEF ProcInv, Judged
  <2>. QED  BY <2>2, <2>3, <2>4
<1>5. idx' \in [Clients -> 1..(Len(Order) + 1)] /\ \A q \in Clients : idx'[q] = idx[q]
  BY <1>1 DEF TypeOK, Local
<1>6. UNCHANGED <<receipt, att, out, reply, told, good, crashes>>
  BY DEF Local, Ghosts
<1>. QED  BY <1>2, <1>3, <1>4, <1>5, <1>6, CallInv

(* Create, Start and Unpause keep the invariant.  (_execute) *)
LEMMA CreateInv ==
  ASSUME HarnessInv, NEW p \in Clients, Create(p) \/ Start(p) \/ Unpause(p)
  PROVE  HarnessInv'
<1>1. RunTo("running", "none") \in Commands
  BY RunToCommand, ReasonTypes
<1>2. CASE Create(p)
  BY <1>2, BeginInv, CreateCommand DEF Create
<1>3. CASE Start(p)
  BY <1>1, <1>3, BeginInv DEF Start
<1>4. CASE Unpause(p)
  BY <1>1, <1>4, BeginInv DEF Unpause
<1>. QED  BY <1>2, <1>3, <1>4

-----------------------------------------------------------------------------
(* The walk. *)

(* StartNode keeps the invariant.  (_succeed_pending_node) *)
LEMMA StartNodeInv ==
  ASSUME HarnessInv, NEW p \in Clients, StartNode(p)
  PROVE  HarnessInv'
<1>. DEFINE cmd == NodeTo(Here(p), "running", "none")
<1>1. TypeOK /\ ProcInv(p) /\ pc[p] = "node" /\ idx[p] \in 1..Len(Order) /\ idx[p] # ExecPos
  BY DEF HarnessInv, ProcInv, Position, StartNode
<1>2. Here(p) \in Nodes /\ <<Here(p), "start">> \in Keys
  BY <1>1, OrderFacts, KeyTypes DEF Here
<1>3. cmd \in Commands /\ KeyFits(cmd, <<Here(p), "start">>)
  BY <1>2, NodeToCommand, NodeKeyFits, ReasonTypes
<1>4. "finish" \in Steps \ {"idle", "resolve"}
  BY DEF Steps
<1>5. ASSUME pc'[p] = "finish", Stable PROVE Position(p)' /\ Walked(p)' /\ Judged(p)'
  <2>1. idx'[p] = idx[p] /\ out'[p] = out[p] /\ att'[p] = att[p] /\ good' = good
    BY <1>1 DEF StartNode, Local, Ghosts
  <2>2. Position(p)'
    BY <1>1, <1>5, <2>1 DEF Position
  <2>3. Walked(p)'
    BY <1>1, <1>5, <2>1, WalkedOn DEF Walking
  <2>4. Judged(p)'
    BY <1>1, <1>5, <2>1 DEF ProcInv, Judged
  <2>. QED  BY <2>2, <2>3, <2>4
<1>6. idx' \in [Clients -> 1..(Len(Order) + 1)] /\ \A q \in Clients : idx'[q] = idx[q]
  BY <1>1 DEF StartNode, TypeOK, Local
<1>7. /\ UNCHANGED <<receipt, att, out, reply, told, good, crashes>>
      /\ StoreCall(p, cmd, <<Here(p), "start">>, "finish", "handler")
  BY DEF StartNode, Local, Ghosts
<1>. HIDE DEF cmd
<1>. QED  BY <1>2, <1>3, <1>4, <1>5, <1>6, <1>7, CallInv

(* Going on from a node that has succeeded.  Past the loop that needs the  *)
(* verdict, before it nothing.                                             *)
LEMMA NextPlace ==
  ASSUME HarnessInv, NEW p \in Clients, pc[p] \in {"node", "finish"}, Stable,
         idx'[p] = idx[p] + 1, pc'[p] = PcAfterNode(p),
         out'[p] = out[p], att'[p] = att[p], good' = good,
         runs'[att[p]].nodes[Here(p)].state = "succeeded"
  PROVE  Position(p)' /\ Walked(p)' /\ Judged(p)'
<1>1. /\ TypeOK /\ ProcInv(p) /\ idx[p] \in 1..Len(Order) /\ idx[p] # ExecPos
      /\ idx[p] \in Nat
  BY OrderFacts DEF HarnessInv, ProcInv, Position
<1>2. \/ pc'[p] = "execute" /\ idx[p] + 1 = ExecPos
      \/ pc'[p] = "complete-run" /\ idx[p] = Len(Order) /\ idx[p] > ExecPos
      \/ pc'[p] = "node" /\ idx[p] + 1 # ExecPos /\ idx[p] # Len(Order)
  BY <1>1, OrderFacts DEF PcAfterNode
<1>3. Walked(p)'
  BY <1>1, WalkedNext DEF Walking, Here
<1>4. Position(p)'
  <2>1. idx[p] # Len(Order) => idx[p] + 1 \in 1..Len(Order)
    BY <1>1, OrderFacts
  <2>2. CASE pc'[p] = "execute" /\ idx[p] + 1 = ExecPos
    BY <2>2 DEF Position
  <2>3. CASE pc'[p] = "complete-run" /\ idx[p] = Len(Order)
    BY <2>3 DEF Position
  <2>4. CASE pc'[p] = "node" /\ idx[p] + 1 # ExecPos /\ idx[p] # Len(Order)
    BY <2>1, <2>4 DEF Position
  <2>. QED  BY <1>2, <2>2, <2>3, <2>4
<1>5. idx[p] + 1 > ExecPos => idx[p] > ExecPos \/ idx[p] = ExecPos
  BY <1>1, OrderFacts
<1>6. Judged(p)'
  BY <1>1, <1>2, <1>5 DEF ProcInv, Judged
<1>. QED  BY <1>3, <1>4, <1>6

(* FinishNode keeps the invariant.  (_succeed_pending_node) *)
LEMMA FinishNodeInv ==
  ASSUME HarnessInv, NEW p \in Clients, FinishNode(p)
  PROVE  HarnessInv'
<1>. DEFINE cmd == NodeTo(Here(p), "succeeded", "none")
<1>1. /\ TypeOK /\ ProcInv(p) /\ pc[p] \in {"node", "finish"}
      /\ idx[p] \in 1..Len(Order) /\ att[p] \in Attempts
  BY DEF HarnessInv, TypeOK, ProcInv, Position, FinishNode
<1>2. Here(p) \in Nodes /\ <<Here(p), "complete">> \in Keys
  BY <1>1, OrderFacts, KeyTypes DEF Here
<1>3. cmd \in Commands /\ KeyFits(cmd, <<Here(p), "complete">>)
  BY <1>2, NodeToCommand, NodeCompleteFits, ReasonTypes
<1>4. PcAfterNode(p) \in Steps \ {"idle", "resolve"}
  BY DEF PcAfterNode, Steps
<1>5. PICK k \in Nat : k = idx[p] /\ k + 1 \in 1..(Len(Order) + 1)
  BY <1>1, OrderFacts
<1>6. /\ idx' \in [Clients -> 1..(Len(Order) + 1)] /\ idx'[p] = idx[p] + 1
      /\ \A q \in Clients \ {p} : idx'[q] = idx[q]
  BY <1>1, <1>5 DEF FinishNode, TypeOK
<1>7. /\ UNCHANGED <<receipt, att, out, reply, told, good, crashes>>
      /\ StoreCall(p, cmd, <<Here(p), "complete">>, PcAfterNode(p), "handler")
  BY DEF FinishNode, Ghosts
<1>8. ASSUME pc'[p] = PcAfterNode(p), Stable, KeysTell(att[p])',
             runs'[att[p]].idem[<<Here(p), "complete">>] # None
      PROVE  Position(p)' /\ Walked(p)' /\ Judged(p)'
  <2>1. runs'[att[p]].nodes[Here(p)].state = "succeeded"
    BY <1>2, <1>7, <1>8 DEF KeysTell
  <2>. QED  BY <1>1, <1>6, <1>7, <1>8, <2>1, NextPlace
<1>. HIDE DEF cmd
<1>. QED  BY <1>2, <1>3, <1>4, <1>6, <1>7, <1>8, CallInv

(* SkipNode keeps the invariant.  (_succeed_pending_node) *)
LEMMA SkipNodeInv ==
  ASSUME HarnessInv, NEW p \in Clients, SkipNode(p)
  PROVE  HarnessInv'
<1>1. /\ TypeOK /\ ProcInv(p) /\ pc[p] = "node"
      /\ idx[p] \in 1..Len(Order) /\ att[p] \in Attempts
  BY DEF HarnessInv, TypeOK, ProcInv, Position, SkipNode
<1>2. Here(p) \in Nodes
  BY <1>1, OrderFacts DEF Here
<1>3. PcAfterNode(p) \in Steps \ {"idle", "resolve"}
  BY DEF PcAfterNode, Steps
<1>4. PICK k \in Nat : k = idx[p] /\ k + 1 \in 1..(Len(Order) + 1)
  BY <1>1, OrderFacts
<1>5. /\ idx' \in [Clients -> 1..(Len(Order) + 1)] /\ idx'[p] = idx[p] + 1
      /\ \A q \in Clients \ {p} : idx'[q] = idx[q]
  BY <1>1, <1>4 DEF SkipNode, TypeOK
<1>6. /\ pc' \in [Clients -> Steps] /\ pc'[p] = PcAfterNode(p)
      /\ \A q \in Clients \ {p} : pc'[q] = pc[q]
  BY <1>1, <1>3 DEF SkipNode, TypeOK
<1>7. UNCHANGED <<runs, receipt, att, seen, out, reply, told, good, crashes>>
  BY DEF SkipNode, Ghosts
<1>8. TypeOK'
  BY <1>1, <1>5, <1>6, <1>7 DEF TypeOK
<1>9. Stable /\ \A q \in Clients \ {p} : Kept(q)
  BY <1>5, <1>6, <1>7 DEF Stable, Kept
<1>10. runs'[att[p]].nodes[Here(p)].state = "succeeded"
  BY <1>1, <1>2, <1>7 DEF SkipNode, ProcInv, SeenTrue
<1>11. Position(p)' /\ Walked(p)' /\ Judged(p)'
  BY <1>1, <1>5, <1>6, <1>7, <1>9, <1>10, NextPlace
<1>12. SeenTrue(p)' /\ ReplyTrue(p)'
  BY <1>1, <1>3, <1>6, <1>7 DEF ProcInv, SeenTrue, ReplyTrue
<1>. QED  BY <1>7, <1>8, <1>9, <1>11, <1>12, LocalInv DEF ProcInv

-----------------------------------------------------------------------------
(* The loop and its verdict. *)

(* A process whose answer, outcome and attempt stay goes to a step that    *)
(* its place allows.                                                       *)
LEMMA MoveInv ==
  ASSUME HarnessInv, NEW p \in Clients, NEW to \in Steps \ {"idle", "resolve"},
         pc' = [pc EXCEPT ![p] = to],
         UNCHANGED <<runs, receipt, att, idx, seen, out, reply, told, good, crashes>>,
         Position(p)', Walked(p)', Judged(p)'
  PROVE  HarnessInv'
<1>1. TypeOK /\ ProcInv(p)
  BY DEF HarnessInv
<1>2. pc' \in [Clients -> Steps] /\ pc'[p] = to /\ \A q \in Clients \ {p} : pc'[q] = pc[q]
  BY <1>1 DEF TypeOK
<1>3. TypeOK'
  BY <1>1, <1>2 DEF TypeOK
<1>4. \A q \in Clients \ {p} : Kept(q)
  BY <1>2 DEF Kept
<1>5. SeenTrue(p)' /\ ReplyTrue(p)'
  BY <1>1, <1>2 DEF ProcInv, SeenTrue, ReplyTrue
<1>. QED  BY <1>3, <1>4, <1>5, LocalInv DEF ProcInv

(* StartExecute keeps the invariant.  (_execute (execute node)) *)
LEMMA StartExecuteInv ==
  ASSUME HarnessInv, NEW p \in Clients, StartExecute(p)
  PROVE  HarnessInv'
<1>. DEFINE cmd == NodeTo("execute", "running", "none")
<1>1. TypeOK /\ ProcInv(p) /\ pc[p] = "execute" /\ idx[p] = ExecPos
  BY DEF HarnessInv, ProcInv, Position, StartExecute
<1>2. "execute" \in Nodes /\ <<"execute", "start">> \in Keys
  BY HarnessAssumption, KeyTypes
<1>3. cmd \in Commands /\ KeyFits(cmd, <<"execute", "start">>)
  BY <1>2, NodeToCommand, NodeKeyFits, ReasonTypes
<1>4. "loop" \in Steps \ {"idle", "resolve"}
  BY DEF Steps
<1>5. UNCHANGED <<receipt, att, idx, out, reply, told, good, crashes>>
  BY DEF StartExecute, Local, Ghosts
<1>6. ASSUME pc'[p] = "loop", Stable PROVE Position(p)' /\ Walked(p)' /\ Judged(p)'
  <2>1. Position(p)'
    BY <1>1, <1>5, <1>6 DEF Position
  <2>2. Walked(p)'
    BY <1>1, <1>5, <1>6, WalkedOn DEF Walking
  <2>3. Judged(p)'
    BY <1>1, <1>5, <1>6 DEF ProcInv, Judged
  <2>. QED  BY <2>1, <2>2, <2>3
<1>7. idx' \in [Clients -> 1..(Len(Order) + 1)] /\ \A q \in Clients : idx'[q] = idx[q]
  BY <1>1, <1>5 DEF TypeOK
<1>8. CASE seen[p]["execute"] = "pending"
  <2>1. StoreCall(p, cmd, <<"execute", "start">>, "loop", "handler")
    BY <1>8 DEF StartExecute
  <2>. HIDE DEF cmd
  <2>. QED  BY <1>2, <1>3, <1>4, <1>5, <1>6, <1>7, <2>1, CallInv
<1>9. CASE seen[p]["execute"] # "pending"
  <2>1. pc' = [pc EXCEPT ![p] = "loop"] /\ UNCHANGED <<runs, seen>>
    BY <1>9 DEF StartExecute
  <2>2. Stable /\ pc'[p] = "loop"
    BY <1>1, <1>5, <2>1 DEF Stable, TypeOK
  <2>. QED  BY <1>4, <1>5, <1>6, <2>1, <2>2, MoveInv
<1>. QED  BY <1>8, <1>9

(* LoopRaises keeps the invariant.  (_execute (except)) *)
LEMMA LoopRaisesInv ==
  ASSUME HarnessInv, NEW p \in Clients, LoopRaises(p)
  PROVE  HarnessInv'
<1>1. TypeOK /\ ProcInv(p) /\ "handler" \in Steps \ {"idle", "resolve"}
  BY DEF HarnessInv, Steps
<1>2. /\ pc' = [pc EXCEPT ![p] = "handler"] /\ pc'[p] = "handler"
      /\ UNCHANGED <<runs, receipt, att, idx, seen, out, reply, told, good, crashes>>
  BY <1>1 DEF LoopRaises, Local, Ghosts, TypeOK
<1>3. Position(p)' /\ Walked(p)'
  BY <1>2 DEF Position, Walked, Walking
<1>4. Judged(p)'
  BY <1>1, <1>2 DEF ProcInv, Judged
<1>. QED  BY <1>1, <1>2, <1>3, <1>4, MoveInv

(* The gate passes nothing but sound evidence, and reports it as verified. *)
(* (completion.py, compute_verified)                                       *)
LEMMA PassedSound ==
  ASSUME NEW ev \in Evidence
  PROVE  /\ Verdict(ev) \in Verdicts
         /\ Verdict(ev) = "passed" => Sound(ev) /\ Verified(ev) /\ ev.converged
         /\ ~ev.converged => Verdict(ev) = "unconverged"
<1>1. /\ ev.converged \in BOOLEAN /\ ev.changed \in BOOLEAN /\ ev.falseGreen \in BOOLEAN
      /\ ev.allowed \in BOOLEAN /\ ev.approvals \in BOOLEAN /\ ev.monitor \in BOOLEAN
      /\ ev = [converged |-> ev.converged, verifier |-> ev.verifier,
               changed |-> ev.changed, falseGreen |-> ev.falseGreen,
               allowed |-> ev.allowed, approvals |-> ev.approvals,
               monitor |-> ev.monitor]
  BY DEF Evidence
<1>2. Verdict(ev) = "passed" => ev.converged /\ ProofComplete(ev) /\ PolicyOk(ev)
  BY <1>1 DEF Verdict
<1>3. Verdict(ev) \in Verdicts
  BY DEF Verdict, Verdicts
<1>4. ~ev.converged => Verdict(ev) = "unconverged"
  BY DEF Verdict
<1>5. ASSUME ProofComplete(ev), PolicyOk(ev) PROVE Sound(ev) /\ Verified(ev)
  <2>1. /\ ev.converged = TRUE /\ ev.changed = TRUE /\ ev.verifier = "pass"
        /\ ev.falseGreen = FALSE /\ ev.allowed = TRUE /\ ev.approvals = FALSE
        /\ ev.monitor = FALSE
    BY <1>1, <1>5 DEF ProofComplete, PolicyOk
  <2>. QED  BY <1>1, <1>5, <2>1 DEF Sound, Verified
<1>. QED  BY <1>2, <1>3, <1>4, <1>5

(* LoopEnds keeps the invariant.  (_execute (loop and gate)) *)
LEMMA LoopEndsInv ==
  ASSUME HarnessInv, NEW p \in Clients, NEW ev \in Evidence,
         NEW reason \in StopReasons \cup {"none"}, LoopEnds(p, ev, reason)
  PROVE  HarnessInv'
<1>. DEFINE o == [verdict |-> Verdict(ev), reason |-> reason,
                  verified |-> Verdict(ev) = "passed" /\ Verified(ev)]
            to == IF ev.converged THEN "complete-execute" ELSE "fail-execute"
<1>1. /\ TypeOK /\ ProcInv(p) /\ pc[p] = "loop" /\ idx[p] = ExecPos
      /\ att[p] \in Attempts
  BY DEF HarnessInv, TypeOK, ProcInv, Position, LoopEnds
<1>2. o \in [verdict : Verdicts, reason : Reasons, verified : BOOLEAN]
  BY PassedSound, ReasonTypes
<1>3. /\ (Verdict(ev) = "passed" /\ Verified(ev)) <=> Verdict(ev) = "passed"
      /\ o.verdict = Verdict(ev)
      /\ o.verified = (Verdict(ev) = "passed" /\ Verified(ev))
  BY PassedSound
<1>4. (o.verified <=> o.verdict = "passed") /\ (o.verdict = "passed" => Sound(ev) /\ ev.converged)
  BY <1>3, PassedSound
<1>5. /\ out' = [out EXCEPT ![p] = o]
      /\ good' = IF Sound(ev) THEN good \cup {att[p]} ELSE good
      /\ pc' = [pc EXCEPT ![p] = to]
      /\ UNCHANGED <<runs, receipt, att, idx, seen, reply, told, crashes>>
  BY DEF LoopEnds
<1>. HIDE DEF o
<1>6. /\ to \in Steps /\ pc' \in [Clients -> Steps] /\ pc'[p] = to
      /\ \A q \in Clients \ {p} : pc'[q] = pc[q]
  BY <1>1, <1>5 DEF Steps, TypeOK
<1>7. /\ out' \in [Clients -> [verdict : Verdicts, reason : Reasons, verified : BOOLEAN]]
      /\ out'[p] = o /\ \A q \in Clients \ {p} : out'[q] = out[q]
  BY <1>1, <1>2, <1>5 DEF TypeOK
<1>8. good' \subseteq Attempts /\ good \subseteq good' /\ (Sound(ev) => att[p] \in good')
  BY <1>1, <1>5 DEF TypeOK
<1>9. TypeOK'
  BY <1>1, <1>5, <1>6, <1>7, <1>8 DEF TypeOK
<1>10. Stable /\ \A q \in Clients \ {p} : Kept(q)
  BY <1>5, <1>6, <1>7, <1>8 DEF Stable, Kept
<1>11. Position(p)'
  BY <1>1, <1>5, <1>6 DEF Position
<1>12. Walked(p)'
  BY <1>1, <1>5, <1>10, WalkedOn DEF Walking
<1>13. Judged(p)'
  <2>1. to = "complete-execute" \/ (to = "fail-execute" /\ ~ev.converged)
    OBVIOUS
  <2>. HIDE DEF to
  <2>. QED  BY <1>4, <1>5, <1>6, <1>7, <1>8, <2>1 DEF Judged
<1>14. SeenTrue(p)' /\ ReplyTrue(p)'
  BY <1>1, <1>5, <1>6 DEF ProcInv, SeenTrue, ReplyTrue
<1>. QED  BY <1>5, <1>8, <1>9, <1>10, <1>11, <1>12, <1>13, <1>14, LocalInv DEF ProcInv

-----------------------------------------------------------------------------
(* Settling the run. *)

(* The steps after the verdict, which no longer walk the DAG. *)
Settling ==
  {"fail-run", "fail-verify", "receipt", "fail-exception", "error"}

(* A store call that leaves the walk. *)
LEMMA SettleInv ==
  ASSUME HarnessInv, NEW p \in Clients, NEW cmd \in Commands, NEW key \in Keys,
         NEW ok \in Settling, NEW broken \in {"handler", "raise"},
         KeyFits(cmd, key), StoreCall(p, cmd, key, ok, broken),
         UNCHANGED <<receipt, Local, Ghosts>>,
         ok \in {"fail-run", "fail-verify"} => out[p].verdict # "passed",
         ASSUME ok = "receipt", KeysTell(att[p])', runs'[att[p]].idem[key] # None
         PROVE  runs'[att[p]].state =
                  IF out[p].verdict = "passed" THEN "completed" ELSE "failed"
  PROVE  HarnessInv'
<1>1. TypeOK /\ ProcInv(p) /\ ok \in Steps \ {"idle", "resolve"}
  BY DEF HarnessInv, Settling, Steps
<1>2. UNCHANGED <<receipt, att, idx, out, reply, told, good, crashes>>
  BY DEF Local, Ghosts
<1>3. ASSUME pc'[p] = ok, KeysTell(att[p])', runs'[att[p]].idem[key] # None
      PROVE  Position(p)' /\ Walked(p)' /\ Judged(p)'
  <2>1. Position(p)' /\ Walked(p)'
    BY <1>3 DEF Position, Walked, Walking, Settling
  <2>2. pc'[p] = "receipt" =>
          runs'[att[p]].state = IF out[p].verdict = "passed" THEN "completed" ELSE "failed"
    BY <1>3
  <2>3. Judged(p)'
    BY <1>1, <1>2, <1>3, <2>2 DEF ProcInv, Judged, Settling
  <2>. QED  BY <2>1, <2>3
<1>4. idx' \in [Clients -> 1..(Len(Order) + 1)] /\ \A q \in Clients : idx'[q] = idx[q]
  BY <1>1, <1>2 DEF TypeOK
<1>. QED  BY <1>1, <1>2, <1>3, <1>4, CallInv

(* FailExecute keeps the invariant.  (_execute (not converged)) *)
LEMMA FailExecuteInv ==
  ASSUME HarnessInv, NEW p \in Clients, FailExecute(p)
  PROVE  HarnessInv'
<1>. DEFINE cmd == NodeTo("execute", "failed", out[p].reason)
<1>1. out[p].reason \in Reasons /\ out[p].verdict # "passed"
  BY DEF HarnessInv, TypeOK, ProcInv, Judged, FailExecute
<1>2. "execute" \in Nodes /\ <<"execute", "fail">> \in Keys
  BY HarnessAssumption, KeyTypes
<1>3. cmd \in Commands /\ KeyFits(cmd, <<"execute", "fail">>)
  BY <1>1, <1>2, NodeToCommand, NodeKeyFits, ReasonTypes
<1>4. /\ StoreCall(p, cmd, <<"execute", "fail">>, "fail-run", "handler")
      /\ UNCHANGED <<receipt, Local, Ghosts>>
  BY DEF FailExecute
<1>. HIDE DEF cmd
<1>5. "fail-run" \in Settling /\ "fail-run" # "receipt"
  BY DEF Settling
<1>. QED  BY <1>1, <1>2, <1>3, <1>4, <1>5, SettleInv

(* StartVerify keeps the invariant.  (_execute (proof incomplete, policy   *)
(* block))                                                                 *)
LEMMA StartVerifyInv ==
  ASSUME HarnessInv, NEW p \in Clients, StartVerify(p)
  PROVE  HarnessInv'
<1>. DEFINE cmd == NodeTo("verify", "running", "none")
<1>1. out[p].verdict # "passed"
  BY DEF HarnessInv, ProcInv, Judged, StartVerify
<1>2. "verify" \in Nodes /\ <<"verify", "start">> \in Keys
  BY HarnessAssumption, KeyTypes
<1>3. cmd \in Commands /\ KeyFits(cmd, <<"verify", "start">>)
  BY <1>2, NodeToCommand, NodeKeyFits, ReasonTypes
<1>4. /\ StoreCall(p, cmd, <<"verify", "start">>, "fail-verify", "handler")
      /\ UNCHANGED <<receipt, Local, Ghosts>>
  BY DEF StartVerify
<1>. HIDE DEF cmd
<1>5. "fail-verify" \in Settling /\ "fail-verify" # "receipt"
  BY DEF Settling
<1>. QED  BY <1>1, <1>2, <1>3, <1>4, <1>5, SettleInv

(* FailVerify keeps the invariant.  (_execute (proof incomplete; the       *)
(* policy block at 1066 is alike))                                         *)
LEMMA FailVerifyInv ==
  ASSUME HarnessInv, NEW p \in Clients, FailVerify(p)
  PROVE  HarnessInv'
<1>1. out[p].verdict # "passed"
  BY DEF HarnessInv, ProcInv, Judged, FailVerify
<1>2. "verify" \in Nodes
  BY HarnessAssumption
<1>3. PICK reason \in {"proof", "policy"}, k \in {"fail", "policy-block"} :
        StoreCall(p, NodeTo("verify", "failed", reason), <<"verify", k>>,
                  "fail-run", "handler")
  BY DEF FailVerify
<1>. DEFINE cmd == NodeTo("verify", "failed", reason)
<1>4. <<"verify", k>> \in Keys /\ cmd \in Commands /\ KeyFits(cmd, <<"verify", k>>)
  <2>1. k \in {"start", "complete", "fail", "policy-block", "exception"}
        /\ k \in {"start", "fail", "policy-block", "exception"}
        /\ reason \in Reasons /\ "failed" \in NodeTargets
    BY ReasonTypes
  <2>2. <<"verify", k>> \in Keys
    BY <1>2, <2>1, KeyTypes
  <2>3. cmd \in Commands
    BY <1>2, <2>1, NodeToCommand
  <2>4. KeyFits(cmd, <<"verify", k>>)
    BY <1>2, <2>1, NodeKeyFits
  <2>. QED  BY <2>2, <2>3, <2>4
<1>5. StoreCall(p, cmd, <<"verify", k>>, "fail-run", "handler")
  BY <1>3
<1>. HIDE DEF cmd
<1>6. "fail-run" \in Settling /\ "fail-run" # "receipt" /\ UNCHANGED <<receipt, Local, Ghosts>>
  BY DEF Settling, FailVerify
<1>. QED  BY <1>1, <1>4, <1>5, <1>6, SettleInv

(* FailRun keeps the invariant.  (_execute (not converged; alike at 1030   *)
(* and 1072))                                                              *)
LEMMA FailRunInv ==
  ASSUME HarnessInv, NEW p \in Clients, FailRun(p)
  PROVE  HarnessInv'
<1>1. /\ out[p].verdict # "passed" /\ att[p] \in Attempts /\ out[p].reason \in Reasons
      /\ UNCHANGED <<receipt, Local, Ghosts>>
  BY DEF HarnessInv, TypeOK, ProcInv, Judged, FailRun
<1>2. PICK reason \in Reasons, k \in {"fail", "proof-fail", "policy-block"} :
        StoreCall(p, RunTo("failed", reason), <<"harness", k>>, "receipt", "handler")
  <2>1. CASE out[p].verdict = "unconverged"
    <3>1. StoreCall(p, RunTo("failed", out[p].reason), <<"harness", "fail">>,
                    "receipt", "handler")
      BY <2>1 DEF FailRun
    <3>. QED  BY <1>1, <3>1
  <2>2. CASE out[p].verdict = "unproven"
    <3>1. StoreCall(p, RunTo("failed", "proof"), <<"harness", "proof-fail">>,
                    "receipt", "handler")
      BY <2>2 DEF FailRun
    <3>. QED  BY <3>1, ReasonTypes
  <2>3. CASE out[p].verdict \notin {"unconverged", "unproven"}
    <3>1. StoreCall(p, RunTo("failed", "policy"), <<"harness", "policy-block">>,
                    "receipt", "handler")
      BY <2>3 DEF FailRun
    <3>. QED  BY <3>1, ReasonTypes
  <2>. QED  BY <2>1, <2>2, <2>3
<1>. DEFINE cmd == RunTo("failed", reason)
<1>3. <<"harness", k>> \in Keys /\ cmd \in Commands /\ KeyFits(cmd, <<"harness", k>>)
  <2>1. "failed" \in RunTargets
    BY ReasonTypes
  <2>2. cmd \in Commands /\ cmd.type = "run_transition" /\ cmd.to = "failed"
    BY <2>1, RunToCommand
  <2>3. <<"harness", k>> \in Keys
    BY KeyTypes
  <2>. HIDE DEF cmd
  <2>4. KeyFits(cmd, <<"harness", k>>)
    BY <2>2, FailKeyFits
  <2>. QED  BY <2>2, <2>3, <2>4
<1>4. StoreCall(p, cmd, <<"harness", k>>, "receipt", "handler") /\ att' = att
  BY <1>1, <1>2 DEF Local
<1>. HIDE DEF cmd
<1>5. "receipt" \in Settling
  BY DEF Settling
<1>6. ASSUME KeysTell(att[p])', runs'[att[p]].idem[<<"harness", k>>] # None
      PROVE  runs'[att[p]].state =
               IF out[p].verdict = "passed" THEN "completed" ELSE "failed"
  BY <1>1, <1>4, <1>6 DEF KeysTell
<1>. QED  BY <1>1, <1>3, <1>4, <1>5, <1>6, SettleInv

(* CompleteRun keeps the invariant.  (_execute (success)) *)
LEMMA CompleteRunInv ==
  ASSUME HarnessInv, NEW p \in Clients, CompleteRun(p)
  PROVE  HarnessInv'
<1>. DEFINE cmd == RunTo("completed", "none")
<1>1. out[p].verdict = "passed" /\ UNCHANGED <<receipt, Local, Ghosts>>
  BY DEF HarnessInv, ProcInv, Judged, CompleteRun
<1>2. /\ <<"harness", "complete">> \in Keys /\ cmd \in Commands
      /\ KeyFits(cmd, <<"harness", "complete">>)
  BY KeyTypes, RunToCommand, CompleteKeyFits, ReasonTypes
<1>3. StoreCall(p, cmd, <<"harness", "complete">>, "receipt", "handler") /\ att' = att
  BY <1>1 DEF CompleteRun, Local
<1>. HIDE DEF cmd
<1>4. "receipt" \in Settling /\ "receipt" \notin {"fail-run", "fail-verify"}
  BY DEF Settling
<1>5. ASSUME KeysTell(att[p])', runs'[att[p]].idem[<<"harness", "complete">>] # None
      PROVE  runs'[att[p]].state =
               IF out[p].verdict = "passed" THEN "completed" ELSE "failed"
  BY <1>1, <1>3, <1>5 DEF KeysTell
<1>. QED  BY <1>1, <1>2, <1>3, <1>4, <1>5, SettleInv

(* FailRunning keeps the invariant.  (_execute (except)) *)
LEMMA FailRunningInv ==
  ASSUME HarnessInv, NEW p \in Clients, FailRunning(p)
  PROVE  HarnessInv'
<1>. DEFINE cmd == NodeTo(Here(p), "failed", "error")
<1>1. idx[p] \in 1..Len(Order) /\ UNCHANGED <<receipt, Local, Ghosts>>
  BY DEF HarnessInv, ProcInv, Position, FailRunning
<1>2. Here(p) \in Nodes /\ <<Here(p), "exception">> \in Keys
  BY <1>1, OrderFacts, KeyTypes DEF Here
<1>3. cmd \in Commands /\ KeyFits(cmd, <<Here(p), "exception">>)
  BY <1>2, NodeToCommand, NodeKeyFits, ReasonTypes
<1>4. StoreCall(p, cmd, <<Here(p), "exception">>, "fail-exception", "raise")
  BY DEF FailRunning
<1>. HIDE DEF cmd
<1>5. "fail-exception" \in Settling /\ "fail-exception" \notin {"receipt", "fail-run", "fail-verify"}
  BY DEF Settling
<1>. QED  BY <1>1, <1>2, <1>3, <1>4, <1>5, SettleInv

(* FailException keeps the invariant.  (_execute (except)) *)
LEMMA FailExceptionInv ==
  ASSUME HarnessInv, NEW p \in Clients, FailException(p)
  PROVE  HarnessInv'
<1>. DEFINE cmd == RunTo("failed", "error")
<1>1. UNCHANGED <<receipt, Local, Ghosts>>
  BY DEF FailException
<1>2. /\ <<"harness", "exception">> \in Keys /\ cmd \in Commands
      /\ KeyFits(cmd, <<"harness", "exception">>)
  BY KeyTypes, RunToCommand, OtherKeyFits, ReasonTypes
<1>3. StoreCall(p, cmd, <<"harness", "exception">>, "error", "raise")
  BY DEF FailException
<1>. HIDE DEF cmd
<1>4. "error" \in Settling /\ "error" \notin {"receipt", "fail-run", "fail-verify"}
  BY DEF Settling
<1>. QED  BY <1>1, <1>2, <1>3, <1>4, SettleInv

(* CompleteExecute keeps the invariant.  (_execute) *)
LEMMA CompleteExecuteInv ==
  ASSUME HarnessInv, NEW p \in Clients, CompleteExecute(p)
  PROVE  HarnessInv'
<1>. DEFINE cmd == NodeTo("execute", "succeeded", "none")
            key == <<"execute", "complete">>
            ok  == IF out[p].verdict = "passed" THEN "node" ELSE "start-verify"
<1>1. /\ TypeOK /\ ProcInv(p) /\ pc[p] = "complete-execute" /\ idx[p] = ExecPos
      /\ att[p] \in Attempts
  BY DEF HarnessInv, TypeOK, ProcInv, Position, CompleteExecute
<1>2. "execute" \in Nodes /\ key \in Keys
  BY HarnessAssumption, KeyTypes
<1>3. cmd \in Commands /\ KeyFits(cmd, key)
  BY <1>2, NodeToCommand, NodeCompleteFits, ReasonTypes
<1>4. ok \in Steps \ {"idle", "resolve"}
  BY DEF Steps
<1>5. PICK k \in Nat : k = ExecPos + 1 /\ k \in 1..Len(Order) /\ k \in 1..(Len(Order) + 1)
  BY OrderFacts
<1>6. /\ idx' \in [Clients -> 1..(Len(Order) + 1)] /\ idx'[p] = ExecPos + 1
      /\ \A q \in Clients \ {p} : idx'[q] = idx[q]
  BY <1>1, <1>5 DEF CompleteExecute, TypeOK
<1>7. /\ UNCHANGED <<receipt, att, out, reply, told, good, crashes>>
      /\ StoreCall(p, cmd, key, ok, "handler")
  BY DEF CompleteExecute, Ghosts
<1>8. ASSUME pc'[p] = ok, Stable, KeysTell(att[p])', runs'[att[p]].idem[key] # None
      PROVE  Position(p)' /\ Walked(p)' /\ Judged(p)'
  <2>1. runs'[att[p]].nodes["execute"].state = "succeeded"
    BY <1>2, <1>7, <1>8 DEF KeysTell
  <2>2. idx[p] \in 1..Len(Order) /\ Order[idx[p]] = "execute" /\ idx'[p] = idx[p] + 1
    BY <1>1, <1>6, OrderFacts
  <2>3. Walked(p)'
    BY <1>1, <1>7, <1>8, <2>1, <2>2, WalkedNext DEF Walking
  <2>4. Position(p)'
    BY <1>5, <1>6, <1>8, OrderFacts DEF Position
  <2>5. Judged(p)'
    BY <1>1, <1>7, <1>8 DEF ProcInv, Judged
  <2>. QED  BY <2>3, <2>4, <2>5
<1>. HIDE DEF cmd, key, ok
<1>. QED  BY <1>2, <1>3, <1>4, <1>6, <1>7, <1>8, CallInv

-----------------------------------------------------------------------------
(* Invocations that begin, look around and end. *)

(* An invocation that begins. *)
LEMMA BegunInv ==
  ASSUME HarnessInv, NEW p \in Clients, Fresh(p) \/ Resume(p)
  PROVE  HarnessInv'
<1>1. TypeOK /\ ProcInv(p) /\ pc[p] = "idle" /\ 1 \in Attempts
  BY HarnessAssumption DEF HarnessInv, Fresh, Resume, Attempts
<1>2. PICK to \in {"resolve", "load"} : pc' = [pc EXCEPT ![p] = to]
  BY DEF Fresh, Resume
<1>3. /\ reply' = [reply EXCEPT ![p] = NoReply]
      /\ UNCHANGED <<runs, receipt, att, idx, seen, out, told, good, crashes>>
  BY DEF Fresh, Resume, Ghosts
<1>4. to \in Steps /\ pc' \in [Clients -> Steps] /\ pc'[p] = to
      /\ \A q \in Clients \ {p} : pc'[q] = pc[q]
  BY <1>1, <1>2 DEF Steps, TypeOK
<1>5. /\ reply' \in [Clients ->
           [status : {"none", "declined", "mismatch", "completed", "failed",
                      "blocked", "raised"},
            verified : BOOLEAN, run : Attempts]]
      /\ reply'[p] = NoReply /\ \A q \in Clients \ {p} : reply'[q] = reply[q]
  BY <1>1, <1>3 DEF TypeOK, NoReply
<1>6. TypeOK'
  BY <1>1, <1>3, <1>4, <1>5 DEF TypeOK
<1>7. \A q \in Clients \ {p} : Kept(q)
  BY <1>3, <1>4, <1>5 DEF Kept
<1>8. Position(p)' /\ Walked(p)'
  BY <1>1, <1>3, <1>4 DEF ProcInv, Position, Walked, Walking
<1>9. SeenTrue(p)'
  BY <1>1, <1>3, <1>4 DEF ProcInv, SeenTrue
<1>10. Judged(p)' /\ ReplyTrue(p)'
  BY <1>1, <1>3, <1>4, <1>5 DEF ProcInv, Judged, ReplyTrue, NoReply
<1>. QED  BY <1>3, <1>6, <1>7, <1>8, <1>9, <1>10, LocalInv DEF ProcInv

(* ResolveFree keeps the invariant.  (_resolve_fresh_run_id) *)
LEMMA ResolveFreeInv ==
  ASSUME HarnessInv, NEW p \in Clients, ResolveFree(p)
  PROVE  HarnessInv'
<1>1. TypeOK /\ ProcInv(p) /\ pc[p] = "resolve" /\ "create" \in Steps \ {"idle", "resolve"}
  BY DEF HarnessInv, ResolveFree, Steps
<1>2. /\ pc' = [pc EXCEPT ![p] = "create"] /\ pc'[p] = "create"
      /\ UNCHANGED <<runs, receipt, att, idx, seen, out, reply, told, good, crashes>>
  BY <1>1 DEF ResolveFree, Local, Ghosts, TypeOK
<1>3. Position(p)' /\ Walked(p)'
  BY <1>1, <1>2 DEF ProcInv, Position, Walked, Walking
<1>4. Judged(p)'
  BY <1>1, <1>2 DEF ProcInv, Judged
<1>. QED  BY <1>1, <1>2, <1>3, <1>4, MoveInv

(* ResolveNext keeps the invariant.  (_resolve_fresh_run_id) *)
LEMMA ResolveNextInv ==
  ASSUME HarnessInv, NEW p \in Clients, ResolveNext(p)
  PROVE  HarnessInv'
<1>1. TypeOK /\ ProcInv(p) /\ pc[p] = "resolve" /\ att[p] \in Attempts
  BY DEF HarnessInv, TypeOK, ResolveNext
<1>2. PICK k \in Nat : k = att[p] /\ k + 1 \in Attempts
  BY <1>1, HarnessAssumption DEF ResolveNext, Attempts
<1>3. UNCHANGED <<runs, receipt, pc, idx, seen, out, reply, told, good, crashes>>
  BY DEF ResolveNext, Ghosts
<1>4. att' \in [Clients -> Attempts] /\ \A q \in Clients \ {p} : att'[q] = att[q]
  BY <1>1, <1>2 DEF ResolveNext, TypeOK
<1>5. TypeOK'
  BY <1>1, <1>3, <1>4 DEF TypeOK
<1>6. \A q \in Clients \ {p} : Kept(q)
  BY <1>3, <1>4 DEF Kept
<1>7. Position(p)' /\ Walked(p)'
  BY <1>1, <1>3 DEF ProcInv, Position, Walked, Walking
<1>8. SeenTrue(p)' /\ ReplyTrue(p)'
  BY <1>1, <1>3 DEF ProcInv, SeenTrue, ReplyTrue
<1>9. Judged(p)'
  BY <1>1, <1>3 DEF ProcInv, Judged
<1>. QED  BY <1>3, <1>5, <1>6, <1>7, <1>8, <1>9, LocalInv DEF ProcInv

(* Load keeps the invariant.  (_execute (resume)) *)
LEMMA LoadInv ==
  ASSUME HarnessInv, NEW p \in Clients, Load(p)
  PROVE  HarnessInv'
<1>. DEFINE ns == NodeStatesOf(runs[att[p]])
<1>1. /\ TypeOK /\ ProcInv(p) /\ pc[p] = "load" /\ att[p] \in Attempts
      /\ runs[att[p]] \in Snapshots
  BY DEF HarnessInv, TypeOK, Load
<1>2. PICK to \in {"start", "node", "unpause"} : pc' = [pc EXCEPT ![p] = to]
  BY DEF Load
<1>3. /\ UNCHANGED <<runs, receipt, att, idx, out, reply, told, good, crashes>>
      /\ seen' = [seen EXCEPT ![p] = ns]
  BY DEF Load, Local, Ghosts
<1>4. ns \in [Nodes -> NodeStates]
  BY <1>1 DEF NodeStatesOf, Snapshots, NodeSnapshots
<1>5. to \in Steps /\ pc' \in [Clients -> Steps] /\ pc'[p] = to
      /\ \A q \in Clients \ {p} : pc'[q] = pc[q]
  BY <1>1, <1>2 DEF Steps, TypeOK
<1>6. /\ seen' \in [Clients -> [Nodes -> NodeStates]] /\ seen'[p] = ns
      /\ \A q \in Clients \ {p} : seen'[q] = seen[q]
  <2>. HIDE DEF ns
  <2>. QED  BY <1>1, <1>3, <1>4 DEF TypeOK
<1>7. TypeOK'
  BY <1>1, <1>3, <1>5, <1>6 DEF TypeOK
<1>8. \A q \in Clients \ {p} : Kept(q)
  BY <1>3, <1>5, <1>6 DEF Kept
<1>9. idx'[p] = 1
  BY <1>1, <1>3 DEF ProcInv, Position
<1>10. Position(p)' /\ Walked(p)'
  BY <1>5, <1>9, OrderFacts DEF Position, Walked
<1>11. SeenTrue(p)'
  BY <1>3, <1>5, <1>6 DEF SeenTrue, NodeStatesOf
<1>12. Judged(p)'
  BY <1>1, <1>3, <1>5, <1>9, OrderFacts DEF ProcInv, Judged
<1>13. ReplyTrue(p)'
  BY <1>1, <1>3 DEF ProcInv, ReplyTrue
<1>. QED  BY <1>3, <1>7, <1>8, <1>10, <1>11, <1>12, <1>13, LocalInv DEF ProcInv

(* Handler keeps the invariant.  (_execute (except)) *)
LEMMA HandlerInv ==
  ASSUME HarnessInv, NEW p \in Clients, Handler(p)
  PROVE  HarnessInv'
<1>. DEFINE s == runs[att[p]]
            i == CHOOSE j \in FirstRunning(s) : TRUE
<1>1. /\ TypeOK /\ ProcInv(p) /\ pc[p] = "handler" /\ att[p] \in Attempts
      /\ UNCHANGED <<runs, receipt, told, good, crashes>>
  BY DEF HarnessInv, TypeOK, Handler, Ghosts
<1>2. CASE s.state = "running" /\ FirstRunning(s) # {}
  <2>1. /\ idx' = [idx EXCEPT ![p] = i] /\ pc' = [pc EXCEPT ![p] = "fail-running"]
        /\ UNCHANGED <<att, seen, out, reply>>
    BY <1>2 DEF Handler
  <2>2. i \in 1..Len(Order)
    BY <1>2 DEF FirstRunning
  <2>3. i \in 1..(Len(Order) + 1)
    BY <2>2, OrderFacts
  <2>. HIDE DEF i
  <2>4. /\ idx' \in [Clients -> 1..(Len(Order) + 1)] /\ idx'[p] = i
        /\ \A q \in Clients \ {p} : idx'[q] = idx[q]
    BY <1>1, <2>1, <2>3 DEF TypeOK
  <2>5. /\ pc' \in [Clients -> Steps] /\ pc'[p] = "fail-running"
        /\ \A q \in Clients \ {p} : pc'[q] = pc[q]
    BY <1>1, <2>1 DEF Steps, TypeOK
  <2>6. TypeOK' /\ \A q \in Clients \ {p} : Kept(q)
    BY <1>1, <2>1, <2>4, <2>5 DEF TypeOK, Kept
  <2>7. Position(p)' /\ Walked(p)'
    BY <2>2, <2>4, <2>5 DEF Position, Walked, Walking
  <2>8. SeenTrue(p)' /\ ReplyTrue(p)'
    BY <1>1, <2>1, <2>5 DEF ProcInv, SeenTrue, ReplyTrue
  <2>9. Judged(p)'
    BY <1>1, <2>1, <2>5 DEF ProcInv, Judged
  <2>. QED  BY <1>1, <2>6, <2>7, <2>8, <2>9, LocalInv DEF ProcInv
<1>3. CASE s.state = "running" /\ FirstRunning(s) = {}
  <2>1. /\ pc' = [pc EXCEPT ![p] = "fail-exception"]
        /\ UNCHANGED <<att, idx, seen, out, reply>>
    BY <1>3 DEF Handler
  <2>2. pc'[p] = "fail-exception" /\ "fail-exception" \in Steps \ {"idle", "resolve"}
    BY <1>1, <2>1 DEF TypeOK, Steps
  <2>3. Position(p)' /\ Walked(p)'
    BY <2>2 DEF Position, Walked, Walking
  <2>4. Judged(p)'
    BY <1>1, <2>1, <2>2 DEF ProcInv, Judged
  <2>. QED  BY <1>1, <2>1, <2>2, <2>3, <2>4, MoveInv
<1>4. CASE s.state # "running"
  <2>1. Reply(p, "failed", FALSE, att[p])
    BY <1>4 DEF Handler
  <2>2. told' \subseteq Attempts /\ crashes' \in 0..MaxCrashes
    BY <1>1 DEF TypeOK
  <2>. QED  BY <1>1, <2>1, <2>2, ReplyInv
<1>. QED  BY <1>2, <1>3, <1>4

(* Invocations that end with an answer and leave the run and the receipt.  *)
LEMMA AnswerInv ==
  ASSUME HarnessInv, NEW p \in Clients,
         \/ Decline(p) \/ (\E a \in Attempts : ResumeAttempt(p, a))
         \/ ResolveTooMany(p) \/ ResolveBusy(p)
         \/ LoadTerminal(p) \/ LoadRefused(p) \/ Fail(p) \/ Crash(p)
  PROVE  HarnessInv'
<1>1. /\ TypeOK /\ att[p] \in Attempts /\ 1 \in Attempts
      /\ told \subseteq Attempts /\ crashes \in 0..MaxCrashes
      /\ receipt[att[p]].verified \in BOOLEAN
  BY HarnessAssumption DEF HarnessInv, TypeOK, Attempts
<1>2. CASE Decline(p)
  <2>1. Reply(p, "declined", FALSE, 1) /\ UNCHANGED <<runs, receipt, told, good, crashes>>
    BY <1>2 DEF Decline, Ghosts
  <2>. QED  BY <1>1, <2>1, ReplyInv
<1>3. ASSUME NEW a \in Attempts, ResumeAttempt(p, a) PROVE HarnessInv'
  <2>1. Reply(p, "mismatch", FALSE, a) /\ UNCHANGED <<runs, receipt, told, good, crashes>>
    BY <1>3 DEF ResumeAttempt, Ghosts
  <2>. QED  BY <1>1, <2>1, ReplyInv
<1>4. CASE ResolveTooMany(p)
  <2>1. Reply(p, "failed", FALSE, 1) /\ UNCHANGED <<runs, receipt, told, good, crashes>>
    BY <1>4 DEF ResolveTooMany, Ghosts
  <2>. QED  BY <1>1, <2>1, ReplyInv
<1>5. CASE ResolveBusy(p)
  <2>1. /\ Reply(p, "failed", FALSE, att[p]) /\ UNCHANGED <<runs, receipt, good, crashes>>
        /\ told' \subseteq Attempts
    BY <1>1, <1>5 DEF ResolveBusy
  <2>. QED  BY <1>1, <2>1, ReplyInv
<1>6. CASE LoadTerminal(p)
  <2>1. PICK done \in BOOLEAN :
          done <=> (runs[att[p]].state = "completed" /\ receipt[att[p]].verified)
    OBVIOUS
  <2>2. Reply(p, IF done THEN "completed" ELSE "failed", done, att[p])
    <3>1. (runs[att[p]].state = "completed" /\ receipt[att[p]].verified) = done
      BY <1>1, <2>1
    <3>. QED  BY <1>6, <3>1, Zenon DEF LoadTerminal
  <2>3. UNCHANGED <<runs, receipt, told, good, crashes>>
    BY <1>6 DEF LoadTerminal, Ghosts
  <2>4. CASE done
    <3>1. Reply(p, "completed", TRUE, att[p])
      <4>1. done = TRUE
        BY <2>4
      <4>. QED  BY <2>2, <4>1
    <3>. QED  BY <1>1, <2>1, <2>3, <2>4, <3>1, ReplyInv
  <2>5. CASE ~done
    <3>1. Reply(p, "failed", FALSE, att[p])
      <4>1. done = FALSE
        BY <2>5
      <4>. QED  BY <2>2, <4>1
    <3>. QED  BY <1>1, <2>3, <3>1, ReplyInv
  <2>. QED  BY <2>4, <2>5
<1>7. CASE LoadRefused(p) \/ Fail(p)
  <2>1. PICK status \in {"failed", "raised"} : Reply(p, status, FALSE, att[p])
    BY <1>7 DEF LoadRefused, Fail
  <2>2. UNCHANGED <<runs, receipt, told, good, crashes>>
    BY <1>7 DEF LoadRefused, Fail, Ghosts
  <2>. QED  BY <1>1, <2>1, <2>2, ReplyInv
<1>8. CASE Crash(p)
  <2>1. Reply(p, "none", FALSE, 1) /\ UNCHANGED <<runs, receipt, told, good>>
    BY <1>8 DEF Crash
  <2>2. crashes' \in 0..MaxCrashes
    BY <1>1, <1>8, HarnessAssumption DEF Crash
  <2>. QED  BY <1>1, <2>1, <2>2, ReplyInv
<1>. QED  BY <1>2, <1>3, <1>4, <1>5, <1>6, <1>7, <1>8

(* The receipt is written, in part or not at all, after the transition     *)
(* that it reports.                                                        *)
LEMMA ReceiptInv ==
  ASSUME HarnessInv, NEW p \in Clients, pc[p] = "receipt",
         NEW r \in [status : {"none", "torn", "completed", "failed", "blocked"},
                    verified : BOOLEAN],
         receipt' = [receipt EXCEPT ![att[p]] = r], UNCHANGED runs,
         \/ r = receipt[att[p]] \/ r.status = "torn"
         \/ r.status = StatusOf(out[p].verdict),
         NEW a \in Attempts
  PROVE  RunInv(a)' /\ receipt' \in [Attempts ->
           [status : {"none", "torn", "completed", "failed", "blocked"},
            verified : BOOLEAN]]
<1>1. /\ TypeOK /\ Judged(p) /\ RunInv(a) /\ att[p] \in Attempts
      /\ receipt \in [Attempts ->
           [status : {"none", "torn", "completed", "failed", "blocked"},
            verified : BOOLEAN]]
  BY DEF HarnessInv, TypeOK, ProcInv
<1>2. receipt'[att[p]] = r /\ \A b \in Attempts \ {att[p]} : receipt'[b] = receipt[b]
  BY <1>1
<1>3. /\ StatusOf(out[p].verdict) = "completed" => out[p].verdict = "passed"
      /\ StatusOf(out[p].verdict) \in {"failed", "blocked"} => out[p].verdict # "passed"
  BY DEF StatusOf
<1>4. ReceiptTells(a)'
  <2>1. CASE a # att[p]
    BY <1>1, <1>2, <2>1 DEF RunInv, ReceiptTells
  <2>2. CASE a = att[p] /\ r = receipt[att[p]]
    BY <1>1, <1>2, <2>2 DEF RunInv, ReceiptTells
  <2>3. CASE a = att[p] /\ r.status = "torn"
    BY <1>2, <2>3 DEF ReceiptTells
  <2>4. CASE a = att[p] /\ r.status = StatusOf(out[p].verdict)
    BY <1>1, <1>2, <1>3, <2>4 DEF ReceiptTells, Judged
  <2>. QED  BY <2>1, <2>2, <2>3, <2>4
<1>. QED  BY <1>1, <1>4 DEF RunInv, KeysTell

(* Finish keeps the invariant.  (_finish) *)
LEMMA FinishInv ==
  ASSUME HarnessInv, NEW p \in Clients, NEW written \in {"all", "part", "nothing"},
         Finish(p, written)
  PROVE  HarnessInv'
<1>. DEFINE status == StatusOf(out[p].verdict)
            Receipts == [status : {"none", "torn", "completed", "failed", "blocked"},
                         verified : BOOLEAN]
<1>1. /\ TypeOK /\ Judged(p) /\ att[p] \in Attempts /\ pc[p] = "receipt"
      /\ out[p].verified \in BOOLEAN /\ receipt[att[p]] \in Receipts
      /\ UNCHANGED <<runs, told, good, crashes>>
  BY DEF HarnessInv, TypeOK, ProcInv, Finish, Ghosts
<1>2. /\ status \in {"completed", "failed", "blocked"}
      /\ status = "completed" <=> out[p].verdict = "passed"
  BY DEF StatusOf
<1>3. PICK r \in Receipts :
        /\ receipt' = [receipt EXCEPT ![att[p]] = r]
        /\ r = receipt[att[p]] \/ r.status = "torn" \/ r.status = status
  <2>1. CASE written = "all"
    <3>1. receipt' = [receipt EXCEPT ![att[p]] =
                        [status |-> status, verified |-> out[p].verified]]
      BY <2>1 DEF Finish
    <3>. HIDE DEF status
    <3>2. [status |-> status, verified |-> out[p].verified] \in Receipts
      BY <1>1, <1>2
    <3>. QED  BY <3>1, <3>2
  <2>2. CASE written = "part"
    <3>1. receipt' = [receipt EXCEPT ![att[p]] = [status |-> "torn", verified |-> FALSE]]
      BY <2>2 DEF Finish
    <3>2. [status |-> "torn", verified |-> FALSE] \in Receipts
      OBVIOUS
    <3>3. [status |-> "torn", verified |-> FALSE].status = "torn"
      OBVIOUS
    <3>. QED  BY <3>1, <3>2, <3>3
  <2>3. CASE written = "nothing"
    <3>1. receipt' = [receipt EXCEPT ![att[p]] = receipt[att[p]]]
      BY <2>3 DEF Finish
    <3>. QED  BY <1>1, <3>1
  <2>. QED  BY <2>1, <2>2, <2>3
<1>4. Reply(p, status, out[p].verified, att[p])
  BY DEF Finish
<1>5. /\ \A a \in Attempts : RunInv(a)' /\ receipt' \in [Attempts -> Receipts]
  BY <1>1, <1>3, ReceiptInv
<1>6. receipt' \in [Attempts -> Receipts]
  BY <1>1, <1>5
<1>7. /\ status = "completed" <=> out[p].verified
      /\ out[p].verified => runs[att[p]].state = "completed"
  BY <1>1, <1>2 DEF Judged
<1>8. status \in {"none", "declined", "mismatch", "completed", "failed", "blocked", "raised"}
  BY <1>2
<1>. HIDE DEF status
<1>9. TypeOK' /\ \A q \in Clients : ProcInv(q)'
  BY SMTT(40), <1>1, <1>4, <1>6, <1>7, <1>8, ReplyStep DEF TypeOK
<1>. QED  BY <1>5, <1>9 DEF HarnessInv

(* CrashInReceipt keeps the invariant.  (_persist_receipt) *)
LEMMA CrashInReceiptInv ==
  ASSUME HarnessInv, NEW p \in Clients, CrashInReceipt(p)
  PROVE  HarnessInv'
<1>. DEFINE r == [status |-> "torn", verified |-> FALSE]
            Receipts == [status : {"none", "torn", "completed", "failed", "blocked"},
                         verified : BOOLEAN]
<1>1. /\ TypeOK /\ att[p] \in Attempts /\ pc[p] = "receipt" /\ 1 \in Attempts
      /\ UNCHANGED <<runs, told, good>> /\ Reply(p, "none", FALSE, 1)
  <2>1. TypeOK /\ att[p] \in Attempts
    BY DEF HarnessInv, TypeOK
  <2>2. 1 \in Attempts
    BY HarnessAssumption DEF Attempts
  <2>3. pc[p] = "receipt" /\ UNCHANGED <<runs, told, good>> /\ Reply(p, "none", FALSE, 1)
    BY DEF CrashInReceipt
  <2>. QED  BY <2>1, <2>2, <2>3
<1>r. r \in Receipts /\ r.status = "torn"
  OBVIOUS
<1>w. receipt' = [receipt EXCEPT ![att[p]] = r]
  BY DEF CrashInReceipt
<1>2. crashes' \in 0..MaxCrashes
  BY <1>1, HarnessAssumption DEF CrashInReceipt, TypeOK
<1>. HIDE DEF r
<1>3. \A a \in Attempts : RunInv(a)' /\ receipt' \in [Attempts -> Receipts]
  BY <1>1, <1>r, <1>w, ReceiptInv
<1>4. receipt' \in [Attempts -> Receipts]
  BY <1>1, <1>3
<1>5. TypeOK' /\ \A q \in Clients : ProcInv(q)'
  BY <1>1, <1>2, <1>4, ReplyStep DEF TypeOK
<1>. QED  BY <1>3, <1>5 DEF HarnessInv

(* Intervene keeps the invariant.  (another user of the store's API (no    *)
(* caller under src/ moves a harness run))                                 *)
LEMMA InterveneInv ==
  ASSUME HarnessInv, NEW a \in Attempts, NEW state \in OperatorMoves,
         NEW i \in 1..MaxMoves, Intervene(a, state, i)
  PROVE  HarnessInv'
<1>. DEFINE cmd == RunTo(state, "none")
            key == <<"operator", i>>
<1>1. TypeOK /\ UNCHANGED <<receipt, pc, att, idx, out, reply, seen, told, good, crashes>>
  BY DEF HarnessInv, Intervene, Local, Ghosts
<1>2. state \in RunTargets /\ "none" \in Reasons
  BY HarnessAssumption
<1>3. cmd \in Commands /\ key \in Keys /\ KeyFits(cmd, key)
  BY <1>2, RunToCommand, KeyTypes, OperatorKeyFits
<1>4. Wrote(a, cmd, key)
  BY DEF Intervene, Wrote
<1>. HIDE DEF cmd, key
<1>5. Stable /\ runs' \in [Attempts -> Snapshots]
  BY <1>1, <1>3, <1>4, WroteStable
<1>6. TypeOK'
  BY <1>1, <1>5 DEF TypeOK
<1>7. \A b \in Attempts : RunInv(b)'
  BY <1>1, <1>3, <1>4, WroteRunInv
<1>8. \A q \in Clients : ProcInv(q)'
  <2>1. \A q \in Clients : Kept(q)
    BY <1>1 DEF Kept
  <2>. QED  BY <1>5, <2>1, KeptInv
<1>. QED  BY <1>6, <1>7, <1>8 DEF HarnessInv

-----------------------------------------------------------------------------
(* The invariant holds at first. *)
LEMMA InitHarness ==
  ASSUME Init
  PROVE  HarnessInv
<1>1. 1 \in Attempts /\ 0 \in 0..MaxCrashes /\ 1 \in 1..(Len(Order) + 1)
  BY HarnessAssumption, OrderFacts DEF Attempts
<1>2. /\ NodeStatesOf(NoRun) = [n \in Nodes |-> "pending"]
      /\ NodeStatesOf(NoRun) \in [Nodes -> NodeStates]
  BY DEF NodeStatesOf, NoRun, NodeStates
<1>3. NoOutcome \in [verdict : Verdicts, reason : Reasons, verified : BOOLEAN]
  BY ReasonTypes DEF NoOutcome, Verdicts
<1>4. /\ runs \in [Attempts -> Snapshots]
      /\ \A a \in Attempts : runs[a] = NoRun
  BY NoRunType DEF Init
<1>5. TypeOK
  BY <1>1, <1>2, <1>3, <1>4 DEF Init, TypeOK, NoReceipt, NoReply, Steps
<1>6. ASSUME NEW a \in Attempts PROVE RunInv(a)
  <2>1. \A k \in Keys : runs[a].idem[k] = None
    BY <1>4 DEF NoRun
  <2>2. KeysTell(a)
    BY <2>1, KeyTypes DEF KeysTell
  <2>3. ReceiptTells(a)
    BY DEF Init, ReceiptTells, NoReceipt
  <2>. QED  BY <2>2, <2>3 DEF RunInv
<1>7. ASSUME NEW p \in Clients PROVE ProcInv(p)
  <2>1. /\ pc[p] = "idle" /\ idx[p] = 1 /\ seen[p] = NodeStatesOf(NoRun)
        /\ out[p] = NoOutcome /\ reply[p] = NoReply
    BY DEF Init
  <2>2. Position(p) /\ Walked(p)
    BY <2>1 DEF Position, Walked, Walking
  <2>3. SeenTrue(p)
    BY <1>2, <2>1 DEF SeenTrue
  <2>4. Judged(p) /\ ReplyTrue(p)
    BY <2>1 DEF Judged, ReplyTrue, NoOutcome, NoReply
  <2>. QED  BY <2>2, <2>3, <2>4 DEF ProcInv
<1>. QED  BY <1>5, <1>6, <1>7 DEF HarnessInv

(* A stuttering step keeps the invariant. *)
LEMMA StutterHarness ==
  ASSUME HarnessInv, UNCHANGED vars
  PROVE  HarnessInv'
<1>1. TypeOK'
  BY DEF HarnessInv, vars, TypeOK
<1>2. \A a \in Attempts : RunInv(a)'
  BY SameRunInv DEF vars
<1>3. \A q \in Clients : ProcInv(q)'
  BY KeptInv DEF vars, Kept, Stable
<1>. QED  BY <1>1, <1>2, <1>3 DEF HarnessInv

(* Every step keeps the invariant: one lemma per action. *)
LEMMA StepHarness ==
  ASSUME HarnessInv, [Next]_vars
  PROVE  HarnessInv'
<1>1. ASSUME NEW p \in Clients, Working(p) PROVE HarnessInv'
  <2>1. CASE ResolveFree(p) \/ ResolveNext(p) \/ ResolveTooMany(p) \/ ResolveBusy(p)
    BY <2>1, ResolveFreeInv, ResolveNextInv, AnswerInv
  <2>2. CASE Create(p) \/ Start(p) \/ Unpause(p)
    BY <2>2, CreateInv
  <2>3. CASE Load(p) \/ LoadTerminal(p) \/ LoadRefused(p)
    BY <2>3, LoadInv, AnswerInv
  <2>4. CASE SkipNode(p) \/ StartNode(p) \/ FinishNode(p) \/ StartExecute(p)
    BY <2>4, SkipNodeInv, StartNodeInv, FinishNodeInv, StartExecuteInv
  <2>5. ASSUME NEW ev \in Evidence, NEW reason \in StopReasons \cup {"none"},
               LoopEnds(p, ev, reason)
        PROVE  HarnessInv'
    BY <2>5, LoopEndsInv
  <2>6. CASE LoopRaises(p) \/ FailExecute(p) \/ CompleteExecute(p)
    BY <2>6, LoopRaisesInv, FailExecuteInv, CompleteExecuteInv
  <2>7. CASE StartVerify(p) \/ FailVerify(p) \/ FailRun(p) \/ CompleteRun(p)
    BY <2>7, StartVerifyInv, FailVerifyInv, FailRunInv, CompleteRunInv
  <2>8. ASSUME NEW written \in {"all", "part", "nothing"}, Finish(p, written)
        PROVE  HarnessInv'
    BY <2>8, FinishInv
  <2>9. CASE Handler(p) \/ FailRunning(p) \/ FailException(p) \/ Fail(p)
    BY <2>9, HandlerInv, FailRunningInv, FailExceptionInv, AnswerInv
  <2>. QED  BY <1>1, <2>1, <2>2, <2>3, <2>4, <2>5, <2>6, <2>7, <2>8, <2>9 DEF Working
<1>2. ASSUME NEW p \in Clients, Fresh(p) \/ Resume(p) PROVE HarnessInv'
  BY <1>2, BegunInv
<1>3. ASSUME NEW p \in Clients,
             Decline(p) \/ (\E a \in Attempts : ResumeAttempt(p, a)) \/ Crash(p)
      PROVE  HarnessInv'
  BY <1>3, AnswerInv
<1>4. ASSUME NEW p \in Clients, CrashInReceipt(p) PROVE HarnessInv'
  BY <1>4, CrashInReceiptInv
<1>5. ASSUME NEW a \in Attempts, NEW state \in OperatorMoves, NEW i \in 1..MaxMoves,
             Intervene(a, state, i)
      PROVE  HarnessInv'
  BY <1>5, InterveneInv
<1>6. CASE UNCHANGED vars
  BY <1>6, StutterHarness
<1>. QED  BY <1>1, <1>2, <1>3, <1>4, <1>5, <1>6 DEF Next

(* Every reachable state satisfies the invariant, whatever processes,      *)
(* operators and crashes do.                                               *)
THEOREM HarnessInvHolds == Spec => []HarnessInv
  BY InitHarness, StepHarness, PTL DEF Spec

(* Type correctness of the controller's processes and the runs, receipts   *)
(* and answers they produce.                                               *)
THEOREM TypeCorrect == Spec => []TypeOK
<1>1. HarnessInv => TypeOK
  BY DEF HarnessInv
<1>. QED  BY <1>1, HarnessInvHolds, PTL

(* An intact receipt says what the durable run says.  (_finish writes it   *)
(* after the transition, and any process may have made that)               *)
THEOREM ReceiptMatchesRunHolds == Spec => []ReceiptMatchesRun
<1>1. HarnessInv => ReceiptMatchesRun
  BY DEF HarnessInv, RunInv, ReceiptTells, ReceiptMatchesRun
<1>. QED  BY <1>1, HarnessInvHolds, PTL

(* "completed" is reported about completed, verified runs only, by the     *)
(* process that completed them and by a later --resume.                    *)
THEOREM ReportHonestHolds == Spec => []ReportHonest
<1>1. HarnessInv => ReportHonest
  BY DEF HarnessInv, ProcInv, ReplyTrue, ReportHonest
<1>. QED  BY <1>1, HarnessInvHolds, PTL

-----------------------------------------------------------------------------
(* What a step can do to a run: a process in the middle of its walk calls  *)
(* the store, a process moves or ends, or somebody else moves the run.     *)

(* A process made a store call: it wrote a command or changed no run, and  *)
(* completes a run only from the step that may.                            *)
Called(p, cmd, key) ==
  /\ pc[p] \in Active
  /\ Wrote(att[p], cmd, key) \/ runs' = runs
  /\ UNCHANGED <<receipt, att, good>>
  /\ cmd.type \in {"run_created", "run_transition", "node_transition"}
  /\ cmd.type = "run_transition" =>
       /\ cmd.to = "completed" => pc[p] = "complete-run"
       /\ cmd.to \in {"completed", "failed"} => pc'[p] \notin Active \/ runs' = runs

(* A process moved without a store call: no run changed, and at most the   *)
(* receipt of its own attempt.                                             *)
Moved(p) ==
  /\ runs' = runs /\ good \subseteq good'
  /\ pc'[p] # "receipt"
  /\ pc'[p] \in Active =>
       /\ att'[p] = att[p]
       /\ pc[p] \in Active \/ runs[att[p]].state \notin {"failed", "completed"}
  /\ \/ receipt' = receipt
     \/ pc[p] = "receipt" /\ \A a \in Attempts \ {att[p]} : receipt'[a] = receipt[a]

(* A store call writes its command or leaves the runs, and a refused one   *)
(* leaves them.                                                            *)
LEMMA StoreCallWrites ==
  ASSUME TypeOK, NEW p \in Clients, NEW cmd, NEW key, NEW ok, NEW broken,
         StoreCall(p, cmd, key, ok, broken)
  PROVE  /\ Wrote(att[p], cmd, key) \/ runs' = runs
         /\ pc'[p] = ok \/ (pc'[p] = broken /\ runs' = runs)
<1>. DEFINE a == att[p]
<1>1. pc \in [Clients -> Steps] /\ a \in Attempts /\ runs \in [Attempts -> Snapshots]
  BY DEF TypeOK
<1>2. CASE Admits(runs[a], cmd, key)
  <2>1. /\ runs' = [runs EXCEPT ![a] = After(runs[a], cmd, key)]
        /\ pc' = [pc EXCEPT ![p] = ok]
    BY <1>2 DEF StoreCall
  <2>. QED  BY <1>1, <1>2, <2>1 DEF Wrote
<1>3. CASE ~Admits(runs[a], cmd, key) /\ Repeated(runs[a], cmd, key)
  <2>1. runs' = [runs EXCEPT ![a] = runs[a]] /\ pc' = [pc EXCEPT ![p] = ok]
    BY <1>3 DEF StoreCall
  <2>. QED  BY <1>1, <2>1
<1>4. CASE ~Admits(runs[a], cmd, key) /\ ~Repeated(runs[a], cmd, key)
  <2>1. runs' = runs /\ pc' = [pc EXCEPT ![p] = broken]
    BY <1>4 DEF StoreCall
  <2>. QED  BY <1>1, <2>1
<1>. QED  BY <1>2, <1>3, <1>4

(* Store calls on nodes, and on the run. *)
LEMMA NodeCalled ==
  ASSUME HarnessInv, NEW p \in Clients, pc[p] \in Active,
         NEW n \in Nodes, NEW state \in {"running", "succeeded", "failed"},
         NEW reason \in Reasons,
         NEW k \in {"start", "complete", "fail", "policy-block", "exception"},
         NEW ok, NEW broken,
         StoreCall(p, NodeTo(n, state, reason), <<n, k>>, ok, broken),
         UNCHANGED <<receipt, att, good>>
  PROVE  \E cmd \in Commands, key \in Keys : Called(p, cmd, key)
<1>1. TypeOK /\ state \in NodeTargets /\ <<n, k>> \in Keys
  BY ReasonTypes, KeyTypes DEF HarnessInv
<1>2. NodeTo(n, state, reason) \in Commands /\ NodeTo(n, state, reason).type = "node_transition"
  BY <1>1, NodeToCommand
<1>3. Wrote(att[p], NodeTo(n, state, reason), <<n, k>>) \/ runs' = runs
  BY <1>1, StoreCallWrites
<1>4. Called(p, NodeTo(n, state, reason), <<n, k>>)
  BY <1>2, <1>3 DEF Called
<1>. QED  BY <1>1, <1>2, <1>4

(* A run transition by a process is a store call in the sense of Called. *)
LEMMA RunCalled ==
  ASSUME HarnessInv, NEW p \in Clients, pc[p] \in Active,
         NEW state \in {"running", "completed", "failed"}, NEW reason \in Reasons,
         NEW k \in {"create", "start", "resume", "fail", "proof-fail", "policy-block",
                    "complete", "exception"},
         NEW ok, NEW broken,
         StoreCall(p, RunTo(state, reason), <<"harness", k>>, ok, broken),
         UNCHANGED <<receipt, att, good>>,
         state = "completed" => pc[p] = "complete-run",
         state # "running" => ok \notin Active
  PROVE  \E cmd \in Commands, key \in Keys : Called(p, cmd, key)
<1>1. TypeOK /\ state \in RunTargets /\ <<"harness", k>> \in Keys
  BY ReasonTypes, KeyTypes DEF HarnessInv
<1>2. /\ RunTo(state, reason) \in Commands /\ RunTo(state, reason).type = "run_transition"
      /\ RunTo(state, reason).to = state
  BY <1>1, RunToCommand
<1>3. /\ Wrote(att[p], RunTo(state, reason), <<"harness", k>>) \/ runs' = runs
      /\ pc'[p] = ok \/ runs' = runs
  BY <1>1, StoreCallWrites
<1>4. Called(p, RunTo(state, reason), <<"harness", k>>)
  BY <1>2, <1>3 DEF Called
<1>. QED  BY <1>1, <1>2, <1>4

(* Every step of a process is one or the other. *)
LEMMA WorkKinds ==
  ASSUME HarnessInv, NEW p \in Clients, Working(p)
  PROVE  (\E cmd \in Commands, key \in Keys : Called(p, cmd, key)) \/ Moved(p)
<1>1. /\ TypeOK /\ ProcInv(p) /\ pc \in [Clients -> Steps] /\ out[p].reason \in Reasons
      /\ {"none", "proof", "policy", "error"} \subseteq Reasons
      /\ {"execute", "verify"} \subseteq Nodes
  BY ReasonTypes, HarnessAssumption DEF HarnessInv, TypeOK
<1>2. pc[p] \in {"node", "finish", "fail-running"} => Here(p) \in Nodes
  BY <1>1, OrderFacts DEF ProcInv, Position, Here
<1>3. CASE Create(p)
  <2>1. /\ pc[p] \in Active /\ UNCHANGED <<receipt, att, good>>
        /\ StoreCall(p, [type |-> "run_created"], <<"harness", "create">>, "start", "raise")
    BY <1>3 DEF Create, Active, Local, Ghosts
  <2>2. Wrote(att[p], [type |-> "run_created"], <<"harness", "create">>) \/ runs' = runs
    BY <1>1, <2>1, StoreCallWrites
  <2>3. Called(p, [type |-> "run_created"], <<"harness", "create">>)
    BY <2>1, <2>2 DEF Called
  <2>. QED  BY <2>3, CreateCommand, KeyTypes
<1>4. CASE Start(p)
  <2>1. /\ pc[p] \in Active /\ UNCHANGED <<receipt, att, good>>
        /\ StoreCall(p, RunTo("running", "none"), <<"harness", "start">>, "node", "raise")
    BY <1>4 DEF Start, Active, Local, Ghosts
  <2>. QED  BY <1>1, <2>1, RunCalled
<1>5. CASE Unpause(p)
  <2>1. /\ pc[p] \in Active /\ UNCHANGED <<receipt, att, good>>
        /\ StoreCall(p, RunTo("running", "none"), <<"harness", "resume">>, "node", "raise")
    BY <1>5 DEF Unpause, Active, Local, Ghosts
  <2>. QED  BY <1>1, <2>1, RunCalled
<1>6. CASE StartNode(p)
  <2>1. /\ pc[p] \in Active /\ Here(p) \in Nodes /\ UNCHANGED <<receipt, att, good>>
        /\ StoreCall(p, NodeTo(Here(p), "running", "none"), <<Here(p), "start">>,
                     "finish", "handler")
    BY <1>2, <1>6 DEF StartNode, Active, Local, Ghosts
  <2>. QED  BY <1>1, <2>1, NodeCalled
<1>7. CASE FinishNode(p)
  <2>1. /\ pc[p] \in Active /\ Here(p) \in Nodes /\ UNCHANGED <<receipt, att, good>>
        /\ StoreCall(p, NodeTo(Here(p), "succeeded", "none"), <<Here(p), "complete">>,
                     PcAfterNode(p), "handler")
    BY <1>2, <1>7 DEF FinishNode, Active, Ghosts
  <2>. QED  BY <1>1, <2>1, NodeCalled
<1>8. CASE StartExecute(p)
  <2>1. pc[p] \in Active /\ UNCHANGED <<receipt, att, good>>
    BY <1>8 DEF StartExecute, Active, Local, Ghosts
  <2>2. CASE seen[p]["execute"] = "pending"
    <3>1. StoreCall(p, NodeTo("execute", "running", "none"), <<"execute", "start">>,
                    "loop", "handler")
      BY <1>8, <2>2 DEF StartExecute
    <3>. QED  BY <1>1, <2>1, <3>1, NodeCalled
  <2>3. CASE seen[p]["execute"] # "pending"
    <3>1. pc' = [pc EXCEPT ![p] = "loop"] /\ runs' = runs
      BY <1>8, <2>3 DEF StartExecute
    <3>. QED  BY <1>1, <2>1, <3>1 DEF Moved
  <2>. QED  BY <2>2, <2>3
<1>9. CASE FailExecute(p)
  <2>1. /\ pc[p] \in Active /\ UNCHANGED <<receipt, att, good>>
        /\ StoreCall(p, NodeTo("execute", "failed", out[p].reason),
                     <<"execute", "fail">>, "fail-run", "handler")
    BY <1>9 DEF FailExecute, Active, Local, Ghosts
  <2>. QED  BY <1>1, <2>1, NodeCalled
<1>10. CASE CompleteExecute(p)
  <2>1. /\ pc[p] \in Active /\ UNCHANGED <<receipt, att, good>>
        /\ StoreCall(p, NodeTo("execute", "succeeded", "none"),
                     <<"execute", "complete">>,
                     IF out[p].verdict = "passed" THEN "node" ELSE "start-verify",
                     "handler")
    BY <1>10 DEF CompleteExecute, Active, Ghosts
  <2>. QED  BY <1>1, <2>1, NodeCalled
<1>11. CASE StartVerify(p)
  <2>1. /\ pc[p] \in Active /\ UNCHANGED <<receipt, att, good>>
        /\ StoreCall(p, NodeTo("verify", "running", "none"), <<"verify", "start">>,
                     "fail-verify", "handler")
    BY <1>11 DEF StartVerify, Active, Local, Ghosts
  <2>. QED  BY <1>1, <2>1, NodeCalled
<1>12. CASE FailVerify(p)
  <2>1. pc[p] \in Active /\ UNCHANGED <<receipt, att, good>>
    BY <1>12 DEF FailVerify, Active, Local, Ghosts
  <2>2. PICK reason \in {"proof", "policy"}, k \in {"fail", "policy-block"} :
          StoreCall(p, NodeTo("verify", "failed", reason), <<"verify", k>>,
                    "fail-run", "handler")
    BY <1>12 DEF FailVerify
  <2>3. /\ reason \in Reasons /\ "verify" \in Nodes
        /\ k \in {"start", "complete", "fail", "policy-block", "exception"}
    BY <1>1
  <2>. QED  BY <2>1, <2>2, <2>3, NodeCalled
<1>13. CASE FailRun(p)
  <2>1. pc[p] \in Active /\ UNCHANGED <<receipt, att, good>> /\ "receipt" \notin Active
    BY <1>13 DEF FailRun, Active, Local, Ghosts
  <2>2. CASE out[p].verdict = "unconverged"
    <3>1. StoreCall(p, RunTo("failed", out[p].reason), <<"harness", "fail">>,
                    "receipt", "handler")
      BY <1>13, <2>2 DEF FailRun
    <3>. QED  BY <1>1, <2>1, <3>1, RunCalled
  <2>3. CASE out[p].verdict = "unproven"
    <3>1. StoreCall(p, RunTo("failed", "proof"), <<"harness", "proof-fail">>,
                    "receipt", "handler")
      BY <1>13, <2>3 DEF FailRun
    <3>. QED  BY <1>1, <2>1, <3>1, RunCalled
  <2>4. CASE out[p].verdict \notin {"unconverged", "unproven"}
    <3>1. StoreCall(p, RunTo("failed", "policy"), <<"harness", "policy-block">>,
                    "receipt", "handler")
      BY <1>13, <2>4 DEF FailRun
    <3>. QED  BY <1>1, <2>1, <3>1, RunCalled
  <2>. QED  BY <2>2, <2>3, <2>4
<1>14. CASE CompleteRun(p)
  <2>1. /\ pc[p] \in Active /\ UNCHANGED <<receipt, att, good>> /\ "receipt" \notin Active
        /\ pc[p] = "complete-run"
        /\ StoreCall(p, RunTo("completed", "none"), <<"harness", "complete">>,
                     "receipt", "handler")
    BY <1>14 DEF CompleteRun, Active, Local, Ghosts
  <2>. QED  BY <1>1, <2>1, RunCalled
<1>15. CASE FailRunning(p)
  <2>1. /\ pc[p] \in Active /\ Here(p) \in Nodes /\ UNCHANGED <<receipt, att, good>>
        /\ StoreCall(p, NodeTo(Here(p), "failed", "error"), <<Here(p), "exception">>,
                     "fail-exception", "raise")
    BY <1>2, <1>15 DEF FailRunning, Active, Local, Ghosts
  <2>. QED  BY <1>1, <2>1, NodeCalled
<1>16. CASE FailException(p)
  <2>1. /\ pc[p] \in Active /\ UNCHANGED <<receipt, att, good>> /\ "error" \notin Active
        /\ StoreCall(p, RunTo("failed", "error"), <<"harness", "exception">>,
                     "error", "raise")
    BY <1>16 DEF FailException, Active, Local, Ghosts
  <2>. QED  BY <1>1, <2>1, RunCalled
<1>17. CASE ResolveFree(p)
  <2>1. runs[att[p]].state \notin {"failed", "completed"}
    BY <1>17, NoneAssumption DEF ResolveFree, RunStates
  <2>. QED  BY <1>1, <1>17, <2>1 DEF ResolveFree, Moved, Local, Ghosts
<1>18. CASE ResolveNext(p)
  BY <1>1, <1>18 DEF ResolveNext, Moved, Active, Ghosts
<1>19. CASE ResolveTooMany(p) \/ ResolveBusy(p) \/ LoadTerminal(p) \/ LoadRefused(p) \/ Fail(p)
  <2>1. pc'[p] = "idle" /\ UNCHANGED <<runs, receipt, good>>
    BY <1>1, <1>19 DEF ResolveTooMany, ResolveBusy, LoadTerminal, LoadRefused, Fail, Reply, Ghosts
  <2>. QED  BY <2>1 DEF Moved, Active
<1>20. CASE Load(p)
  <2>1. /\ runs[att[p]].state \notin {"failed", "completed"} /\ UNCHANGED <<runs, receipt, good, att>>
        /\ pc'[p] \in {"start", "node", "unpause"}
    BY <1>1, <1>20 DEF Load, Local, Ghosts
  <2>. QED  BY <2>1 DEF Moved
<1>21. CASE SkipNode(p)
  <2>1. /\ pc[p] \in Active /\ UNCHANGED <<runs, receipt, good, att>>
        /\ pc'[p] \in {"execute", "complete-run", "node"}
    BY <1>1, <1>21 DEF SkipNode, PcAfterNode, Ghosts, Active
  <2>. QED  BY <2>1 DEF Moved
<1>22. ASSUME NEW ev \in Evidence, NEW reason \in StopReasons \cup {"none"},
              LoopEnds(p, ev, reason)
       PROVE  Moved(p)
  <2>1. /\ pc[p] \in Active /\ UNCHANGED <<runs, receipt, att>> /\ good \subseteq good'
        /\ pc'[p] \in {"complete-execute", "fail-execute"}
    BY <1>1, <1>22 DEF LoopEnds, Active
  <2>. QED  BY <2>1 DEF Moved
<1>23. CASE LoopRaises(p)
  BY <1>1, <1>23 DEF LoopRaises, Moved, Active, Local, Ghosts
<1>24. ASSUME NEW written \in {"all", "part", "nothing"}, Finish(p, written)
       PROVE  Moved(p)
  <2>1. pc[p] = "receipt" /\ pc'[p] = "idle" /\ UNCHANGED <<runs, good>>
    BY <1>1, <1>24 DEF Finish, Reply, Ghosts
  <2>2. \A a \in Attempts \ {att[p]} : receipt'[a] = receipt[a]
    BY <1>1, <1>24 DEF Finish, TypeOK
  <2>. QED  BY <2>1, <2>2 DEF Moved, Active
<1>25. CASE Handler(p)
  <2>1. /\ pc[p] \in Active /\ UNCHANGED <<runs, receipt, good>>
        /\ \/ pc'[p] \in {"fail-running", "fail-exception"} /\ att' = att
           \/ pc'[p] = "idle"
    <3>1. pc[p] \in Active /\ UNCHANGED <<runs, receipt, good>>
      BY <1>25 DEF Handler, Active, Ghosts
    <3>2. CASE runs[att[p]].state = "running" /\ FirstRunning(runs[att[p]]) # {}
      <4>1. pc' = [pc EXCEPT ![p] = "fail-running"] /\ att' = att
        BY <1>25, <3>2 DEF Handler
      <4>. QED  BY <1>1, <3>1, <4>1
    <3>3. CASE runs[att[p]].state = "running" /\ FirstRunning(runs[att[p]]) = {}
      <4>1. pc' = [pc EXCEPT ![p] = "fail-exception"] /\ att' = att
        BY <1>25, <3>3 DEF Handler
      <4>. QED  BY <1>1, <3>1, <4>1
    <3>4. CASE runs[att[p]].state # "running"
      <4>1. Reply(p, "failed", FALSE, att[p])
        BY <1>25, <3>4 DEF Handler
      <4>. QED  BY <1>1, <3>1, <4>1 DEF Reply
    <3>. QED  BY <3>2, <3>3, <3>4
  <2>. QED  BY <2>1 DEF Moved, Active
<1>. QED
  BY <1>3, <1>4, <1>5, <1>6, <1>7, <1>8, <1>9, <1>10, <1>11, <1>12, <1>13, <1>14,
     <1>15, <1>16, <1>17, <1>18, <1>19, <1>20, <1>21, <1>22, <1>23, <1>24, <1>25
  DEF Working

(* Every step is a process' store call, a process' move or an operator's   *)
(* command.                                                                *)
LEMMA StepKinds ==
  ASSUME HarnessInv, Next
  PROVE  \/ \E p \in Clients :
              (\E cmd \in Commands, key \in Keys : Called(p, cmd, key)) \/ Moved(p)
         \/ \E a \in Attempts, state \in OperatorMoves, i \in 1..MaxMoves :
              Intervene(a, state, i)
<1>1. TypeOK /\ pc \in [Clients -> Steps]
  BY DEF HarnessInv, TypeOK
<1>2. ASSUME NEW p \in Clients, Working(p)
      PROVE  (\E cmd \in Commands, key \in Keys : Called(p, cmd, key)) \/ Moved(p)
  BY <1>2, WorkKinds
<1>3. ASSUME NEW p \in Clients, Fresh(p) \/ Resume(p) PROVE Moved(p)
  <2>1. pc'[p] \in {"resolve", "load"} /\ UNCHANGED <<runs, receipt, good>>
    BY <1>1, <1>3 DEF Fresh, Resume, Ghosts
  <2>. QED  BY <2>1 DEF Moved, Active
<1>4. ASSUME NEW p \in Clients,
             Decline(p) \/ (\E a \in Attempts : ResumeAttempt(p, a)) \/ Crash(p)
      PROVE  Moved(p)
  <2>1. pc'[p] = "idle" /\ UNCHANGED <<runs, receipt, good>>
    BY <1>1, <1>4 DEF Decline, ResumeAttempt, Crash, Reply, Ghosts
  <2>. QED  BY <2>1 DEF Moved, Active
<1>5. ASSUME NEW p \in Clients, CrashInReceipt(p) PROVE Moved(p)
  <2>1. pc[p] = "receipt" /\ pc'[p] = "idle" /\ UNCHANGED <<runs, good>>
    BY <1>1, <1>5 DEF CrashInReceipt, Reply
  <2>2. \A a \in Attempts \ {att[p]} : receipt'[a] = receipt[a]
    BY <1>1, <1>5 DEF CrashInReceipt, TypeOK
  <2>. QED  BY <2>1, <2>2 DEF Moved, Active
<1>. QED  BY <1>2, <1>3, <1>4, <1>5 DEF Next

-----------------------------------------------------------------------------
(* Completion. *)

(* Nothing but a transition to "completed" completes a run.                *)
LEMMA CompletedBy ==
  ASSUME NEW s \in Snapshots, NEW cmd \in Commands, NEW key \in Keys,
         Admits(s, cmd, key), After(s, cmd, key).state = "completed",
         cmd.type \in {"run_created", "run_transition", "node_transition"}
  PROVE  \/ s.state = "completed"
         \/ /\ cmd.type = "run_transition" /\ cmd.to = "completed"
            /\ After(s, cmd, key).nodes = s.nodes
<1>1. After(s, cmd, key).state = StateAfter(s, EventOf(s, cmd, key, 0))
  BY DEF After, Apply
<1>2. EventOf(s, cmd, key, 0).cmd = cmd
  BY DEF EventOf
<1>3. cmd.type # "run_created"
  BY <1>1, <1>2 DEF StateAfter
<1>. QED  BY <1>3, AfterParts

(* Only the completing step completes a run, after the walk and a sound    *)
(* loop.                                                                   *)
LEMMA EarnedStep ==
  ASSUME HarnessInv, AllEarned, "completed" \notin OperatorMoves, [Next]_vars
  PROVE  AllEarned'
<1>1. TypeOK /\ runs \in [Attempts -> Snapshots]
  BY DEF HarnessInv, TypeOK
<1>2. \A i \in 1..Len(Order) : Order[i] \in Nodes
  BY OrderFacts
<1>3. ASSUME runs' = runs, good \subseteq good' PROVE AllEarned'
  BY <1>3 DEF AllEarned, CompletionEarned
<1>4. ASSUME NEW p \in Clients, NEW cmd \in Commands, NEW key \in Keys,
             Called(p, cmd, key)
      PROVE  AllEarned'
  <2>1. /\ att[p] \in Attempts /\ good' = good /\ runs[att[p]] \in Snapshots
    BY <1>1, <1>4 DEF TypeOK, Called
  <2>2. CASE runs' = runs
    BY <1>3, <2>1, <2>2
  <2>3. CASE Wrote(att[p], cmd, key)
    <3>1. /\ Stable /\ runs'[att[p]] = After(runs[att[p]], cmd, key)
          /\ \A b \in Attempts \ {att[p]} : runs'[b] = runs[b]
      BY <1>1, <2>1, <2>3, WroteStable
    <3>2. SUFFICES ASSUME NEW a \in Attempts PROVE CompletionEarned(a)'
      BY DEF AllEarned
    <3>3. CASE a # att[p] \/ runs[a].state = "completed"
      BY <1>2, <2>1, <3>1, <3>3 DEF AllEarned, CompletionEarned, Stable
    <3>4. CASE a = att[p] /\ runs[a].state # "completed"
      <4>1. SUFFICES ASSUME runs'[a].state = "completed"
                     PROVE  /\ \A i \in 1..Len(Order) :
                                 runs'[a].nodes[Order[i]].state = "succeeded"
                            /\ a \in good'
        BY DEF CompletionEarned
      <4>2. /\ cmd.type = "run_transition" /\ cmd.to = "completed"
            /\ runs'[a].nodes = runs[a].nodes
        BY <1>4, <2>1, <2>3, <3>1, <3>4, <4>1, CompletedBy DEF Called, Wrote
      <4>3. pc[p] = "complete-run" /\ ProcInv(p)
        BY <1>4, <4>2 DEF Called, HarnessInv
      <4>4. idx[p] = Len(Order) + 1 /\ out[p].verdict = "passed" /\ a \in good
        BY <3>4, <4>3 DEF ProcInv, Position, Judged
      <4>5. \A i \in 1..Len(Order) : i \in 1..(idx[p] - 1)
        BY <4>4, OrderFacts
      <4>6. \A i \in 1..Len(Order) : runs[a].nodes[Order[i]].state = "succeeded"
        BY <3>4, <4>3, <4>5 DEF ProcInv, Walked, Walking
      <4>. QED  BY <2>1, <4>2, <4>4, <4>6
    <3>. QED  BY <3>3, <3>4
  <2>. QED  BY <1>4, <2>2, <2>3 DEF Called
<1>5. ASSUME NEW p \in Clients, Moved(p) PROVE AllEarned'
  BY <1>3, <1>5 DEF Moved
<1>6. ASSUME NEW a \in Attempts, NEW state \in OperatorMoves, NEW i \in 1..MaxMoves,
             Intervene(a, state, i)
      PROVE  AllEarned'
  <2>. DEFINE cmd == RunTo(state, "none")
              key == <<"operator", i>>
  <2>1. state \in RunTargets /\ "none" \in Reasons /\ state # "completed"
    BY HarnessAssumption
  <2>2. /\ cmd \in Commands /\ key \in Keys /\ cmd.type = "run_transition"
        /\ cmd.to = state
    BY <2>1, RunToCommand, KeyTypes
  <2>3. Wrote(a, cmd, key) /\ good' = good
    BY <1>6 DEF Intervene, Wrote, Ghosts
  <2>. HIDE DEF cmd, key
  <2>4. /\ Stable /\ runs'[a] = After(runs[a], cmd, key)
        /\ \A b \in Attempts \ {a} : runs'[b] = runs[b]
    BY <1>1, <2>2, <2>3, WroteStable
  <2>5. After(runs[a], cmd, key).state = state
    BY <1>1, <2>2, <2>3, AfterParts DEF Wrote
  <2>6. \A b \in Attempts : CompletionEarned(b)'
    BY <2>1, <2>3, <2>4, <2>5 DEF AllEarned, CompletionEarned
  <2>. QED  BY <2>6 DEF AllEarned
<1>7. CASE UNCHANGED vars
  BY <1>3, <1>7 DEF vars
<1>. QED  BY <1>4, <1>5, <1>6, <1>7, StepKinds

(* A durable completion rests on a walk over every node and on a loop      *)
(* execution whose evidence was sound, whatever processes overlap, crash   *)
(* and resume, as long as nobody completes the run through the store       *)
(* behind the controller's back.  (_execute, evaluate_completion_gate)     *)
THEOREM CompletedSoundHolds ==
  ASSUME "completed" \notin OperatorMoves
  PROVE  Spec => []CompletedSound
<1>1. Init => AllEarned
  BY NoneAssumption DEF Init, AllEarned, CompletionEarned, NoRun, RunStates
<1>2. HarnessInv /\ AllEarned /\ [Next]_vars => AllEarned'
  BY EarnedStep
<1>3. AllEarned => CompletedSound
  BY DEF AllEarned, CompletionEarned, CompletedSound
<1>. QED  BY <1>1, <1>2, <1>3, HarnessInvHolds, PTL DEF Spec

-----------------------------------------------------------------------------
(* One user at a time. *)

(* What can still be done to a terminal run: move a node it left behind.   *)
LEMMA SealedRun ==
  ASSUME NEW s \in Snapshots, NEW cmd \in Commands, NEW key \in Keys,
         Admits(s, cmd, key), s.state \in RunTerminal,
         cmd.type \in {"run_created", "run_transition", "node_transition"}
  PROVE  /\ cmd.type = "node_transition" /\ cmd.node \in Nodes
         /\ s.nodes[cmd.node].state \notin NodeTerminal
<1>1. Permits(s, cmd, 0) /\ s.state # None
  BY NoneAssumption DEF Admits, RunTerminal, RunStates
<1>2. cmd.type # "run_created"
  BY <1>1 DEF Permits
<1>3. cmd.type # "run_transition"
  BY <1>1 DEF Permits, RunMove, RunEdges, RunTerminal
<1>4. cmd.type = "node_transition" /\ cmd.node \in Nodes
  BY <1>2, <1>3, CommandFields
<1>5. <<s.nodes[cmd.node].state, cmd.to>> \in NodeEdges
  BY <1>1, <1>4 DEF Permits, NodeMove
<1>. QED  BY <1>4, <1>5 DEF NodeEdges, NodeTerminal

(* A write keeps what SoloInv says of the attempts. *)
LEMMA SoloWrote ==
  ASSUME HarnessInv, SoloInv, NEW a \in Attempts, NEW cmd \in Commands, NEW key \in Keys,
         Wrote(a, cmd, key), receipt' = receipt, good' = good
  PROVE  \A b \in Attempts :
           /\ runs'[b].state = "cancelled" =>
                \A n \in Nodes : runs'[b].nodes[n].state \in NodeTerminal
           /\ runs'[b].state \notin {"failed", "completed"} => receipt'[b].status = "none"
<1>1. TypeOK /\ runs[a] \in Snapshots
  BY DEF HarnessInv, TypeOK
<1>2. /\ Stable /\ runs'[a] = After(runs[a], cmd, key)
      /\ \A b \in Attempts \ {a} : runs'[b] = runs[b]
  BY <1>1, WroteStable
<1>3. ASSUME NEW b \in Attempts, runs'[b].state = "cancelled", NEW n \in Nodes
      PROVE  runs'[b].nodes[n].state \in NodeTerminal
  <2>1. CASE b # a
    BY <1>2, <1>3, <2>1 DEF SoloInv
  <2>2. CASE b = a
    <3>1. Permits(runs[a], cmd, 0) /\ runs'[a] = Apply(runs[a], EventOf(runs[a], cmd, key, 0), 0)
      BY <1>2 DEF Wrote, Admits, After
    <3>2. runs[a].state = "cancelled" => \A m \in Nodes : runs[a].nodes[m].state \in NodeTerminal
      BY DEF SoloInv
    <3>3. 0 \in Nat /\ Apply(runs[a], EventOf(runs[a], cmd, key, 0), 0).state = "cancelled"
      BY <1>3, <2>2, <3>1
    <3>. QED  BY <1>1, <2>2, <3>1, <3>2, <3>3, CancelSettlesAfter
  <2>. QED  BY <2>1, <2>2
<1>4. ASSUME NEW b \in Attempts, runs'[b].state \notin {"failed", "completed"}
      PROVE  receipt'[b].status = "none"
  BY <1>2, <1>4 DEF SoloInv, Stable, RunTerminal
<1>. QED  BY <1>3, <1>4

(* With one process at a time every step keeps SoloInv. *)
LEMMA SoloStep ==
  ASSUME HarnessInv, SoloInv, \A p, q \in Clients : p = q,
         OperatorMoves \cap {"failed", "completed"} = {}, [Next]_vars
  PROVE  SoloInv'
<1>1. TypeOK /\ runs \in [Attempts -> Snapshots]
  BY DEF HarnessInv, TypeOK
<1>2. ASSUME NEW p \in Clients, NEW cmd \in Commands, NEW key \in Keys,
             Called(p, cmd, key)
      PROVE  SoloInv'
  <2>1. /\ att[p] \in Attempts /\ pc[p] \in Active /\ UNCHANGED <<receipt, att, good>>
        /\ runs[att[p]].state \notin {"failed", "completed"}
        /\ receipt[att[p]].status = "none"
    BY <1>1, <1>2 DEF TypeOK, Called, SoloInv
  <2>2. CASE runs' = runs
    BY <2>1, <2>2 DEF SoloInv
  <2>3. CASE Wrote(att[p], cmd, key) /\ runs' # runs
    <3>1. runs'[att[p]] = After(runs[att[p]], cmd, key)
      BY <1>1, <2>1, <2>3, WroteStable
    <3>2. After(runs[att[p]], cmd, key).state \in {"failed", "completed"} =>
            cmd.type = "run_transition" /\ cmd.to \in {"failed", "completed"}
      <4>1. /\ cmd.type = "run_transition" => After(runs[att[p]], cmd, key).state = cmd.to
            /\ cmd.type = "node_transition" =>
                 After(runs[att[p]], cmd, key).state = runs[att[p]].state
        BY <1>1, <2>1, <2>3, AfterParts DEF Wrote
      <4>2. cmd.type = "run_created" => After(runs[att[p]], cmd, key).state = "created"
        BY DEF After, Apply, StateAfter, EventOf
      <4>. QED  BY <1>2, <2>1, <4>1, <4>2 DEF Called
    <3>3. pc'[p] \in Active => runs'[att[p]].state \notin {"failed", "completed"}
      BY <1>2, <2>3, <3>1, <3>2 DEF Called
    <3>4. \A b \in Attempts :
            /\ runs'[b].state = "cancelled" =>
                 \A n \in Nodes : runs'[b].nodes[n].state \in NodeTerminal
            /\ runs'[b].state \notin {"failed", "completed"} => receipt'[b].status = "none"
      BY <2>1, <2>3, SoloWrote
    <3>. QED  BY <2>1, <3>3, <3>4 DEF SoloInv
  <2>. QED  BY <1>2, <2>2, <2>3 DEF Called
<1>3. ASSUME NEW p \in Clients, Moved(p) PROVE SoloInv'
  <2>1. /\ runs' = runs /\ att[p] \in Attempts /\ ProcInv(p)
    BY <1>1, <1>3 DEF Moved, TypeOK, HarnessInv
  <2>2. ASSUME NEW a \in Attempts, runs[a].state \notin {"failed", "completed"}
        PROVE  receipt'[a].status = "none"
    <3>1. pc[p] = "receipt" => runs[att[p]].state \in {"failed", "completed"}
      BY <2>1 DEF ProcInv, Judged
    <3>2. receipt'[a] = receipt[a]
      BY <1>3, <2>2, <3>1 DEF Moved
    <3>. QED  BY <2>2, <3>2 DEF SoloInv
  <2>3. /\ pc'[p] \in Active => runs'[att'[p]].state \notin {"failed", "completed"}
        /\ pc'[p] # "receipt"
    BY <1>3, <2>1 DEF Moved, SoloInv
  <2>. QED  BY <2>1, <2>2, <2>3 DEF SoloInv
<1>4. ASSUME NEW a \in Attempts, NEW state \in OperatorMoves, NEW i \in 1..MaxMoves,
             Intervene(a, state, i)
      PROVE  SoloInv'
  <2>. DEFINE cmd == RunTo(state, "none")
              key == <<"operator", i>>
  <2>1. state \in RunTargets /\ "none" \in Reasons /\ state \notin {"failed", "completed"}
    BY HarnessAssumption
  <2>2. /\ cmd \in Commands /\ key \in Keys /\ cmd.type = "run_transition"
        /\ cmd.to = state
    BY <2>1, RunToCommand, KeyTypes
  <2>3. Wrote(a, cmd, key) /\ UNCHANGED <<receipt, pc, att, good>>
    BY <1>4 DEF Intervene, Wrote, Ghosts, Local
  <2>. HIDE DEF cmd, key
  <2>4. /\ runs'[a] = After(runs[a], cmd, key)
        /\ \A b \in Attempts \ {a} : runs'[b] = runs[b]
    BY <1>1, <2>2, <2>3, WroteStable
  <2>5. After(runs[a], cmd, key).state = state
    BY <1>1, <2>2, <2>3, AfterParts DEF Wrote
  <2>6. \A b \in Attempts :
          /\ runs'[b].state = "cancelled" =>
               \A n \in Nodes : runs'[b].nodes[n].state \in NodeTerminal
          /\ runs'[b].state \notin {"failed", "completed"} => receipt'[b].status = "none"
    BY <2>2, <2>3, SoloWrote
  <2>7. \A q \in Clients : att[q] \in Attempts
    BY <1>1 DEF TypeOK
  <2>. QED  BY <2>1, <2>3, <2>4, <2>5, <2>6, <2>7 DEF SoloInv
<1>5. CASE UNCHANGED vars
  BY <1>5 DEF vars, SoloInv
<1>. QED  BY <1>2, <1>3, <1>4, <1>5, StepKinds

(* Then no step changes a finished attempt or its receipt. *)
LEMMA PreservedStep ==
  ASSUME HarnessInv, SoloInv, Next, NEW a \in Attempts, runs[a].state \in RunTerminal
  PROVE  /\ runs'[a] = runs[a]
         /\ receipt[a].status # "none" => receipt'[a] = receipt[a]
<1>1. TypeOK /\ runs \in [Attempts -> Snapshots]
  BY DEF HarnessInv, TypeOK
<1>2. ASSUME NEW p \in Clients, NEW cmd \in Commands, NEW key \in Keys,
             Called(p, cmd, key)
      PROVE  runs'[a] = runs[a] /\ receipt' = receipt
  <2>1. /\ att[p] \in Attempts /\ pc[p] \in Active /\ receipt' = receipt /\ good' = good
        /\ runs[att[p]].state \notin {"failed", "completed"}
        /\ cmd.type \in {"run_created", "run_transition", "node_transition"}
    BY <1>1, <1>2 DEF TypeOK, Called, SoloInv
  <2>2. CASE Wrote(att[p], cmd, key)
    <3>1. a # att[p]
      <4>1. SUFFICES ASSUME a = att[p] PROVE FALSE
        OBVIOUS
      <4>2. runs[a].state = "cancelled"
        BY <2>1, <4>1 DEF RunTerminal
      <4>3. cmd.node \in Nodes /\ runs[a].nodes[cmd.node].state \notin NodeTerminal
        BY <1>1, <2>1, <2>2, <4>1, SealedRun DEF Wrote
      <4>. QED  BY <4>2, <4>3 DEF SoloInv
    <3>. QED  BY <1>1, <2>1, <2>2, <3>1, WroteStable
  <2>. QED  BY <1>2, <2>1, <2>2 DEF Called
<1>3. ASSUME NEW p \in Clients, Moved(p)
      PROVE  runs'[a] = runs[a] /\ (receipt[a].status # "none" => receipt'[a] = receipt[a])
  BY <1>3 DEF Moved, SoloInv
<1>4. ASSUME NEW b \in Attempts, NEW state \in OperatorMoves, NEW i \in 1..MaxMoves,
             Intervene(b, state, i)
      PROVE  runs'[a] = runs[a] /\ receipt' = receipt
  <2>. DEFINE cmd == RunTo(state, "none")
              key == <<"operator", i>>
  <2>1. state \in RunTargets /\ "none" \in Reasons
    BY HarnessAssumption
  <2>2. cmd \in Commands /\ key \in Keys /\ cmd.type = "run_transition"
    BY <2>1, RunToCommand, KeyTypes
  <2>3. Wrote(b, cmd, key) /\ UNCHANGED <<receipt, good>>
    BY <1>4 DEF Intervene, Wrote, Ghosts
  <2>. HIDE DEF cmd, key
  <2>4. a # b
    BY <1>1, <2>2, <2>3, SealedRun DEF Wrote
  <2>. QED  BY <1>1, <2>2, <2>3, <2>4, WroteStable
<1>. QED  BY <1>2, <1>3, <1>4, StepKinds

(* With one invocation at a time, and operators who pause, resume or       *)
(* cancel, an attempt that has ended keeps its events and its receipt,     *)
(* whatever retries, crashes and --resume do.  (_resolve_fresh_run_id,     *)
(* _resume_terminal_result)                                                *)
THEOREM AttemptPreservedHolds ==
  ASSUME \A p, q \in Clients : p = q, OperatorMoves \cap {"failed", "completed"} = {}
  PROVE  Spec => AttemptPreserved
<1>1. Init => SoloInv
  BY NoneAssumption DEF Init, SoloInv, NoRun, NoReceipt, Active, RunStates
<1>2. HarnessInv /\ SoloInv /\ [Next]_vars => SoloInv'
  BY SoloStep
<1>3. HarnessInv /\ SoloInv /\ [Next]_vars =>
        [\A a \in Attempts :
           runs[a].state \in RunTerminal =>
             /\ runs'[a] = runs[a]
             /\ receipt[a].status # "none" => receipt'[a] = receipt[a]]_vars
  BY PreservedStep
<1>. QED  BY <1>1, <1>2, <1>3, HarnessInvHolds, PTL DEF Spec, AttemptPreserved
=============================================================================
