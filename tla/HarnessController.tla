--------------------------- MODULE HarnessController ---------------------------
(***************************************************************************)
(* HarnessController (harness_run/controller.py): what one `onmc run       *)
(* --execute` process does to the durable run of its task, and what it     *)
(* reports.  Several invocations of the same task may be alive at once,    *)
(* they may die anywhere, and the user may start again or pass --resume.   *)
(*                                                                         *)
(* Every store operation is one step here, on the snapshots and commands   *)
(* of RunCommands: RuntimeStore is shown to implement exactly that         *)
(* (RunLedger).  Attempt a of the task is the run <run_id>-a<a>; attempt 1 *)
(* is the derived run id itself.                                           *)
(***************************************************************************)
EXTENDS RunCommands

CONSTANTS
  PreNodes,      \* node ids settled before the loop, in DAG order
  PostNodes,     \* node ids settled after it, verify first
  StopReasons,   \* the loop's stop reasons when it does not converge
  Invocations,   \* what users do: a subset of {"fresh", "resume"}
  OperatorMoves, \* run states other users of the store ask for
  MaxMoves,      \* bound: how often they do
  MaxAttempts,   \* bound: _MAX_RUN_ATTEMPTS
  MaxCrashes     \* bound: process deaths explored

VARIABLES
  runs,     \* attempt -> durable snapshot
  receipt,  \* attempt -> receipts/run-<id>.json
  pc,       \* process -> next step, "idle" between invocations
  att,      \* process -> the attempt it works on
  idx,      \* process -> position in Order
  seen,     \* process -> node states of the last snapshot it was returned
  out,      \* process -> what the completion gate made of its loop
  reply,    \* process -> result of its last invocation
  told,     \* attempts a refused invocation was told to --resume
  good,     \* attempts with a loop execution that passed the gate
  crashes

vars == <<runs, receipt, pc, att, idx, seen, out, reply, told, good, crashes>>

Attempts == 1..MaxAttempts
Order    == PreNodes \o <<"execute">> \o PostNodes
ExecPos  == Len(PreNodes) + 1

HarnessKeys ==
  ({"harness"} \X {"create", "start", "resume", "fail", "proof-fail",
                   "policy-block", "complete", "exception"})
  \cup (Nodes \X {"start", "complete", "fail", "policy-block", "exception"})
  \cup ({"operator"} \X (1..MaxMoves))

ASSUME HarnessAssumption ==
  /\ PreNodes \in Seq(Nodes) \ {<<>>} /\ PostNodes \in Seq(Nodes)
  /\ "execute" \in Nodes /\ "verify" \in Nodes
  /\ Len(PostNodes) > 0 /\ PostNodes[1] = "verify"
  /\ MaxAttempts \in Nat \ {0} /\ MaxMoves \in Nat /\ MaxCrashes \in Nat
  /\ Reasons = StopReasons \cup {"none", "proof", "policy", "error"}
  /\ HarnessKeys \subseteq Keys
  /\ {"harness", "operator"} \cap Nodes = {}
  /\ {"running", "completed", "failed"} \cup OperatorMoves \subseteq RunTargets
  /\ {"running", "succeeded", "failed"} \subseteq NodeTargets

Verdicts == {"unconverged", "unproven", "blocked", "passed"}
NoOutcome == [verdict |-> "unconverged", reason |-> "none", verified |-> FALSE]
NoReceipt == [status |-> "none", verified |-> FALSE]
NoReply   == [status |-> "none", verified |-> FALSE, run |-> 1]

Steps ==
  {"idle", "resolve", "create", "start", "load", "unpause", "node", "finish",
   "execute", "loop", "fail-execute", "complete-execute", "start-verify",
   "fail-verify", "fail-run", "complete-run", "receipt", "handler",
   "fail-running", "fail-exception", "error", "raise"}

TypeOK ==
  /\ runs \in [Attempts -> Snapshots]
  /\ receipt \in [Attempts ->
       [status : {"none", "torn", "completed", "failed", "blocked"},
        verified : BOOLEAN]]
  /\ pc \in [Clients -> Steps]
  /\ att \in [Clients -> Attempts]
  /\ idx \in [Clients -> 1..(Len(Order) + 1)]
  /\ seen \in [Clients -> [Nodes -> NodeStates]]
  /\ out \in [Clients ->
       [verdict : Verdicts, reason : Reasons, verified : BOOLEAN]]
  /\ reply \in [Clients ->
       [status : {"none", "declined", "mismatch", "completed", "failed",
                  "blocked", "raised"},
        verified : BOOLEAN, run : Attempts]]
  /\ told \subseteq Attempts
  /\ good \subseteq Attempts
  /\ crashes \in 0..MaxCrashes

NodeStatesOf(s) == [n \in Nodes |-> s.nodes[n].state]

Init ==
  /\ runs = [a \in Attempts |-> NoRun]
  /\ receipt = [a \in Attempts |-> NoReceipt]
  /\ pc = [p \in Clients |-> "idle"]
  /\ att = [p \in Clients |-> 1]
  /\ idx = [p \in Clients |-> 1]
  /\ seen = [p \in Clients |-> NodeStatesOf(NoRun)]
  /\ out = [p \in Clients |-> NoOutcome]
  /\ reply = [p \in Clients |-> NoReply]
  /\ told = {}
  /\ good = {}
  /\ crashes = 0

-----------------------------------------------------------------------------
(* One operation of the store.  The process goes on at ok with the         *)
(* snapshot it is returned, or at broken when the store refuses.           *)
RunTo(state, reason) ==
  [type |-> "run_transition", to |-> state, approved |-> FALSE,
   reason |-> reason]
NodeTo(n, state, reason) ==
  [type |-> "node_transition", node |-> n, to |-> state, approved |-> FALSE,
   reason |-> reason]

Repeated(s, cmd, key) == s.idem[key] = cmd
Admits(s, cmd, key)   == s.idem[key] = None /\ Permits(s, cmd, 0)
After(s, cmd, key)    == Apply(s, EventOf(s, cmd, key, 0), 0)

StoreCall(p, cmd, key, ok, broken) ==
  LET s == runs[att[p]]
      t == IF Admits(s, cmd, key) THEN After(s, cmd, key) ELSE s
  IN  IF Repeated(s, cmd, key) \/ Admits(s, cmd, key)
        THEN /\ runs' = [runs EXCEPT ![att[p]] = t]
             /\ seen' = [seen EXCEPT ![p] = NodeStatesOf(t)]
             /\ pc' = [pc EXCEPT ![p] = ok]
        ELSE /\ pc' = [pc EXCEPT ![p] = broken]
             /\ UNCHANGED <<runs, seen>>

(* The invocation ends with a result that names the run a.  What a process *)
(* knew dies with it.                                                      *)
Reply(p, status, verified, a) ==
  /\ reply' = [reply EXCEPT ![p] =
       [status |-> status, verified |-> verified, run |-> a]]
  /\ pc' = [pc EXCEPT ![p] = "idle"]
  /\ att' = [att EXCEPT ![p] = 1]
  /\ idx' = [idx EXCEPT ![p] = 1]
  /\ seen' = [seen EXCEPT ![p] = NodeStatesOf(NoRun)]
  /\ out' = [out EXCEPT ![p] = NoOutcome]

Ghosts == <<told, good, crashes>>
Local  == <<att, idx, out, reply>>

-----------------------------------------------------------------------------
(* run and plan.  A plan-only, denied or unsandboxable request returns at  *)
(* once; a --resume id must be the derived run id.                         *)
Decline(p) ==
  /\ pc[p] = "idle"
  /\ Reply(p, "declined", FALSE, 1)
  /\ UNCHANGED <<runs, receipt, Ghosts>>

Fresh(p) ==
  /\ "fresh" \in Invocations
  /\ pc[p] = "idle"
  /\ pc' = [pc EXCEPT ![p] = "resolve"]
  /\ reply' = [reply EXCEPT ![p] = NoReply]
  /\ UNCHANGED <<runs, receipt, att, idx, seen, out, Ghosts>>

Resume(p) ==
  /\ "resume" \in Invocations
  /\ pc[p] = "idle"
  /\ pc' = [pc EXCEPT ![p] = "load"]
  /\ reply' = [reply EXCEPT ![p] = NoReply]
  /\ UNCHANGED <<runs, receipt, att, idx, seen, out, Ghosts>>

(* The user passes the id an earlier result named. *)
ResumeAttempt(p, a) ==
  /\ "resume" \in Invocations
  /\ pc[p] = "idle"
  /\ a \in told \ {1}
  /\ Reply(p, "mismatch", FALSE, a)
  /\ UNCHANGED <<runs, receipt, Ghosts>>

(* _resolve_fresh_run_id: walk the attempts, one load each. *)
ResolveFree(p) ==
  /\ pc[p] = "resolve"
  /\ runs[att[p]].state = None
  /\ pc' = [pc EXCEPT ![p] = "create"]
  /\ UNCHANGED <<runs, receipt, Local, seen, Ghosts>>

ResolveNext(p) ==
  /\ pc[p] = "resolve"
  /\ runs[att[p]].state \in RunTerminal
  /\ att[p] < MaxAttempts
  /\ att' = [att EXCEPT ![p] = @ + 1]
  /\ UNCHANGED <<runs, receipt, pc, idx, seen, out, reply, Ghosts>>

ResolveTooMany(p) ==
  /\ pc[p] = "resolve"
  /\ runs[att[p]].state \in RunTerminal
  /\ att[p] = MaxAttempts
  /\ Reply(p, "failed", FALSE, 1)
  /\ UNCHANGED <<runs, receipt, Ghosts>>

ResolveBusy(p) ==
  /\ pc[p] = "resolve"
  /\ runs[att[p]].state \notin RunTerminal \cup {None}
  /\ told' = told \cup {att[p]}
  /\ Reply(p, "failed", FALSE, att[p])
  /\ UNCHANGED <<runs, receipt, good, crashes>>

(* create_run and start, outside the try: an error is the caller's. *)
Create(p) ==
  /\ pc[p] = "create"
  /\ StoreCall(p, [type |-> "run_created"], <<"harness", "create">>,
               "start", "raise")
  /\ UNCHANGED <<receipt, Local, Ghosts>>

Start(p) ==
  /\ pc[p] = "start"
  /\ StoreCall(p, RunTo("running", "none"), <<"harness", "start">>,
               "node", "raise")
  /\ UNCHANGED <<receipt, Local, Ghosts>>

(* The --resume branch: load, then start, resume or neither. *)
Load(p) ==
  LET s == runs[att[p]] IN
  /\ pc[p] = "load"
  /\ s.state \in {"created", "paused", "waiting", "running"}
  /\ pc' = [pc EXCEPT ![p] = CASE s.state = "created" -> "start"
                               [] s.state = "running" -> "node"
                               [] OTHER               -> "unpause"]
  /\ seen' = [seen EXCEPT ![p] = NodeStatesOf(s)]
  /\ UNCHANGED <<runs, receipt, Local, Ghosts>>

(* Fault: a terminal run is resumed like a running one. *)
LoadTerminalRuns(p) ==
  /\ pc[p] = "load"
  /\ runs[att[p]].state \in RunTerminal
  /\ pc' = [pc EXCEPT ![p] = "node"]
  /\ seen' = [seen EXCEPT ![p] = NodeStatesOf(runs[att[p]])]
  /\ UNCHANGED <<runs, receipt, Local, Ghosts>>

(* _resume_terminal_result: a completed run is believed only when its      *)
(* receipt is on disk, intact and verified (load_harness_receipt).         *)
LoadTerminal(p) ==
  LET done == runs[att[p]].state = "completed" /\ receipt[att[p]].verified IN
  /\ pc[p] = "load"
  /\ runs[att[p]].state \in RunTerminal
  /\ Reply(p, IF done THEN "completed" ELSE "failed", done, att[p])
  /\ UNCHANGED <<runs, receipt, Ghosts>>

(* No such run (RunNotFoundError), or one that awaits approval. *)
LoadRefused(p) ==
  LET s == runs[att[p]] IN
  /\ pc[p] = "load"
  /\ s.state \in {None, "awaiting_approval"}
  /\ Reply(p, IF s.state = None THEN "raised" ELSE "failed", FALSE, att[p])
  /\ UNCHANGED <<runs, receipt, Ghosts>>

Unpause(p) ==
  /\ pc[p] = "unpause"
  /\ StoreCall(p, RunTo("running", "none"), <<"harness", "resume">>,
               "node", "raise")
  /\ UNCHANGED <<receipt, Local, Ghosts>>

-----------------------------------------------------------------------------
(* _succeed_pending_node over the nodes before, and after, the loop.       *)
Here(p) == Order[idx[p]]

PcAfterNode(p) ==
  CASE idx[p] + 1 = ExecPos   -> "execute"
    [] idx[p] = Len(Order)    -> "complete-run"
    [] OTHER                  -> "node"

SkipNode(p) ==
  /\ pc[p] = "node"
  /\ seen[p][Here(p)] = "succeeded"
  /\ pc' = [pc EXCEPT ![p] = PcAfterNode(p)]
  /\ idx' = [idx EXCEPT ![p] = @ + 1]
  /\ UNCHANGED <<runs, receipt, att, seen, out, reply, Ghosts>>

StartNode(p) ==
  /\ pc[p] = "node"
  /\ seen[p][Here(p)] = "pending"
  /\ StoreCall(p, NodeTo(Here(p), "running", "none"), <<Here(p), "start">>,
               "finish", "handler")
  /\ UNCHANGED <<receipt, Local, Ghosts>>

FinishNode(p) ==
  /\ \/ pc[p] = "finish"
     \/ pc[p] = "node" /\ seen[p][Here(p)] \notin {"succeeded", "pending"}
  /\ StoreCall(p, NodeTo(Here(p), "succeeded", "none"),
               <<Here(p), "complete">>, PcAfterNode(p), "handler")
  /\ idx' = [idx EXCEPT ![p] = @ + 1]
  /\ UNCHANGED <<receipt, att, out, reply, Ghosts>>

(* The execute node is started unless the snapshot shows it started. *)
StartExecute(p) ==
  /\ pc[p] = "execute"
  /\ IF seen[p]["execute"] = "pending"
       THEN StoreCall(p, NodeTo("execute", "running", "none"),
                      <<"execute", "start">>, "loop", "handler")
       ELSE /\ pc' = [pc EXCEPT ![p] = "loop"]
            /\ UNCHANGED <<runs, seen>>
  /\ UNCHANGED <<receipt, Local, Ghosts>>

-----------------------------------------------------------------------------
(* What the controller observes after the loop: the loop's own verdict,    *)
(* the final iteration's verifier result, whether files changed, the       *)
(* independent false-green check, and the policy, approval and monitor     *)
(* verdicts on the change.                                                 *)
Evidence ==
  [converged : BOOLEAN, verifier : {"none", "pass", "fail"},
   changed : BOOLEAN, falseGreen : BOOLEAN, allowed : BOOLEAN,
   approvals : BOOLEAN, monitor : BOOLEAN]

(* Fault: an unchanged tree does not matter. *)
ProofCompleteVacuous(ev) ==
  ev.converged /\ ev.verifier = "pass" /\ ~ev.falseGreen

(* evaluate_completion_gate with _assess_loop_proof's assessment, which is *)
(* complete exactly when the final iteration's verifier passed.            *)
ProofComplete(ev) ==
  ev.converged /\ ev.changed /\ ev.verifier = "pass" /\ ~ev.falseGreen

PolicyOk(ev) == ev.allowed /\ ~ev.approvals /\ ~ev.monitor

Verdict(ev) ==
  IF ~ev.converged          THEN "unconverged"
  ELSE IF ~ProofComplete(ev) THEN "unproven"
  ELSE IF ~PolicyOk(ev)      THEN "blocked"
  ELSE "passed"

(* compute_verified for a completed run: the proof, the policy, and the    *)
(* stage records execute, verify and proof all succeeded.                  *)
Verified(ev) ==
  /\ ProofComplete(ev)
  /\ ev.allowed /\ ~ev.approvals
  /\ ev.converged /\ ev.verifier = "pass"

(* What a completion may rest on, stated apart from the gate's code: "all  *)
(* of the observed facts speak for the change".                            *)
Sound(ev) ==
  ev = [converged |-> TRUE, verifier |-> "pass", changed |-> TRUE,
        falseGreen |-> FALSE, allowed |-> TRUE, approvals |-> FALSE,
        monitor |-> FALSE]

LoopEnds(p, ev, reason) ==
  /\ pc[p] = "loop"
  /\ ev.converged \/ reason # "none"
  /\ ev.converged => reason = "none"
  /\ out' = [out EXCEPT ![p] =
       [verdict  |-> Verdict(ev), reason |-> reason,
        verified |-> Verdict(ev) = "passed" /\ Verified(ev)]]
  /\ good' = IF Sound(ev) THEN good \cup {att[p]} ELSE good
  /\ pc' = [pc EXCEPT ![p] =
       IF ev.converged THEN "complete-execute" ELSE "fail-execute"]
  /\ UNCHANGED <<runs, receipt, att, idx, seen, reply, told, crashes>>

(* The loop, a reader of the change or a check raised. *)
LoopRaises(p) ==
  /\ pc[p] = "loop"
  /\ pc' = [pc EXCEPT ![p] = "handler"]
  /\ UNCHANGED <<runs, receipt, Local, seen, Ghosts>>

-----------------------------------------------------------------------------
(* Settling the run by the verdict. *)
FailExecute(p) ==
  /\ pc[p] = "fail-execute"
  /\ StoreCall(p, NodeTo("execute", "failed", out[p].reason),
               <<"execute", "fail">>, "fail-run", "handler")
  /\ UNCHANGED <<receipt, Local, Ghosts>>

CompleteExecute(p) ==
  /\ pc[p] = "complete-execute"
  /\ StoreCall(p, NodeTo("execute", "succeeded", "none"),
               <<"execute", "complete">>,
               IF out[p].verdict = "passed" THEN "node" ELSE "start-verify",
               "handler")
  /\ idx' = [idx EXCEPT ![p] = ExecPos + 1]
  /\ UNCHANGED <<receipt, att, out, reply, Ghosts>>

StartVerify(p) ==
  /\ pc[p] = "start-verify"
  /\ StoreCall(p, NodeTo("verify", "running", "none"), <<"verify", "start">>,
               "fail-verify", "handler")
  /\ UNCHANGED <<receipt, Local, Ghosts>>

FailVerify(p) ==
  /\ pc[p] = "fail-verify"
  /\ IF out[p].verdict = "unproven"
       THEN StoreCall(p, NodeTo("verify", "failed", "proof"),
                      <<"verify", "fail">>, "fail-run", "handler")
       ELSE StoreCall(p, NodeTo("verify", "failed", "policy"),
                      <<"verify", "policy-block">>, "fail-run", "handler")
  /\ UNCHANGED <<receipt, Local, Ghosts>>

FailRun(p) ==
  /\ pc[p] = "fail-run"
  /\ CASE out[p].verdict = "unconverged" ->
            StoreCall(p, RunTo("failed", out[p].reason),
                      <<"harness", "fail">>, "receipt", "handler")
       [] out[p].verdict = "unproven" ->
            StoreCall(p, RunTo("failed", "proof"),
                      <<"harness", "proof-fail">>, "receipt", "handler")
       [] OTHER ->
            StoreCall(p, RunTo("failed", "policy"),
                      <<"harness", "policy-block">>, "receipt", "handler")
  /\ UNCHANGED <<receipt, Local, Ghosts>>

(* Fault: a refused completion is not noticed. *)
CompleteRunUnchecked(p) ==
  /\ pc[p] = "complete-run"
  /\ StoreCall(p, RunTo("completed", "none"), <<"harness", "complete">>,
               "receipt", "receipt")
  /\ UNCHANGED <<receipt, Local, Ghosts>>

CompleteRun(p) ==
  /\ pc[p] = "complete-run"
  /\ StoreCall(p, RunTo("completed", "none"), <<"harness", "complete">>,
               "receipt", "handler")
  /\ UNCHANGED <<receipt, Local, Ghosts>>

(* Fault: the receipt records the verdict instead of the status. *)
StatusOfVerdict(verdict) == verdict

StatusOf(verdict) ==
  CASE verdict = "passed"  -> "completed"
    [] verdict = "blocked" -> "blocked"
    [] OTHER               -> "failed"

(* _finish and _persist_receipt.  An OSError is swallowed: the file keeps  *)
(* its content when it could not be opened and is torn when it could not   *)
(* be written out.                                                         *)
Finish(p, written) ==
  /\ pc[p] = "receipt"
  /\ receipt' = [receipt EXCEPT ![att[p]] =
       CASE written = "all"  -> [status   |-> StatusOf(out[p].verdict),
                                 verified |-> out[p].verified]
         [] written = "part" -> [status |-> "torn", verified |-> FALSE]
         [] OTHER            -> @]
  /\ Reply(p, StatusOf(out[p].verdict), out[p].verified, att[p])
  /\ UNCHANGED <<runs, Ghosts>>

-----------------------------------------------------------------------------
(* The exception handler.  An error inside it is the caller's. *)
FirstRunning(s) ==
  {i \in 1..Len(Order) :
     /\ s.nodes[Order[i]].state = "running"
     /\ \A j \in 1..(i - 1) : s.nodes[Order[j]].state # "running"}

(* Fault: with no node running the run is left as it is. *)
HandlerLeaves(p) ==
  LET s == runs[att[p]] IN
  /\ pc[p] = "handler"
  /\ IF s.state = "running" /\ FirstRunning(s) # {}
       THEN /\ idx' = [idx EXCEPT ![p] = CHOOSE i \in FirstRunning(s) : TRUE]
            /\ pc' = [pc EXCEPT ![p] = "fail-running"]
            /\ UNCHANGED <<att, seen, out, reply>>
       ELSE Reply(p, "failed", FALSE, att[p])
  /\ UNCHANGED <<runs, receipt, Ghosts>>

Handler(p) ==
  LET s == runs[att[p]] IN
  /\ pc[p] = "handler"
  /\ CASE s.state = "running" /\ FirstRunning(s) # {} ->
            /\ idx' = [idx EXCEPT ![p] = CHOOSE i \in FirstRunning(s) : TRUE]
            /\ pc' = [pc EXCEPT ![p] = "fail-running"]
            /\ UNCHANGED <<att, seen, out, reply>>
       [] s.state = "running" /\ FirstRunning(s) = {} ->
            /\ pc' = [pc EXCEPT ![p] = "fail-exception"]
            /\ UNCHANGED <<att, idx, seen, out, reply>>
       [] OTHER -> Reply(p, "failed", FALSE, att[p])
  /\ UNCHANGED <<runs, receipt, Ghosts>>

FailRunning(p) ==
  /\ pc[p] = "fail-running"
  /\ StoreCall(p, NodeTo(Here(p), "failed", "error"),
               <<Here(p), "exception">>, "fail-exception", "raise")
  /\ UNCHANGED <<receipt, Local, Ghosts>>

FailException(p) ==
  /\ pc[p] = "fail-exception"
  /\ StoreCall(p, RunTo("failed", "error"), <<"harness", "exception">>,
               "error", "raise")
  /\ UNCHANGED <<receipt, Local, Ghosts>>

(* The handler's result, or the exception that leaves run(). *)
Fail(p) ==
  /\ pc[p] \in {"error", "raise"}
  /\ Reply(p, IF pc[p] = "error" THEN "failed" ELSE "raised", FALSE, att[p])
  /\ UNCHANGED <<runs, receipt, Ghosts>>

-----------------------------------------------------------------------------
Crash(p) ==
  /\ pc[p] # "idle"
  /\ crashes < MaxCrashes
  /\ crashes' = crashes + 1
  /\ Reply(p, "none", FALSE, 1)
  /\ UNCHANGED <<runs, receipt, told, good>>

CrashInReceipt(p) ==
  /\ pc[p] = "receipt"
  /\ crashes < MaxCrashes
  /\ crashes' = crashes + 1
  /\ receipt' = [receipt EXCEPT ![att[p]] =
                   [status |-> "torn", verified |-> FALSE]]
  /\ Reply(p, "none", FALSE, 1)
  /\ UNCHANGED <<runs, told, good>>

(* External: another user of the same store moves the run. *)
Intervene(a, state, i) ==
  LET s   == runs[a]
      cmd == RunTo(state, "none")
      key == <<"operator", i>>
  IN
  /\ \A j \in 1..(i - 1) : s.idem[<<"operator", j>>] # None
  /\ Admits(s, cmd, key)
  /\ runs' = [runs EXCEPT ![a] = After(s, cmd, key)]
  /\ UNCHANGED <<receipt, pc, Local, seen, Ghosts>>

Working(p) ==
  \/ ResolveFree(p) \/ ResolveNext(p) \/ ResolveTooMany(p) \/ ResolveBusy(p)
  \/ Create(p) \/ Start(p)
  \/ Load(p) \/ LoadTerminal(p) \/ LoadRefused(p) \/ Unpause(p)
  \/ SkipNode(p) \/ StartNode(p) \/ FinishNode(p) \/ StartExecute(p)
  \/ \E ev \in Evidence, reason \in StopReasons \cup {"none"} :
       LoopEnds(p, ev, reason)
  \/ LoopRaises(p)
  \/ FailExecute(p) \/ CompleteExecute(p) \/ StartVerify(p) \/ FailVerify(p)
  \/ FailRun(p) \/ CompleteRun(p)
  \/ \E written \in {"all", "part", "nothing"} : Finish(p, written)
  \/ Handler(p) \/ FailRunning(p) \/ FailException(p) \/ Fail(p)

Next ==
  \/ \E p \in Clients :
       \/ Decline(p) \/ Fresh(p) \/ Resume(p)
       \/ \E a \in Attempts : ResumeAttempt(p, a)
       \/ Working(p)
       \/ Crash(p) \/ CrashInReceipt(p)
  \/ \E a \in Attempts, state \in OperatorMoves, i \in 1..MaxMoves :
       Intervene(a, state, i)

Spec == Init /\ [][Next]_vars

(* A live process goes on (the loop is bounded by iterations, budgets and  *)
(* timeouts), and the user resumes a run again and again.                  *)
Fairness ==
  \A p \in Clients : WF_vars(Working(p)) /\ SF_vars(Resume(p))

FairSpec == Spec /\ Fairness

-----------------------------------------------------------------------------
(* A run is durably completed only if every node succeeded and some        *)
(* execution of its loop produced sound evidence, however invocations of   *)
(* the task overlap, crash and resume (completion.py, controller.py).      *)
CompletedSound ==
  \A a \in Attempts :
    runs[a].state = "completed" =>
      /\ \A i \in 1..Len(Order) : runs[a].nodes[Order[i]].state = "succeeded"
      /\ a \in good

(* An intact receipt says what the durable run says: "completed" exactly   *)
(* for completed runs, "failed" or "blocked" only for failed ones, though  *)
(* it is written after the transition and by whoever got there.            *)
ReceiptMatchesRun ==
  \A a \in Attempts :
    /\ receipt[a].status = "completed" => runs[a].state = "completed"
    /\ receipt[a].status \in {"failed", "blocked"} => runs[a].state = "failed"

(* Whoever is told "completed" is told about a completed, verified run,    *)
(* also when the news comes from --resume after a crash; and nobody is     *)
(* told "verified" without "completed".                                    *)
ReportHonest ==
  \A p \in Clients :
    /\ reply[p].status = "completed" <=> reply[p].verified
    /\ reply[p].verified => runs[reply[p].run].state = "completed"

(* A retry leaves the earlier attempt's events and receipt as they were    *)
(* (_resolve_fresh_run_id), and so does resuming a finished run.           *)
AttemptPreserved ==
  [][\A a \in Attempts :
       runs[a].state \in RunTerminal =>
         /\ runs'[a] = runs[a]
         /\ receipt[a].status # "none" => receipt'[a] = receipt[a]]_vars

(* "Refuse to double-execute a live one" (_resolve_fresh_run_id): at no    *)
(* time do two invocations run the agent loop for the same run.            *)
SingleExecution ==
  \A p, q \in Clients :
    pc[p] = "loop" /\ pc[q] = "loop" /\ att[p] = att[q] => p = q

(* Under a user who keeps resuming, a run that was created gets to a       *)
(* terminal state, or to one in which an operator's approval is due,       *)
(* wherever earlier invocations died or failed.                            *)
RunSettles ==
  runs[1].state = "created" ~>
    runs[1].state \in RunTerminal \cup {"awaiting_approval"}
=============================================================================
