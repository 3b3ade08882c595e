----------------------------- MODULE NativeBackend -----------------------------
(***************************************************************************)
(* NativeExecutionBackend (runtime/native_backend.py): one process that    *)
(* executes a graph of nodes against the durable store and the result      *)
(* files beside it.  Layers of the graph run in order, the nodes of a      *)
(* layer one after the other or on a thread pool.  Several invocations may *)
(* be alive at once, they may die anywhere, an operator may approve, pause *)
(* or cancel, and users run the same graph again.                          *)
(*                                                                         *)
(* A store operation is one step on the snapshots of RunCommands.  Every   *)
(* handler is given, and pool means the backend's own ThreadPoolExecutor.  *)
(***************************************************************************)
EXTENDS RunCommands

CONSTANTS
  Procs,          \* invocations that may be alive at once
  Order,          \* RunSpec.nodes, in source order
  Deps,           \* node -> its dependencies
  NeedApproval,   \* nodes with approval_required
  Parallel,       \* max_workers > 1
  Outcomes,       \* what handlers do: of "succeeded", "skipped", "failed", "contract"
  MaxTries,       \* retry_policy.max_attempts
  LeaseTtl,       \* _lease_ttl
  OperatorMoves,  \* what the operator asks of the run: of "approve", "paused", "cancelled"
  MaxMoves,       \* bound: how often
  MaxLeases,      \* bound: leases granted per node
  MaxCrashes      \* bound: process deaths explored

VARIABLES
  run,       \* the durable run
  manifest,  \* runtime-spec.json: "none", "torn" or "ok"
  result,    \* node -> node-results/<node>.json: "none", "torn" or a status
  at,        \* process -> where it is in execute
  thr,       \* process -> node -> where its _run_node_with_retries is
  now,
  crashes

vars == <<run, manifest, result, at, thr, now, crashes>>

(* What a call may say went wrong; with a node's name, its error text. *)
Causes == {"none", "torn", "deps", "contract", "lease", "conflict", "refused"}

NativeKeys ==
  ({"runtime"} \X {"create", "start", "resume", "cancel", "fail", "complete",
                   "exception"})
  \cup (Nodes \X {"start", "resume", "complete", "skip", "fail", "exception",
                  "cancel-unfinished", "approval-request",
                  "run-approval-request", "release-replay"})
  \cup (Nodes \X {"lease", "release"} \X (1..MaxLeases))
  \cup (Nodes \X {"retry"} \X (1..MaxTries))
  \cup ({"operator"} \X (1..MaxMoves))

(* dependency_layers: the layer that follows the finished ones.  It is     *)
(* walked in the order of the spec.                                        *)
Layer(past) == {n \in Nodes \ past : Deps[n] \subseteq past}

(* _validate_graph: every node is listed once, and however many are done   *)
(* some other one depends on those only (the graph has no cycle).          *)
ASSUME GraphAssumption ==
  /\ Order \in Seq(Nodes)
  /\ \A n \in Nodes : \E i \in 1..Len(Order) : Order[i] = n
  /\ \A i, j \in 1..Len(Order) : Order[i] = Order[j] => i = j
  /\ Deps \in [Nodes -> SUBSET Nodes]
  /\ \A past \in SUBSET Nodes : past # Nodes => Layer(past) # {}
  /\ NeedApproval \subseteq Nodes

ASSUME NativeAssumption ==
  /\ Parallel \in BOOLEAN
  /\ Outcomes \subseteq {"succeeded", "skipped", "failed", "contract"}
  /\ MaxTries \in Nat \ {0}                  \* RetryPolicy.__post_init__
  /\ OperatorMoves \subseteq {"approve", "paused", "cancelled"}
  /\ MaxMoves \in Nat /\ MaxLeases \in Nat /\ MaxCrashes \in Nat

(* The commands and keys the backend and the operator use. *)
ASSUME StoreAssumption ==
  /\ NativeKeys \subseteq Keys
  /\ {"running", "paused", "awaiting_approval", "completed", "failed",
      "cancelled"} \subseteq RunTargets
  /\ {"running", "awaiting_approval", "succeeded", "failed", "cancelled"}
       \subseteq NodeTargets
  /\ Reasons = Nodes \cup Causes
  /\ Ttls = {LeaseTtl} /\ Clients = {"native"} /\ "transient" \in Classes
  /\ None \notin Nodes

(* The keys of the run and of the operator are no node's: "runtime:start"  *)
(* has one colon, "runtime:<node>:start" two.                              *)
ASSUME NamesAssumption == {"runtime", "operator"} \cap Nodes = {}

Written == {"succeeded", "skipped", "failed"}
Finals  == Written \cup {"contract", "lease", "conflict", "refused"}
Steps ==
  {"idle", "load", "create", "manifest", "manifest-end", "start", "layer",
   "scan", "begin", "gate", "ask", "ask-run", "work", "write", "write-end",
   "record", "sweep", "sweeping", "end-run", "complete", "replay",
   "replay-lease", "replay-resume", "replay-start", "replay-apply",
   "replay-fail", "error", "failing", "fail-run"}
Answers ==
  {"none", "raised", "completed", "interrupted", "cancelled", "failed"}

TypeOK ==
  /\ run \in Snapshots
  /\ manifest \in {"none", "torn", "ok"}
  /\ result \in [Nodes -> {"none", "torn"} \cup Written]
  /\ at \in [Procs ->
       [pc : Steps, out : Answers, resume : BOOLEAN, st : RunStates \cup {None},
        cur : [Nodes -> NodeStates], past : SUBSET Nodes, pos : Nat,
        ready : Seq(Nodes), term : Nodes \cup {None}, why : Reasons,
        got : Written \cup {"none"}]]
  /\ thr \in [Procs -> [Nodes ->
       [pc : {"off", "look", "take", "handler", "decide", "retry", "release",
              "done"},
        num : Nat, try : Nat, res : Finals \cup {"none"}]]]
  /\ now \in 0..MaxTime
  /\ crashes \in 0..MaxCrashes

StatesOf(s) == [n \in Nodes |-> s.nodes[n].state]
Idle ==
  [pc |-> "idle", out |-> "none", resume |-> FALSE, st |-> None,
   cur |-> StatesOf(NoRun), past |-> {}, pos |-> 1, ready |-> <<>>,
   term |-> None, why |-> "none", got |-> "none"]
Off == [pc |-> "off", num |-> 0, try |-> 0, res |-> "none"]

Init ==
  /\ run = NoRun
  /\ manifest = "none"
  /\ result = [n \in Nodes |-> "none"]
  /\ at = [p \in Procs |-> Idle]
  /\ thr = [p \in Procs |-> [n \in Nodes |-> Off]]
  /\ now = 0
  /\ crashes = 0

-----------------------------------------------------------------------------
RunTo(state, reason) ==
  [type |-> "run_transition", to |-> state, approved |-> FALSE,
   reason |-> reason]
NodeTo(n, state, reason) ==
  [type |-> "node_transition", node |-> n, to |-> state, approved |-> FALSE,
   reason |-> reason]
ApproveRun == [RunTo("running", "none") EXCEPT !.approved = TRUE]
ApproveNode(n) == [NodeTo(n, "running", "none") EXCEPT !.approved = TRUE]

(* What the store answers: it knows the key already ("same", or "conflict" *)
(* with another command), records the command ("new"), or refuses it.      *)
Answer(cmd, key) ==
  IF run.idem[key] = cmd THEN "same"
  ELSE IF run.idem[key] # None THEN "conflict"
  ELSE IF Permits(run, cmd, now) THEN "new" ELSE "refused"

Taken(cmd, key) == Answer(cmd, key) \in {"same", "new"}

RunAfter(cmd, key, token) ==
  IF Answer(cmd, key) = "new"
    THEN Apply(run, EventOf(run, cmd, key, now), token) ELSE run

(* Where a process is next: at another step, at the next node of the spec, *)
(* in the except clause, or back with its caller.                          *)
Goto(p, step)   == [at[p] EXCEPT !.pc = step]
NextNode(p)     == [at[p] EXCEPT !.pc = "scan", !.pos = @ + 1]
Raise(p, cause) == [at[p] EXCEPT !.pc = "error", !.why = cause]
Return(answer)  == [Idle EXCEPT !.out = answer]

(* One store operation of p, and where p is after it. *)
Call(p, cmd, key, taken, refused) ==
  /\ run' = RunAfter(cmd, key, 0)
  /\ at' = [at EXCEPT ![p] = IF Taken(cmd, key) THEN taken ELSE refused]

Files == <<manifest, result>>
Rest  == <<Files, thr, now, crashes>>

(* The same at a step of the try block, where a refusal raises. *)
CallAt(step, p, cmd, key, taken) ==
  /\ at[p].pc = step
  /\ Call(p, cmd, key, taken, Raise(p, Answer(cmd, key)))
  /\ UNCHANGED Rest

Node(p) == Order[at[p].pos]

-----------------------------------------------------------------------------
(* execute *)
Execute(p, resume) ==
  /\ at[p].pc = "idle"
  /\ at' = [at EXCEPT ![p] = [Idle EXCEPT !.pc = "load", !.resume = resume]]
  /\ UNCHANGED <<run, Rest>>

(* execute after _load_or_create: what the run's state decides. *)
Dispatch(p, state) ==
  CASE state = "completed" ->
         IF \E n \in Nodes : result[n] = "torn"
           THEN Return("raised") ELSE Return("completed")
    [] state = "awaiting_approval" -> Return("interrupted")
    [] state = "cancelled"         -> Return("cancelled")
    [] state = "running"           -> Goto(p, "layer")
    [] OTHER                       -> Goto(p, "start")

(* _load_or_create, when there is a run: its manifest must be there. *)
Load(p) ==
  /\ at[p].pc = "load"
  /\ at' = [at EXCEPT ![p] =
       IF run.state = None
         THEN IF at[p].resume THEN Return("raised") ELSE Goto(p, "create")
         ELSE IF manifest = "ok" THEN Dispatch(p, run.state)
                                 ELSE Return("raised")]
  /\ UNCHANGED <<run, Rest>>

Create(p) ==
  LET cmd == [type |-> "run_created"]
      key == <<"runtime", "create">>
  IN  /\ at[p].pc = "create"
      /\ Call(p, cmd, key,
              [at[p] EXCEPT !.pc = "manifest",
                            !.st = RunAfter(cmd, key, 0).state],
              Return("raised"))
      /\ UNCHANGED Rest

(* _write_spec_manifest: write_text empties the file, then fills it. *)
OpenManifest(p) ==
  /\ at[p].pc = "manifest"
  /\ manifest' = "torn"
  /\ at' = [at EXCEPT ![p] = Goto(p, "manifest-end")]
  /\ UNCHANGED <<run, result, thr, now, crashes>>

FillManifest(p) ==
  /\ at[p].pc = "manifest-end"
  /\ manifest' = "ok"
  /\ at' = [at EXCEPT ![p] = Dispatch(p, at[p].st)]
  /\ UNCHANGED <<run, result, thr, now, crashes>>

(* store.start, outside the try.  A key used before is answered with the   *)
(* run as it is, also when it is failed or paused.                         *)
Start(p) ==
  /\ at[p].pc = "start"
  /\ Call(p, RunTo("running", "none"), <<"runtime", "start">>,
          Goto(p, "layer"), Return("raised"))
  /\ UNCHANGED Rest

(* The next dependency layer: one load for all of its nodes. *)
EnterLayer(p) ==
  /\ at[p].pc = "layer"
  /\ at' = [at EXCEPT ![p] =
       IF Layer(at[p].past) = {} THEN Goto(p, "complete")
       ELSE [at[p] EXCEPT !.pc = "scan", !.cur = StatesOf(run), !.pos = 1,
                          !.ready = <<>>, !.term = None]]
  /\ UNCHANGED <<run, Rest>>

(* Fault: the dependencies are not looked at. *)
ScanUnordered(p) ==
  LET state == at[p].cur[Node(p)]
      file  == result[Node(p)]
  IN  IF state = "succeeded" THEN
        IF file = "torn" THEN Raise(p, "torn") ELSE NextNode(p)
      ELSE IF state = "cancelled" THEN Return("cancelled")
      ELSE IF state = "awaiting_approval" THEN Return("interrupted")
      ELSE IF file = "torn" THEN Raise(p, "torn")
      ELSE IF file # "none" THEN [at[p] EXCEPT !.pc = "replay", !.got = file]
      ELSE Goto(p, IF state = "pending" THEN "begin" ELSE "gate")

(* Fault: a result on file is taken into account only once recorded. *)
ScanIgnoringFiles(p) ==
  LET state == at[p].cur[Node(p)] IN
  CASE state = "succeeded"         -> NextNode(p)
    [] state = "cancelled"         -> Return("cancelled")
    [] state = "awaiting_approval" -> Return("interrupted")
    [] state = "pending"           -> Goto(p, "begin")
    [] OTHER                       -> Goto(p, "gate")

(* What is to be done about a node, from the state the layer was entered   *)
(* with and its result file.  A failed or paused node is run.              *)
ScanStep(p) ==
  LET state == at[p].cur[Node(p)]
      file  == result[Node(p)]
  IN  IF state = "succeeded" THEN
        IF file = "torn" THEN Raise(p, "torn") ELSE NextNode(p)
      ELSE IF state = "cancelled" THEN Return("cancelled")
      ELSE IF state = "awaiting_approval" THEN Return("interrupted")
      ELSE IF file = "torn" THEN Raise(p, "torn")
      ELSE IF file # "none" THEN [at[p] EXCEPT !.pc = "replay", !.got = file]
      ELSE IF \E d \in Deps[Node(p)] : at[p].cur[d] # "succeeded"
        THEN Raise(p, "deps")
      ELSE Goto(p, IF state = "pending" THEN "begin" ELSE "gate")

Scan(p) ==
  /\ at[p].pc = "scan"
  /\ at[p].pos <= Len(Order)
  /\ at' = [at EXCEPT ![p] =
       IF Node(p) \in Layer(at[p].past) THEN ScanStep(p) ELSE NextNode(p)]
  /\ UNCHANGED <<run, Rest>>

Begin(p) ==
  CallAt("begin", p, NodeTo(Node(p), "running", "none"), <<Node(p), "start">>,
         [at[p] EXCEPT !.pc = "gate", !.cur[Node(p)] = "running"])

(* _node_has_approval *)
Approved(n) == \E k \in Keys : run.idem[k] = ApproveNode(n)

(* Fault: a running run counts as approved. *)
GateByRun(p) ==
  /\ at[p].pc = "gate"
  /\ at' = [at EXCEPT ![p] =
       IF Node(p) \in NeedApproval /\ run.state # "running"
         THEN Goto(p, "ask")
         ELSE [NextNode(p) EXCEPT !.ready = Append(@, Node(p))]]
  /\ UNCHANGED <<run, Rest>>

Gate(p) ==
  /\ at[p].pc = "gate"
  /\ at' = [at EXCEPT ![p] =
       IF /\ Node(p) \in NeedApproval
          /\ at[p].cur[Node(p)] = "running"
          /\ ~Approved(Node(p))
         THEN Goto(p, "ask")
         ELSE [NextNode(p) EXCEPT !.ready = Append(@, Node(p))]]
  /\ UNCHANGED <<run, Rest>>

AskNode(p) ==
  CallAt("ask", p, NodeTo(Node(p), "awaiting_approval", Node(p)),
         <<Node(p), "approval-request">>, Goto(p, "ask-run"))

AskRun(p) ==
  CallAt("ask-run", p, RunTo("awaiting_approval", Node(p)),
         <<Node(p), "run-approval-request">>, Return("interrupted"))

-----------------------------------------------------------------------------
(* _apply_persisted_result: a result on file whose node is not recorded.   *)
(* InvalidTransitionError is swallowed, the result counts all the same.    *)
Replayed(p) ==
  CASE at[p].got = "succeeded" -> NextNode(p)
    [] at[p].got = "skipped" ->
         [at[p] EXCEPT !.pc = "sweep", !.term = Node(p)]
    [] OTHER -> Return("failed")
Swallow(p, cmd, key) ==
  IF Answer(cmd, key) = "refused" THEN Replayed(p)
  ELSE Raise(p, Answer(cmd, key))

ReplayLoad(p) ==
  /\ at[p].pc = "replay"
  /\ at' = [at EXCEPT ![p] =
       [at[p] EXCEPT !.pc = "replay-lease", !.st = run.state,
                     !.cur[Node(p)] = run.nodes[Node(p)].state]]
  /\ UNCHANGED <<run, Rest>>

(* _release_active_lease, its load and its release as one step; an expired *)
(* lease is left where it is.                                              *)
ReplayLease(p) ==
  LET lease == run.nodes[Node(p)].lease
      cmd   == [type |-> "lease_released", node |-> Node(p),
                token |-> lease.token]
      key   == <<Node(p), "release-replay">>
      next  == Goto(p, IF at[p].st = "running" THEN "replay-start"
                                               ELSE "replay-resume")
  IN  /\ at[p].pc = "replay-lease"
      /\ IF lease = None
           THEN at' = [at EXCEPT ![p] = next] /\ run' = run
           ELSE Call(p, cmd, key, next,
                     IF Answer(cmd, key) = "refused" THEN next
                                                     ELSE Raise(p, "conflict"))
      /\ UNCHANGED Rest

ReplayResume(p) ==
  LET cmd == RunTo("running", "none")
      key == <<"runtime", "resume">>
  IN  /\ at[p].pc = "replay-resume"
      /\ Call(p, cmd, key, Goto(p, "replay-start"), Swallow(p, cmd, key))
      /\ UNCHANGED Rest

ReplayStart(p) ==
  LET cmd == NodeTo(Node(p), "running", "none")
      key == <<Node(p),
               IF at[p].cur[Node(p)] = "pending" THEN "start" ELSE "resume">>
  IN  /\ at[p].pc = "replay-start"
      /\ IF at[p].cur[Node(p)] = "running"
           THEN at' = [at EXCEPT ![p] = Goto(p, "replay-apply")] /\ run' = run
           ELSE Call(p, cmd, key, Goto(p, "replay-apply"), Swallow(p, cmd, key))
      /\ UNCHANGED Rest

(* The command that records a node's result, and its key. *)
Recording(n, status) ==
  CASE status = "succeeded" -> NodeTo(n, "succeeded", "none")
    [] status = "skipped"   -> NodeTo(n, "cancelled", n)
    [] OTHER                -> NodeTo(n, "failed", n)
RecordKey(n, status) ==
  <<n, CASE status = "succeeded" -> "complete"
         [] status = "skipped"   -> "skip"
         [] OTHER                -> "fail">>

ReplayApply(p) ==
  LET status == at[p].got
      cmd    == Recording(Node(p), status)
      key    == RecordKey(Node(p), status)
  IN  /\ at[p].pc = "replay-apply"
      /\ Call(p, cmd, key,
              IF status = "failed" THEN Goto(p, "replay-fail") ELSE Replayed(p),
              Swallow(p, cmd, key))
      /\ UNCHANGED Rest

ReplayFail(p) ==
  LET cmd == RunTo("failed", Node(p))
      key == <<"runtime", "fail">>
  IN  /\ at[p].pc = "replay-fail"
      /\ Call(p, cmd, key, Return("failed"), Swallow(p, cmd, key))
      /\ UNCHANGED Rest

-----------------------------------------------------------------------------
(* _run_ready_nodes: a thread per node, or one node after the other until  *)
(* one does not succeed.                                                   *)
StartWork(p) ==
  /\ at[p].pc = "scan"
  /\ at[p].pos > Len(Order)
  /\ at' = [at EXCEPT ![p] = Goto(p, "work")]
  /\ thr' = [thr EXCEPT ![p] = [n \in Nodes |->
       IF \E i \in 1..Len(at[p].ready) : at[p].ready[i] = n
         THEN [Off EXCEPT !.pc = "look"] ELSE Off]]
  /\ UNCHANGED <<run, Files, now, crashes>>

Finished(p, i) == thr[p][at[p].ready[i]].pc = "done"
ResultAt(p, i) == thr[p][at[p].ready[i]].res

Turn(p, n) ==
  /\ at[p].pc = "work"
  /\ \E i \in 1..Len(at[p].ready) :
       /\ at[p].ready[i] = n
       /\ ~Parallel => \A j \in 1..(i - 1) :
            Finished(p, j) /\ ResultAt(p, j) = "succeeded"

Thread(p, n, record) == thr' = [thr EXCEPT ![p][n] = record]
Stops(p, n, status) ==
  [thr[p][n] EXCEPT !.pc = "release", !.res = status]

(* _acquire_node_lease: a lease that is there is used, whoever took it and *)
(* expired or not; otherwise the next of the node's lease keys.            *)
LeaseLook(p, n) ==
  LET lease == run.nodes[n].lease
      used  == {k \in 1..MaxLeases : run.idem[<<n, "lease", k>>] # None}
  IN  /\ Turn(p, n)
      /\ thr[p][n].pc = "look"
      /\ lease = None => Cardinality(used) < MaxLeases
      /\ Thread(p, n,
           IF lease # None
             THEN [thr[p][n] EXCEPT !.pc = "handler", !.num = lease.token]
             ELSE [thr[p][n] EXCEPT !.pc = "take", !.num = Cardinality(used) + 1])
      /\ UNCHANGED <<run, at, Files, now, crashes>>

LeaseTake(p, n) ==
  LET cmd == [type |-> "lease_acquired", node |-> n, owner |-> "native",
              ttl |-> LeaseTtl]
      key == <<n, "lease", thr[p][n].num>>
      run2 == RunAfter(cmd, key, thr[p][n].num)
  IN  /\ Turn(p, n)
      /\ thr[p][n].pc = "take"
      /\ run' = run2
      /\ Thread(p, n,
           IF Taken(cmd, key) /\ run2.nodes[n].lease # None
             THEN [thr[p][n] EXCEPT !.pc = "handler",
                                    !.num = run2.nodes[n].lease.token]
             ELSE [thr[p][n] EXCEPT !.pc = "done", !.res = "lease"])
      /\ UNCHANGED <<at, Files, now, crashes>>

(* The handler returns or raises.  A result that breaks the contract ends  *)
(* the execution; a failure may be tried again.                            *)
HandlerEnds(p, n, outcome) ==
  /\ Turn(p, n)
  /\ thr[p][n].pc = "handler"
  /\ Thread(p, n, IF outcome = "failed"
                    THEN [thr[p][n] EXCEPT !.pc = "decide"]
                    ELSE Stops(p, n, outcome))
  /\ UNCHANGED <<run, at, Files, now, crashes>>

(* Fault: the first try is not counted. *)
DecideOneMore(p, n, retryable) ==
  /\ Turn(p, n)
  /\ thr[p][n].pc = "decide"
  /\ Thread(p, n,
       IF retryable /\ run.nodes[n].attempts < MaxTries
         THEN [thr[p][n] EXCEPT !.pc = "retry",
                                !.try = run.nodes[n].attempts + 1]
         ELSE Stops(p, n, "failed"))
  /\ UNCHANGED <<run, at, Files, now, crashes>>

(* _record_retry_if_allowed: the class of the error, and the retries the   *)
(* run has recorded for the node.                                          *)
Decide(p, n, retryable) ==
  /\ Turn(p, n)
  /\ thr[p][n].pc = "decide"
  /\ Thread(p, n,
       IF retryable /\ run.nodes[n].attempts + 1 < MaxTries
         THEN [thr[p][n] EXCEPT !.pc = "retry",
                                !.try = run.nodes[n].attempts + 1]
         ELSE Stops(p, n, "failed"))
  /\ UNCHANGED <<run, at, Files, now, crashes>>

Retry(p, n) ==
  LET cmd == [type |-> "retry_recorded", node |-> n, class |-> "transient"]
      key == <<n, "retry", thr[p][n].try>>
  IN  /\ Turn(p, n)
      /\ thr[p][n].pc = "retry"
      /\ run' = RunAfter(cmd, key, 0)
      /\ Thread(p, n, IF Taken(cmd, key)
                        THEN [thr[p][n] EXCEPT !.pc = "handler"]
                        ELSE Stops(p, n, Answer(cmd, key)))
      /\ UNCHANGED <<at, Files, now, crashes>>

(* The finally clause.  LeaseExpiredError is swallowed; a lease that is    *)
(* somebody else's by now is not, and the result is lost.                  *)
Release(p, n) ==
  LET cmd   == [type |-> "lease_released", node |-> n, token |-> thr[p][n].num]
      key   == <<n, "release", thr[p][n].num>>
      lease == run.nodes[n].lease
      lost  == /\ ~Taken(cmd, key)
               /\ lease # None
               /\ lease.expires > now
  IN  /\ Turn(p, n)
      /\ thr[p][n].pc = "release"
      /\ run' = RunAfter(cmd, key, 0)
      /\ Thread(p, n, [thr[p][n] EXCEPT !.pc = "done",
                                        !.res = IF lost THEN "lease" ELSE @])
      /\ UNCHANGED <<at, Files, now, crashes>>

(* All threads of the layer are done; the first that raised decides. *)
Ended(p) ==
  \A i \in 1..Len(at[p].ready) :
    ~Finished(p, i) =>
      /\ ~Parallel
      /\ \E j \in 1..(i - 1) : Finished(p, j) /\ ResultAt(p, j) # "succeeded"
Raising(p) ==
  {i \in 1..Len(at[p].ready) : Finished(p, i) /\ ResultAt(p, i) \notin Written}

Join(p) ==
  /\ at[p].pc = "work"
  /\ Ended(p)
  /\ \/ /\ Raising(p) = {}
        /\ at' = [at EXCEPT ![p] = [at[p] EXCEPT !.pc = "write", !.pos = 1]]
     \/ \E i \in Raising(p) :
          /\ \A j \in Raising(p) : i <= j
          /\ at' = [at EXCEPT ![p] = Raise(p, ResultAt(p, i))]
  /\ UNCHANGED <<run, Rest>>

-----------------------------------------------------------------------------
(* The results of the layer, in order: the file, then the store. *)
Settling(p) == at[p].ready[at[p].pos]
Unsettled(p) ==
  at[p].pos <= Len(at[p].ready) /\ Finished(p, at[p].pos)

(* _write_result: write_text empties the file, then fills it. *)
OpenResult(p) ==
  /\ at[p].pc = "write"
  /\ Unsettled(p)
  /\ result' = [result EXCEPT ![Settling(p)] = "torn"]
  /\ at' = [at EXCEPT ![p] = Goto(p, "write-end")]
  /\ UNCHANGED <<run, manifest, thr, now, crashes>>

FillResult(p) ==
  /\ at[p].pc = "write-end"
  /\ result' = [result EXCEPT ![Settling(p)] = ResultAt(p, at[p].pos)]
  /\ at' = [at EXCEPT ![p] = Goto(p, "record")]
  /\ UNCHANGED <<run, manifest, thr, now, crashes>>

(* Fault: a skipped node does not end the run. *)
RecordSkipIgnored(p) ==
  LET n      == Settling(p)
      status == ResultAt(p, at[p].pos)
  IN  CallAt("record", p, Recording(n, status), RecordKey(n, status),
             [at[p] EXCEPT !.pc = "write", !.pos = @ + 1,
                           !.term = IF status = "failed" THEN n ELSE @])

(* Fault: whichever disposition is recorded last ends the run. *)
RecordLastWins(p) ==
  LET n      == Settling(p)
      status == ResultAt(p, at[p].pos)
  IN  CallAt("record", p, Recording(n, status), RecordKey(n, status),
             [at[p] EXCEPT !.pc = "write", !.pos = @ + 1,
                           !.term = IF status = "succeeded" THEN @ ELSE n])

Record(p) ==
  LET n      == Settling(p)
      status == ResultAt(p, at[p].pos)
      ends   == status = "failed" \/ (status = "skipped" /\ at[p].term = None)
  IN  CallAt("record", p, Recording(n, status), RecordKey(n, status),
             [at[p] EXCEPT !.pc = "write", !.pos = @ + 1,
                           !.term = IF ends THEN n ELSE @])

Settled(p) ==
  /\ at[p].pc = "write"
  /\ ~Unsettled(p)
  /\ at' = [at EXCEPT ![p] =
       IF at[p].term = None
         THEN [at[p] EXCEPT !.pc = "layer", !.past = @ \cup Layer(@)]
         ELSE [at[p] EXCEPT !.pc = "sweep",
                            !.got = thr[p][at[p].term].res]]
  /\ thr' = [thr EXCEPT ![p] = [n \in Nodes |-> Off]]
  /\ UNCHANGED <<run, Files, now, crashes>>

(* _cancel_unfinished_nodes, along RunSpec.topological_order (up to the    *)
(* order within a layer).                                                  *)
SweepLoad(p) ==
  /\ at[p].pc = "sweep"
  /\ at' = [at EXCEPT ![p] =
       [at[p] EXCEPT !.pc = "sweeping", !.cur = StatesOf(run), !.past = {},
                     !.pos = 1]]
  /\ UNCHANGED <<run, Rest>>

Onward(p) ==
  IF at[p].pos < Len(Order) THEN [at[p] EXCEPT !.pos = @ + 1]
  ELSE [at[p] EXCEPT !.past = @ \cup Layer(@), !.pos = 1]

Sweep(p) ==
  LET n   == Node(p)
      cmd == NodeTo(n, "cancelled", at[p].term)
      key == <<n, "cancel-unfinished">>
  IN  /\ at[p].pc = "sweeping"
      /\ Layer(at[p].past) # {}
      /\ IF n \notin Layer(at[p].past) \/ at[p].cur[n] \in NodeTerminal
           THEN at' = [at EXCEPT ![p] = Onward(p)] /\ run' = run
           ELSE Call(p, cmd, key,
                     [Onward(p) EXCEPT !.cur = StatesOf(RunAfter(cmd, key, 0))],
                     Raise(p, Answer(cmd, key)))
      /\ UNCHANGED Rest

(* store.cancel or store.fail. *)
EndRun(p) ==
  LET skip  == at[p].got = "skipped"
      state == IF skip THEN "cancelled" ELSE "failed"
  IN  /\ Layer(at[p].past) = {}
      /\ CallAt("sweeping", p, RunTo(state, at[p].term),
                <<"runtime", IF skip THEN "cancel" ELSE "fail">>, Return(state))

Complete(p) ==
  CallAt("complete", p, RunTo("completed", "none"), <<"runtime", "complete">>,
         Return("completed"))

-----------------------------------------------------------------------------
(* The except clause: _fail_running_node. *)
FailLoad(p) ==
  /\ at[p].pc = "error"
  /\ at' = [at EXCEPT ![p] =
       IF run.state # "running" THEN Return("failed")
       ELSE [at[p] EXCEPT !.pc = "failing", !.cur = StatesOf(run), !.pos = 1]]
  /\ thr' = [thr EXCEPT ![p] = [n \in Nodes |-> Off]]
  /\ UNCHANGED <<run, Files, now, crashes>>

FailNode(p) ==
  LET n   == Order[at[p].pos]
      cmd == NodeTo(n, "failed", at[p].why)
      key == <<n, "exception">>
  IN  /\ at[p].pc = "failing"
      /\ at[p].pos <= Len(Order)
      /\ IF at[p].cur[n] # "running"
           THEN at' = [at EXCEPT ![p].pos = @ + 1] /\ run' = run
           ELSE Call(p, cmd, key, [at[p] EXCEPT !.pos = @ + 1],
                     Return(IF Answer(cmd, key) = "refused" THEN "failed"
                                                            ELSE "raised"))
      /\ UNCHANGED Rest

FailRun(p) ==
  LET cmd == RunTo("failed", at[p].why)
      key == <<"runtime", "exception">>
  IN  /\ at[p].pc = "failing"
      /\ at[p].pos > Len(Order)
      /\ Call(p, cmd, key, Return("failed"),
              Return(IF Answer(cmd, key) = "refused" THEN "failed"
                                                     ELSE "raised"))
      /\ UNCHANGED Rest

-----------------------------------------------------------------------------
Step(p) ==
  \/ Load(p) \/ Create(p) \/ OpenManifest(p) \/ FillManifest(p) \/ Start(p)
  \/ EnterLayer(p) \/ Scan(p) \/ Begin(p) \/ Gate(p) \/ AskNode(p) \/ AskRun(p)
  \/ ReplayLoad(p) \/ ReplayLease(p) \/ ReplayResume(p) \/ ReplayStart(p)
  \/ ReplayApply(p) \/ ReplayFail(p)
  \/ StartWork(p) \/ Join(p)
  \/ OpenResult(p) \/ FillResult(p) \/ Record(p) \/ Settled(p)
  \/ SweepLoad(p) \/ Sweep(p) \/ EndRun(p) \/ Complete(p)
  \/ FailLoad(p) \/ FailNode(p) \/ FailRun(p)

ThreadStep(p, n) ==
  \/ LeaseLook(p, n) \/ LeaseTake(p, n)
  \/ \E outcome \in Outcomes : HandlerEnds(p, n, outcome)
  \/ \E retryable \in BOOLEAN : Decide(p, n, retryable)
  \/ Retry(p, n) \/ Release(p, n)

(* The process dies; what it knew dies with it. *)
Crash(p) ==
  /\ at[p].pc # "idle"
  /\ crashes < MaxCrashes
  /\ crashes' = crashes + 1
  /\ at' = [at EXCEPT ![p] = Idle]
  /\ thr' = [thr EXCEPT ![p] = [n \in Nodes |-> Off]]
  /\ UNCHANGED <<run, Files, now>>

(* Somebody approves, pauses or cancels through the store. *)
Commanded ==
  {RunTo(s, "none") : s \in OperatorMoves \ {"approve"}}
  \cup {ApproveNode(n) : n \in IF "approve" \in OperatorMoves THEN NeedApproval
                                                              ELSE {}}
  \cup {ApproveRun : s \in OperatorMoves \cap {"approve"}}

Operator(cmd, k) ==
  /\ Answer(cmd, <<"operator", k>>) = "new"
  /\ \A j \in 1..(k - 1) : run.idem[<<"operator", j>>] # None
  /\ run' = RunAfter(cmd, <<"operator", k>>, 0)
  /\ UNCHANGED <<at, Rest>>

Tick ==
  /\ now < MaxTime
  /\ now' = now + 1
  /\ UNCHANGED <<run, Files, at, thr, crashes>>

Next ==
  \/ \E p \in Procs, resume \in BOOLEAN : Execute(p, resume)
  \/ \E p \in Procs : Step(p)
  \/ \E p \in Procs, n \in Nodes : ThreadStep(p, n)
  \/ \E p \in Procs : Crash(p)
  \/ \E cmd \in Commanded, k \in 1..MaxMoves : Operator(cmd, k)
  \/ Tick

Spec == Init /\ [][Next]_vars

(* A living invocation goes on, and users run the graph again. *)
Advance(p) == Step(p) \/ \E n \in Nodes : ThreadStep(p, n)
FairSpec ==
  /\ Spec
  /\ \A p \in Procs : WF_vars(Advance(p)) /\ WF_vars(Execute(p, TRUE))

-----------------------------------------------------------------------------
(* Whatever the store says of success, the files confirm: a node recorded  *)
(* as succeeded has a readable success on file, and in a completed run     *)
(* every node has one, wherever processes die between a file and its event.*)
CompletedSound ==
  \A n \in Nodes :
    (run.nodes[n].state = "succeeded" \/ run.state = "completed") =>
      result[n] = "succeeded"

(* "Failure outranks cancellation when a dependency-ready parallel layer   *)
(* reports both terminal dispositions" (execute): no run is cancelled over *)
(* a result on file that failed, wherever processes die and however the    *)
(* files are replayed.                                                     *)
FailureOutranks ==
  run.state = "cancelled" => \A n \in Nodes : result[n] # "failed"

(* A node is retried at most as often as its policy allows, over all       *)
(* processes, crashes and resumptions.                                     *)
RetriesBounded == \A n \in Nodes : run.nodes[n].attempts < MaxTries

HandlerStarts(p, n) ==
  thr[p][n].pc # "handler" /\ thr'[p][n].pc = "handler"

(* A handler runs only when every dependency has succeeded. *)
DependenciesFirst ==
  [][\A p \in Procs, n \in Nodes : HandlerStarts(p, n) =>
       \A d \in Deps[n] : run.nodes[d].state = "succeeded"]_vars

(* The handler of a node that needs approval runs only after somebody      *)
(* approved that node.                                                     *)
ApprovedFirst ==
  [][\A p \in Procs, n \in NeedApproval :
       HandlerStarts(p, n) => Approved(n)]_vars

(* Once a node's result is on file its handler does not run again, however *)
(* often the process dies and the graph is executed again.                 *)
NeverRerun ==
  [][\A p \in Procs, n \in Nodes :
       HandlerStarts(p, n) => result[n] \notin Written]_vars

(* After any crash, executing a running run again ends it or has it wait   *)
(* for an operator, once its manifest was written.                         *)
RunSettles ==
  (run.state = "running" /\ manifest = "ok") ~>
    \/ run.state # "running"
    \/ \E n \in Nodes : run.nodes[n].state = "awaiting_approval"
=============================================================================
