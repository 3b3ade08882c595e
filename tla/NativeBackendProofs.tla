-------------------------- MODULE NativeBackendProofs --------------------------
(***************************************************************************)
(* NativeBackend for every graph, every number of processes and every      *)
(* bound: what one call of the store does to the run, the invariant each   *)
(* process and thread keeps while others move the run, and what follows.   *)
(***************************************************************************)
EXTENDS NativeBackend, RunCommandsProofs, FiniteSetTheorems

(* The pieces of TypeOK. *)
Places ==
  [pc : Steps, out : Answers, resume : BOOLEAN, st : RunStates \cup {None},
   cur : [Nodes -> NodeStates], past : SUBSET Nodes, pos : Nat,
   ready : Seq(Nodes), term : Nodes \cup {None}, why : Reasons,
   got : Written \cup {"none"}]
(* A node's thread. *)
Threads ==
  [pc : {"off", "look", "take", "handler", "decide", "retry", "release",
         "done"},
   num : Nat, try : Nat, res : Finals \cup {"none"}]

(* The run: leases come from the backend's own keys, and the retries that  *)
(* were counted have used their keys.                                      *)
RunOK(r) ==
  /\ r \in Snapshots
  /\ \A n \in Nodes :
       /\ r.nodes[n].lease # None => r.nodes[n].lease.token \in 1..MaxLeases
       /\ r.nodes[n].attempts < MaxTries
       /\ \A k \in 1..r.nodes[n].attempts : r.idem[<<n, "retry", k>>] # None

(* What never goes back, whoever moves the run. *)
Grows(r, s) ==
  \A n \in Nodes :
    /\ r.nodes[n].state = "succeeded" => s.nodes[n].state = "succeeded"
    /\ r.nodes[n].attempts <= s.nodes[n].attempts

AtGate    == {"begin", "gate", "ask", "ask-run"}
(* The steps of execute by what they speak of: a node under scan, a        *)
(* replayed file, a layer's results, the sweep.                            *)
Replaying == {"replay", "replay-lease", "replay-resume", "replay-start",
              "replay-apply", "replay-fail"}
Scanning  == {"scan", "work"} \cup AtGate \cup Replaying
Settles   == {"write", "write-end", "record"}
Bound     == Scanning \cup Settles \cup {"sweep", "sweeping"}

(* A process: its position is a node's where it speaks of one, and what it *)
(* believes to have succeeded has.                                         *)
PlaceOK(a, r) ==
  /\ a \in Places
  /\ a.pos # 0
  /\ a.pc \in AtGate \cup Replaying => a.pos <= Len(Order)
  /\ a.pc = "sweeping" => a.pos = 1 \/ a.pos <= Len(Order)
  /\ a.pc \in Scanning => a.term = None
  /\ a.pc \in {"sweep", "sweeping"} => a.term \in Nodes
  /\ a.pc \in Replaying => a.got \in Written
  /\ \A d \in Nodes :
       a.cur[d] = "succeeded" => r.nodes[d].state = "succeeded"
  /\ a.pc \in AtGate =>
       \A d \in Deps[Order[a.pos]] : r.nodes[d].state = "succeeded"
  /\ \A i \in 1..Len(a.ready) :
       \A d \in Deps[a.ready[i]] : r.nodes[d].state = "succeeded"

(* A thread: its lease number is one of the backend's, and a retry it is   *)
(* about to record is below the limit and not ahead of the durable count.  *)
ThreadOK(t, n, r) ==
  /\ t \in Threads
  /\ t.pc \in {"take", "handler", "decide", "retry", "release"} =>
       t.num \in 1..MaxLeases
  /\ t.pc = "retry" =>
       /\ t.try \in 1..(r.nodes[n].attempts + 1)
       /\ t.try < MaxTries
  /\ t.pc \in {"release", "done"} => t.res \in Finals

(* While results are written, the threads' results can be. *)
JoinOK(a, th) ==
  a.pc \in Settles =>
    /\ \A i \in 1..Len(a.ready) :
         th[a.ready[i]].pc = "done" => th[a.ready[i]].res \in Written
    /\ a.pc # "write" => a.pos <= Len(a.ready) /\ th[a.ready[a.pos]].pc = "done"
    /\ a.term # None => th[a.term].res \in Written

(* The types of everything but the run. *)
Globals ==
  /\ manifest \in {"none", "torn", "ok"}
  /\ result \in [Nodes -> {"none", "torn"} \cup Written]
  /\ at \in [Procs -> Places]
  /\ thr \in [Procs -> [Nodes -> Threads]]
  /\ now \in 0..MaxTime
  /\ crashes \in 0..MaxCrashes

(* What is true of each process and its threads. *)
ProcOK(p) ==
  /\ PlaceOK(at[p], run)
  /\ JoinOK(at[p], thr[p])
  /\ \A n \in Nodes : ThreadOK(thr[p][n], n, run)

(* The inductive invariant for any number of processes. *)
NativeInv ==
  /\ Globals
  /\ RunOK(run)
  /\ \A p \in Procs : ProcOK(p)

(* The invariant contains the type invariant. *)
LEMMA InvTyped == NativeInv => TypeOK
  BY DEF NativeInv, Globals, RunOK, TypeOK, Places, Threads

-----------------------------------------------------------------------------
(* Commands and keys. *)

(* The topological order lists nodes. *)
LEMMA OrderNodes ==
  /\ \A i \in 1..Len(Order) : Order[i] \in Nodes
  /\ Len(Order) \in Nat
  BY GraphAssumption

(* The run transitions that the backend makes are commands. *)
LEMMA RunToType ==
  ASSUME NEW reason \in Reasons,
         NEW state \in {"running", "paused", "awaiting_approval", "completed",
                        "failed", "cancelled"}
  PROVE  RunTo(state, reason) \in Commands
  BY StoreAssumption DEF RunTo, Commands, CommandsWith, RunCmds

(* So are its node transitions, *)
LEMMA NodeToType ==
  ASSUME NEW n \in Nodes, NEW reason \in Reasons,
         NEW state \in {"running", "awaiting_approval", "succeeded", "failed",
                        "cancelled"}
  PROVE  NodeTo(n, state, reason) \in Commands
  BY StoreAssumption DEF NodeTo, Commands, CommandsWith, NodeCmds

(* the approvals, *)
LEMMA ApproveType ==
  /\ ApproveRun \in Commands
  /\ \A n \in Nodes : ApproveNode(n) \in Commands
<1>1. "none" \in Reasons
  BY StoreAssumption DEF Causes
<1>2. ApproveRun \in Commands
  BY <1>1, StoreAssumption
    DEF ApproveRun, RunTo, Commands, CommandsWith, RunCmds
<1>3. ASSUME NEW n \in Nodes PROVE ApproveNode(n) \in Commands
  BY <1>1, StoreAssumption
    DEF ApproveNode, NodeTo, Commands, CommandsWith, NodeCmds
<1>. QED
  BY <1>2, <1>3

(* the creation, the lease calls and the retries. *)
LEMMA OtherCmdTypes ==
  ASSUME NEW n \in Nodes
  PROVE  /\ [type |-> "run_created"] \in Commands
         /\ [type |-> "lease_acquired", node |-> n, owner |-> "native",
             ttl |-> LeaseTtl] \in Commands
         /\ \A t \in Nat :
              [type |-> "lease_released", node |-> n, token |-> t] \in Commands
         /\ [type |-> "retry_recorded", node |-> n, class |-> "transient"]
              \in Commands
  BY StoreAssumption DEF Commands, CommandsWith, AcquireCmds, ReleaseCmds,
       RetryCmds, CreateCmds

-----------------------------------------------------------------------------
(* What one call does to the run. *)

(* Commands that touch neither leases (but to release one) nor retries. *)
Ordinary == {"run_created", "run_transition", "node_transition",
             "lease_released"}

(* A recorded command that is neither a lease nor a retry. *)
LEMMA OrdinaryApply ==
  ASSUME NEW r, RunOK(r), NEW cmd \in Commands, cmd.type \in Ordinary,
         NEW key \in Keys, NEW t \in Nat, Permits(r, cmd, t)
  PROVE  LET s == Apply(r, EventOf(r, cmd, key, t), 0) IN
         RunOK(s) /\ Grows(r, s)
<1>. DEFINE e == EventOf(r, cmd, key, t)
            s == Apply(r, e, 0)
<1>1. r \in Snapshots
  BY DEF RunOK
<1>2. s \in Snapshots
  BY <1>1, ApplyType
<1>3. e.cmd = cmd /\ e.key = key /\ e.at = t
  BY DEF EventOf
<1>4. s.nodes = NodesAfter(r, e, 0) /\ s.idem = [r.idem EXCEPT ![key] = cmd]
  BY <1>3 DEF Apply
<1>5. r.nodes \in [Nodes -> NodeSnapshots]
  BY <1>1 DEF Snapshots
<1>6. ASSUME NEW n \in Nodes
      PROVE  /\ s.nodes[n].lease \in {None, r.nodes[n].lease}
             /\ s.nodes[n].attempts = r.nodes[n].attempts
  <2>1. CASE cmd.type = "run_transition" /\ cmd.to = "cancelled"
    <3>1. s.nodes[n] = CancelNode(r.nodes[n])
      BY <1>3, <1>4, <2>1 DEF NodesAfter
    <3>. QED
      BY <1>5, <3>1 DEF CancelNode, NodeSnapshots
  <2>2. CASE cmd.type = "node_transition"
    BY <1>3, <1>4, <1>5, <2>2, CommandFields DEF NodesAfter, NodeSnapshots
  <2>3. CASE cmd.type = "lease_released"
    BY <1>3, <1>4, <1>5, <2>3, CommandFields DEF NodesAfter, NodeSnapshots
  <2>4. CASE /\ ~(cmd.type = "run_transition" /\ cmd.to = "cancelled")
             /\ cmd.type \notin {"node_transition", "lease_released"}
    BY <1>3, <1>4, <2>4 DEF NodesAfter, Ordinary
  <2>. QED
    BY <2>1, <2>2, <2>3, <2>4
<1>7. ASSUME NEW k \in Keys, r.idem[k] # None PROVE s.idem[k] # None
  BY <1>1, <1>4, <1>7, NoneAssumption DEF Snapshots
<1>8. ASSUME NEW n \in Nodes, NEW k \in 1..r.nodes[n].attempts
      PROVE  s.idem[<<n, "retry", k>>] # None
  <2>1. k \in 1..MaxTries
    BY <1>5, NativeAssumption DEF RunOK, NodeSnapshots
  <2>2. <<n, "retry", k>> \in Keys
    BY <2>1, StoreAssumption DEF NativeKeys
  <2>. QED
    BY <1>7, <2>2 DEF RunOK
<1>9. RunOK(s)
  BY <1>2, <1>6, <1>8 DEF RunOK
<1>10. \A n \in Nodes : r.nodes[n].state = "succeeded" =>
         s.nodes[n].state = "succeeded"
  BY <1>1, TerminalAfter DEF NodeTerminal
<1>11. \A n \in Nodes : r.nodes[n].attempts <= s.nodes[n].attempts
  BY <1>5, <1>6 DEF NodeSnapshots
<1>. QED
  BY <1>9, <1>10, <1>11 DEF Grows

(* Nothing goes back when nothing moves. *)
LEMMA GrowsRefl ==
  ASSUME NEW r \in Snapshots PROVE Grows(r, r)
  BY DEF Grows, Snapshots, NodeSnapshots

(* The same for a call, recorded or not. *)
LEMMA OrdinaryCall ==
  ASSUME RunOK(run), now \in Nat, NEW cmd \in Commands, cmd.type \in Ordinary,
         NEW key \in Keys
  PROVE  RunOK(RunAfter(cmd, key, 0)) /\ Grows(run, RunAfter(cmd, key, 0))
<1>1. run \in Snapshots
  BY DEF RunOK
<1>2. CASE Answer(cmd, key) = "new"
  <2>1. Permits(run, cmd, now)
    BY <1>2 DEF Answer
  <2>. QED
    BY <1>2, <2>1, OrdinaryApply DEF RunAfter
<1>3. CASE Answer(cmd, key) # "new"
  BY <1>1, <1>3, GrowsRefl DEF RunAfter
<1>. QED
  BY <1>2, <1>3

(* A lease granted under one of the backend's lease keys. *)
LEMMA AcquireCall ==
  ASSUME RunOK(run), now \in Nat, NEW n \in Nodes, NEW k \in 1..MaxLeases,
         NEW cmd,
         cmd = [type |-> "lease_acquired", node |-> n, owner |-> "native",
                ttl |-> LeaseTtl]
  PROVE  LET s == RunAfter(cmd, <<n, "lease", k>>, k) IN
         RunOK(s) /\ Grows(run, s)
<1>. DEFINE key == <<n, "lease", k>>
            s   == RunAfter(cmd, key, k)
            e   == EventOf(run, cmd, key, now)
<1>1. run \in Snapshots /\ run.nodes \in [Nodes -> NodeSnapshots]
  BY DEF RunOK, Snapshots
<1>a. cmd.type = "lease_acquired" /\ cmd.node = n
  OBVIOUS
<1>b. k \in Nat
  OBVIOUS
<1>c. cmd \in Commands
  BY OtherCmdTypes
<1>d. key \in Keys
  BY StoreAssumption DEF NativeKeys
<1>2. cmd \in Commands /\ key \in Keys /\ k \in Nat
  BY <1>b, <1>c, <1>d
<1>3. CASE Answer(cmd, key) # "new"
  BY <1>1, <1>3, GrowsRefl DEF RunAfter
<1>4. CASE Answer(cmd, key) = "new"
  <2>1. Permits(run, cmd, now) /\ s = Apply(run, e, k)
    BY <1>4 DEF Answer, RunAfter
  <2>2. s \in Snapshots
    BY <1>1, <1>2, <2>1, ApplyType
  <2>3. e.cmd = cmd /\ e.key = key
    BY DEF EventOf
  <2>4. s.nodes = NodesAfter(run, e, k) /\ s.idem = [run.idem EXCEPT ![key] = cmd]
    BY <2>1, <2>3 DEF Apply
  <2>5. s.nodes = [run.nodes EXCEPT ![n].lease =
                     [owner |-> cmd.owner, token |-> k,
                      expires |-> e.at + cmd.ttl]]
    BY <1>a, <2>3, <2>4 DEF NodesAfter
  <2>6. ASSUME NEW m \in Nodes
        PROVE  /\ s.nodes[m].attempts = run.nodes[m].attempts
               /\ s.nodes[m].state = run.nodes[m].state
               /\ m # n => s.nodes[m].lease = run.nodes[m].lease
               /\ m = n => s.nodes[m].lease.token = k
    BY <1>1, <2>5 DEF NodeSnapshots
  <2>7. ASSUME NEW m \in Nodes, NEW j \in 1..run.nodes[m].attempts
        PROVE  s.idem[<<m, "retry", j>>] # None
    <3>1. j \in 1..MaxTries
      BY <1>1, NativeAssumption DEF RunOK, NodeSnapshots
    <3>2. <<m, "retry", j>> \in Keys
      BY <3>1, StoreAssumption DEF NativeKeys
    <3>. QED
      BY <1>1, <1>2, <2>4, <3>2, NoneAssumption DEF RunOK, Snapshots
  <2>8. RunOK(s)
    BY <2>2, <2>6, <2>7 DEF RunOK
  <2>9. Grows(run, s)
    <3>1. \A m \in Nodes : run.nodes[m].attempts \in Nat
      BY <1>1 DEF NodeSnapshots
    <3>. QED
      BY <2>6, <3>1 DEF Grows
  <2>. QED
    BY <2>8, <2>9
<1>. QED
  BY <1>3, <1>4

(* A retry recorded under its number: the key of a number that was counted *)
(* is used, so a new one is the next, and it is below the limit.           *)
LEMMA RetryCall ==
  ASSUME RunOK(run), now \in Nat, NEW n \in Nodes, NEW k \in Nat,
         k \in 1..(run.nodes[n].attempts + 1), k < MaxTries,
         NEW cmd,
         cmd = [type |-> "retry_recorded", node |-> n, class |-> "transient"]
  PROVE  LET s == RunAfter(cmd, <<n, "retry", k>>, 0) IN
         RunOK(s) /\ Grows(run, s)
<1>. DEFINE key == <<n, "retry", k>>
            s   == RunAfter(cmd, key, 0)
            e   == EventOf(run, cmd, key, now)
<1>1. run \in Snapshots /\ run.nodes \in [Nodes -> NodeSnapshots]
  BY DEF RunOK, Snapshots
<1>a. cmd.type = "retry_recorded" /\ cmd.node = n
  OBVIOUS
<1>2. k \in 1..MaxTries
  BY NativeAssumption
<1>3. cmd \in Commands /\ key \in Keys
  BY <1>2, OtherCmdTypes, StoreAssumption DEF NativeKeys
<1>4. CASE Answer(cmd, key) # "new"
  BY <1>1, <1>4, GrowsRefl DEF RunAfter
<1>5. CASE Answer(cmd, key) = "new"
  <2>1. /\ Permits(run, cmd, now) /\ s = Apply(run, e, 0)
        /\ run.idem[key] = None
    BY <1>5 DEF Answer, RunAfter
  <2>2. s \in Snapshots
    BY <1>1, <1>3, <2>1, ApplyType
  <2>3. e.cmd = cmd /\ e.key = key /\ e.attempt = run.nodes[n].attempts + 1
    BY DEF EventOf
  <2>4. s.nodes = NodesAfter(run, e, 0) /\ s.idem = [run.idem EXCEPT ![key] = cmd]
    BY <2>1, <2>3 DEF Apply
  <2>5. run.nodes[n].attempts \in Nat
    BY <1>1 DEF NodeSnapshots
  <2>6. k = run.nodes[n].attempts + 1
    <3>1. k \notin 1..run.nodes[n].attempts
      BY <2>1 DEF RunOK
    <3>. QED
      BY <2>5, <3>1
  <2>7. s.nodes = [run.nodes EXCEPT ![n].attempts = k]
    BY <1>a, <2>3, <2>4, <2>6 DEF NodesAfter
  <2>8. ASSUME NEW m \in Nodes
        PROVE  /\ s.nodes[m].lease = run.nodes[m].lease
               /\ s.nodes[m].state = run.nodes[m].state
               /\ m # n => s.nodes[m].attempts = run.nodes[m].attempts
               /\ m = n => s.nodes[m].attempts = k
    BY <1>1, <2>7 DEF NodeSnapshots
  <2>9. ASSUME NEW m \in Nodes, NEW j \in 1..s.nodes[m].attempts
        PROVE  s.idem[<<m, "retry", j>>] # None
    <3>1. CASE m = n /\ j = k
      BY <1>1, <1>3, <2>4, <3>1, NoneAssumption DEF Snapshots
    <3>2. CASE ~(m = n /\ j = k)
      <4>1. j \in 1..run.nodes[m].attempts
        BY <2>5, <2>6, <2>8, <3>2
      <4>2. j \in 1..MaxTries
        BY <1>1, <4>1, NativeAssumption DEF RunOK, NodeSnapshots
      <4>3. <<m, "retry", j>> \in Keys
        BY <4>2, StoreAssumption DEF NativeKeys
      <4>4. run.idem[<<m, "retry", j>>] # None
        BY <4>1 DEF RunOK
      <4>. QED
        BY <1>1, <1>3, <2>4, <4>3, <4>4, NoneAssumption DEF Snapshots
    <3>. QED
      BY <3>1, <3>2
  <2>10. RunOK(s)
    BY <2>2, <2>8, <2>9 DEF RunOK
  <2>11. Grows(run, s)
    <3>1. \A m \in Nodes : run.nodes[m].attempts \in Nat
      BY <1>1 DEF NodeSnapshots
    <3>2. run.nodes[n].attempts <= k
      BY <2>5, <2>6
    <3>. QED
      BY <2>8, <3>1, <3>2 DEF Grows
  <2>. QED
    BY <2>10, <2>11
<1>. QED
  BY <1>4, <1>5

-----------------------------------------------------------------------------
(* What a process knows stays true when the run grows. *)
LEMMA PlaceKept ==
  ASSUME NEW a, NEW r, NEW s, PlaceOK(a, r), Grows(r, s)
  PROVE  PlaceOK(a, s)
<1>1. /\ a \in Places
      /\ a.ready \in Seq(Nodes)
      /\ \A i \in 1..Len(a.ready) : a.ready[i] \in Nodes
  BY DEF PlaceOK, Places
<1>2. \A n \in Nodes : Deps[n] \subseteq Nodes
  BY GraphAssumption
<1>3. a.pc \in AtGate =>
        \A d \in Deps[Order[a.pos]] : s.nodes[d].state = "succeeded"
  <2>1. HAVE a.pc \in AtGate
  <2>2. a.pos \in 1..Len(Order)
    BY <1>1, <2>1 DEF PlaceOK, Places
  <2>3. Order[a.pos] \in Nodes
    BY <2>2, OrderNodes
  <2>. QED
    BY <1>2, <2>1, <2>3 DEF PlaceOK, Grows
<1>4. \A i \in 1..Len(a.ready) :
        \A d \in Deps[a.ready[i]] : s.nodes[d].state = "succeeded"
  BY <1>1, <1>2 DEF PlaceOK, Grows
<1>5. \A d \in Nodes :
        a.cur[d] = "succeeded" => s.nodes[d].state = "succeeded"
  BY DEF PlaceOK, Grows
<1>. QED
  BY <1>3, <1>4, <1>5 DEF PlaceOK

(* A thread's invariant survives what others do to the run. *)
LEMMA ThreadKept ==
  ASSUME NEW t, NEW n \in Nodes, NEW r, NEW s, ThreadOK(t, n, r), Grows(r, s),
         r \in Snapshots, s \in Snapshots
  PROVE  ThreadOK(t, n, s)
<1>1. /\ r.nodes[n].attempts \in Nat /\ s.nodes[n].attempts \in Nat
      /\ r.nodes[n].attempts <= s.nodes[n].attempts
  BY DEF Grows, Snapshots, NodeSnapshots
<1>2. t.try \in Nat
  BY DEF ThreadOK, Threads
<1>3. t.pc = "retry" => t.try \in 1..(s.nodes[n].attempts + 1)
  BY <1>1, <1>2 DEF ThreadOK
<1>. QED
  BY <1>3 DEF ThreadOK

(* A step that moves one process and perhaps the run. *)
LEMMA ProcStep ==
  ASSUME NativeInv, NEW p \in Procs, NEW a, NEW th,
         RunOK(run'), Grows(run, run'),
         manifest' \in {"none", "torn", "ok"},
         result' \in [Nodes -> {"none", "torn"} \cup Written],
         now' \in 0..MaxTime, crashes' \in 0..MaxCrashes,
         at' = [at EXCEPT ![p] = a], thr' = [thr EXCEPT ![p] = th],
         PlaceOK(a, run'), JoinOK(a, th),
         th \in [Nodes -> Threads],
         \A n \in Nodes : ThreadOK(th[n], n, run')
  PROVE  NativeInv'
<1>1. at \in [Procs -> Places] /\ thr \in [Procs -> [Nodes -> Threads]]
  BY DEF NativeInv, Globals
<1>2. a \in Places
  BY DEF PlaceOK
<1>3. Globals'
  BY <1>1, <1>2 DEF Globals
<1>4. ASSUME NEW q \in Procs PROVE ProcOK(q)'
  <2>1. CASE q = p
    <3>1. at'[q] = a /\ thr'[q] = th
      BY <1>1, <2>1
    <3>. QED
      BY <3>1 DEF ProcOK
  <2>2. CASE q # p
    <3>1. at'[q] = at[q] /\ thr'[q] = thr[q]
      BY <1>1, <2>2
    <3>2. ProcOK(q)
      BY DEF NativeInv
    <3>3. PlaceOK(at[q], run')
      BY <3>2, PlaceKept DEF ProcOK
    <3>4. run \in Snapshots /\ run' \in Snapshots
      BY DEF NativeInv, RunOK
    <3>5. \A n \in Nodes : ThreadOK(thr[q][n], n, run')
      BY <3>2, <3>4, ThreadKept DEF ProcOK
    <3>. QED
      BY <3>1, <3>2, <3>3, <3>5 DEF ProcOK
  <2>. QED
    BY <2>1, <2>2
<1>. QED
  BY <1>3, <1>4 DEF NativeInv

(* A step that leaves files, threads and clock alone. *)
LEMMA Move ==
  ASSUME NativeInv, NEW p \in Procs, NEW a, RunOK(run'), Grows(run, run'),
         at' = [at EXCEPT ![p] = a], UNCHANGED Rest,
         PlaceOK(a, run'), JoinOK(a, thr[p])
  PROVE  NativeInv'
<1>1. UNCHANGED <<manifest, result, thr, now, crashes>>
  BY DEF Rest, Files
<1>2. Globals /\ ProcOK(p)
  BY DEF NativeInv
<1>3. thr' = [thr EXCEPT ![p] = thr[p]] /\ thr[p] \in [Nodes -> Threads]
  BY <1>1, <1>2 DEF Globals
<1>4. run \in Snapshots /\ run' \in Snapshots
  BY DEF NativeInv, RunOK
<1>5. \A n \in Nodes : ThreadOK(thr[p][n], n, run')
  BY <1>2, <1>4, ThreadKept DEF ProcOK
<1>6. /\ manifest' \in {"none", "torn", "ok"}
      /\ result' \in [Nodes -> {"none", "torn"} \cup Written]
      /\ now' \in 0..MaxTime /\ crashes' \in 0..MaxCrashes
  BY <1>1, <1>2 DEF Globals
<1>. QED
  BY <1>3, <1>5, <1>6, ProcStep

(* A step without a call. *)
LEMMA LocalMove ==
  ASSUME NativeInv, NEW p \in Procs, NEW a,
         at' = [at EXCEPT ![p] = a], UNCHANGED <<run, Rest>>,
         PlaceOK(a, run), JoinOK(a, thr[p])
  PROVE  NativeInv'
<1>1. run' = run /\ UNCHANGED Rest
  OBVIOUS
<1>2. RunOK(run') /\ Grows(run, run') /\ PlaceOK(a, run')
  BY <1>1, GrowsRefl DEF NativeInv, RunOK
<1>. QED
  BY <1>1, <1>2, Move

(* The clock is a number. *)
LEMMA Clock == NativeInv => now \in Nat
  BY ConstantsAssumption DEF NativeInv, Globals

(* A call of the store: where the process goes when it is taken, and when  *)
(* it is not.                                                              *)
LEMMA CallMove ==
  ASSUME NativeInv, NEW p \in Procs, NEW cmd \in Commands,
         cmd.type \in Ordinary, NEW key \in Keys, NEW taken, NEW refused,
         Call(p, cmd, key, taken, refused), UNCHANGED Rest,
         Taken(cmd, key) => PlaceOK(taken, run) /\ JoinOK(taken, thr[p]),
         ~Taken(cmd, key) => PlaceOK(refused, run) /\ JoinOK(refused, thr[p])
  PROVE  NativeInv'
<1>. DEFINE a == IF Taken(cmd, key) THEN taken ELSE refused
<1>1. run' = RunAfter(cmd, key, 0) /\ at' = [at EXCEPT ![p] = a]
  BY DEF Call
<1>2. RunOK(run') /\ Grows(run, run')
  BY <1>1, Clock, OrdinaryCall DEF NativeInv
<1>3. PlaceOK(a, run) /\ JoinOK(a, thr[p])
  OBVIOUS
<1>4. PlaceOK(a, run')
  BY <1>2, <1>3, PlaceKept
<1>. QED
  BY <1>1, <1>2, <1>3, <1>4, Move

(* A call that is not taken has a reason: another command's key, or not    *)
(* admitted.                                                               *)
LEMMA Refusal ==
  ASSUME NEW cmd, NEW key, ~Taken(cmd, key)
  PROVE  Answer(cmd, key) \in {"conflict", "refused"} \cap Reasons
  BY StoreAssumption DEF Taken, Answer, Causes

(* Places that speak of no node. *)
LEMMA FreeOK ==
  ASSUME NEW a, NEW r, NEW b, NEW th, PlaceOK(a, r), b \in Places,
         b.ready = a.ready, b.pos # 0, b.cur = a.cur,
         b.pc \notin Bound
  PROVE  PlaceOK(b, r) /\ JoinOK(b, th)
  BY DEF PlaceOK, JoinOK, Bound, Scanning

(* The states that a process remembers from a snapshot. *)
LEMMA StatesOfType ==
  ASSUME NEW r \in Snapshots PROVE StatesOf(r) \in [Nodes -> NodeStates]
  BY DEF StatesOf, Snapshots, NodeSnapshots

(* A process that has returned satisfies its invariant. *)
LEMMA IdleOK ==
  ASSUME NEW r, NEW th, NEW answer \in Answers
  PROVE  PlaceOK(Return(answer), r) /\ JoinOK(Return(answer), th)
<1>. DEFINE a == Return(answer)
<1>1. StatesOf(NoRun) \in [Nodes -> NodeStates]
  BY NoRunType, StatesOfType
<1>2. \A d \in Nodes : StatesOf(NoRun)[d] = "pending"
  BY DEF StatesOf, NoRun
<1>3. "none" \in Reasons
  BY StoreAssumption DEF Causes
<1>4. <<>> \in Seq(Nodes) /\ Len(<<>>) = 0
  OBVIOUS
<1>5. /\ a.pc = "idle" /\ a.cur = StatesOf(NoRun) /\ a.ready = <<>> /\ a.pos = 1
      /\ a \in Places
  BY <1>1, <1>3, <1>4 DEF Return, Idle, Places, Steps
<1>6. a.pc \notin Bound
  BY <1>5 DEF Bound, Scanning, AtGate, Replaying, Settles
<1>. QED
  BY <1>2, <1>4, <1>5, <1>6 DEF PlaceOK, JoinOK, Bound, Scanning

(* A process that never ran is one that has returned. *)
LEMMA IdleReturn == Idle = Return("none")
<1>1. StatesOf(NoRun) \in [Nodes -> NodeStates]
  BY NoRunType, StatesOfType
<1>2. "none" \in Reasons /\ <<>> \in Seq(Nodes)
  BY StoreAssumption DEF Causes
<1>3. Idle \in Places /\ Idle.out = "none"
  BY <1>1, <1>2 DEF Idle, Places, Steps, Answers
<1>4. [Idle EXCEPT !.out = "none"] = Idle
  BY <1>3 DEF Places
<1>. QED
  BY <1>4 DEF Return

(* So does one whose exception handler begins, *)
LEMMA RaiseOK ==
  ASSUME NEW p, NEW r, NEW th, NEW cause \in Reasons, PlaceOK(at[p], r)
  PROVE  PlaceOK(Raise(p, cause), r) /\ JoinOK(Raise(p, cause), th)
<1>. DEFINE b == Raise(p, cause)
<1>1. at[p] \in Places
  BY DEF PlaceOK
<1>2. /\ b \in Places /\ b.pc = "error" /\ b.ready = at[p].ready
      /\ b.cur = at[p].cur /\ b.pos = at[p].pos
  BY <1>1 DEF Raise, Places, Steps
<1>3. b.pc \notin Bound
  BY <1>2 DEF Bound, Scanning, AtGate, Replaying, Settles
<1>4. b.pos # 0
  BY <1>2 DEF PlaceOK
<1>. QED
  BY <1>2, <1>3, <1>4, FreeOK

(* Going to a step that speaks of no node, and walking to the next node. *)
LEMMA GotoOK ==
  ASSUME NEW p, NEW r, NEW th, PlaceOK(at[p], r),
         NEW step \in Steps \ Bound
  PROVE  PlaceOK(Goto(p, step), r) /\ JoinOK(Goto(p, step), th)
<1>. DEFINE b == Goto(p, step)
<1>1. at[p] \in Places
  BY DEF PlaceOK
<1>2. /\ b \in Places /\ b.pc = step /\ b.ready = at[p].ready
      /\ b.cur = at[p].cur /\ b.pos = at[p].pos
  BY <1>1 DEF Goto, Places
<1>3. b.pos # 0
  BY <1>2 DEF PlaceOK
<1>. QED
  BY <1>2, <1>3, FreeOK

(* and one that goes on to the next node of its layer. *)
LEMMA NextNodeOK ==
  ASSUME NEW p, NEW r, NEW th, PlaceOK(at[p], r), at[p].pc \in Scanning
  PROVE  PlaceOK(NextNode(p), r) /\ JoinOK(NextNode(p), th)
<1>. DEFINE b == NextNode(p)
<1>1. at[p] \in Places /\ at[p].pos \in Nat /\ at[p].term = None
  BY DEF PlaceOK, Places
<1>2. PICK k \in Nat : k = at[p].pos + 1
  BY <1>1
<1>3. b = [at[p] EXCEPT !.pc = "scan", !.pos = k]
  BY <1>2 DEF NextNode
<1>4. /\ b \in Places /\ b.pc = "scan" /\ b.ready = at[p].ready
      /\ b.cur = at[p].cur /\ b.pos = k /\ b.term = None
  BY ZenonT(60), <1>1, <1>3 DEF Places, Steps
<1>5. k # 0
  BY <1>1, <1>2
<1>6. b.pc \notin AtGate \cup Replaying \cup Settles \cup {"sweep", "sweeping"}
  BY <1>4 DEF AtGate, Replaying, Settles
<1>. HIDE DEF b
<1>7. PlaceOK(b, r) /\ JoinOK(b, th)
  BY <1>4, <1>5, <1>6 DEF PlaceOK, JoinOK
<1>. QED
  BY <1>7 DEF b

-----------------------------------------------------------------------------
(* One lemma per action.  First execute up to the layers. *)

(* What the invariant says of one process. *)
LEMMA Here ==
  ASSUME NativeInv, NEW p \in Procs
  PROVE  /\ RunOK(run) /\ run \in Snapshots /\ now \in Nat
         /\ at[p] \in Places /\ PlaceOK(at[p], run) /\ JoinOK(at[p], thr[p])
         /\ thr[p] \in [Nodes -> Threads]
         /\ \A n \in Nodes : ThreadOK(thr[p][n], n, run)
  BY Clock DEF NativeInv, RunOK, ProcOK, PlaceOK, Globals

(* Execute keeps NativeInv.  (execute) *)
LEMMA ExecuteKeeps ==
  ASSUME NativeInv, NEW p \in Procs, NEW resume \in BOOLEAN, Execute(p, resume)
  PROVE  NativeInv'
<1>. DEFINE b == [Idle EXCEPT !.pc = "load", !.resume = resume]
            a == Return("none")
<1>1. PlaceOK(a, run)
  BY IdleOK DEF Answers
<1>2. a \in Places
  BY <1>1 DEF PlaceOK
<1>3. /\ b \in Places /\ b.pc = "load" /\ b.ready = a.ready /\ b.cur = a.cur
      /\ b.pos = 1
  BY ZenonT(60), <1>2 DEF Return, Idle, Places, Steps
<1>4. b.pc \notin Bound
  BY <1>3 DEF Bound, Scanning, AtGate, Replaying, Settles
<1>5. at' = [at EXCEPT ![p] = b] /\ UNCHANGED <<run, Rest>>
  BY DEF Execute
<1>. HIDE DEF a, b
<1>6. b.pos # 0
  BY <1>3
<1>7. PlaceOK(b, run) /\ JoinOK(b, thr[p])
  BY <1>1, <1>3, <1>4, <1>6, FreeOK
<1>. QED
  BY <1>5, <1>7, LocalMove

(* The steps at which a process speaks of no node. *)
LEMMA StepsFree ==
  /\ {"idle", "load", "create", "manifest", "manifest-end", "start", "layer",
      "complete", "error", "failing"}
       \subseteq Steps \ Bound
  BY DEF Steps, Bound, Scanning, AtGate, Replaying, Settles

(* execute may return, start or walk, whatever state it loaded. *)
LEMMA DispatchOK ==
  ASSUME NEW p, NEW r, NEW th, PlaceOK(at[p], r), NEW state
  PROVE  PlaceOK(Dispatch(p, state), r) /\ JoinOK(Dispatch(p, state), th)
<1>1. CASE state = "completed"
  BY <1>1, IdleOK DEF Dispatch, Answers
<1>2. CASE state = "awaiting_approval"
  BY <1>2, IdleOK DEF Dispatch, Answers
<1>3. CASE state = "cancelled"
  BY <1>3, IdleOK DEF Dispatch, Answers
<1>4. CASE state = "running"
  BY <1>4, GotoOK, StepsFree DEF Dispatch
<1>5. CASE state \notin {"completed", "awaiting_approval", "cancelled", "running"}
  BY <1>5, GotoOK, StepsFree DEF Dispatch
<1>. QED
  BY <1>1, <1>2, <1>3, <1>4, <1>5

(* Load keeps NativeInv.  (_load_or_create) *)
LEMMA LoadKeeps ==
  ASSUME NativeInv, NEW p \in Procs, Load(p) PROVE NativeInv'
<1>. DEFINE b == IF run.state = None
                   THEN IF at[p].resume THEN Return("raised") ELSE Goto(p, "create")
                   ELSE IF manifest = "ok" THEN Dispatch(p, run.state)
                                           ELSE Return("raised")
<1>1. at' = [at EXCEPT ![p] = b] /\ UNCHANGED <<run, Rest>>
  BY DEF Load
<1>2. PlaceOK(Return("raised"), run) /\ JoinOK(Return("raised"), thr[p])
  BY IdleOK DEF Answers
<1>3. PlaceOK(Goto(p, "create"), run) /\ JoinOK(Goto(p, "create"), thr[p])
  BY Here, GotoOK, StepsFree
<1>4. /\ PlaceOK(Dispatch(p, run.state), run)
      /\ JoinOK(Dispatch(p, run.state), thr[p])
  BY Here, DispatchOK
<1>5. PlaceOK(b, run) /\ JoinOK(b, thr[p])
  BY <1>2, <1>3, <1>4
<1>. QED
  BY <1>1, <1>5, LocalMove

(* The backend's fixed run keys are keys, *)
LEMMA RuntimeKeys ==
  \A w \in {"create", "start", "resume", "cancel", "fail", "complete",
            "exception"} : <<"runtime", w>> \in Keys
  BY StoreAssumption DEF NativeKeys

(* and its fixed node keys. *)
LEMMA NodeKeys ==
  \A n \in Nodes :
    \A w \in {"start", "resume", "complete", "skip", "fail", "exception",
              "cancel-unfinished", "approval-request",
              "run-approval-request", "release-replay"} : <<n, w>> \in Keys
  BY StoreAssumption DEF NativeKeys

(* Create keeps NativeInv.  (_load_or_create (create)) *)
LEMMA CreateKeeps ==
  ASSUME NativeInv, NEW p \in Procs, Create(p) PROVE NativeInv'
<1>. DEFINE cmd == [type |-> "run_created"]
            key == <<"runtime", "create">>
            b   == [at[p] EXCEPT !.pc = "manifest",
                                 !.st = RunAfter(cmd, key, 0).state]
<1>1. /\ Call(p, cmd, key, b, Return("raised"))
      /\ UNCHANGED Rest
  BY DEF Create
<1>2. cmd \in Commands /\ cmd.type \in Ordinary /\ key \in Keys
  BY RuntimeKeys DEF Commands, CommandsWith, CreateCmds, Ordinary
<1>3. RunAfter(cmd, key, 0) \in Snapshots
  BY <1>2, Here, OrdinaryCall DEF RunOK
<1>4. RunAfter(cmd, key, 0).state \in RunStates \cup {None}
  BY <1>3 DEF Snapshots
<1>5. at[p] \in Places /\ at[p].pos # 0
  BY Here DEF PlaceOK
<1>6. /\ b \in Places /\ b.pc = "manifest" /\ b.ready = at[p].ready
      /\ b.cur = at[p].cur /\ b.pos = at[p].pos
  BY <1>4, <1>5 DEF Places, Steps
<1>. HIDE DEF cmd, key, b
<1>7. PlaceOK(b, run) /\ JoinOK(b, thr[p])
  BY <1>5, <1>6, Here, FreeOK, StepsFree
<1>8. PlaceOK(Return("raised"), run) /\ JoinOK(Return("raised"), thr[p])
  BY IdleOK DEF Answers
<1>. QED
  BY <1>1, <1>2, <1>7, <1>8, CallMove

(* A step that may write a file and leaves the run alone. *)
LEMMA FileMove ==
  ASSUME NativeInv, NEW p \in Procs, NEW a, at' = [at EXCEPT ![p] = a],
         manifest' \in {"none", "torn", "ok"},
         result' \in [Nodes -> {"none", "torn"} \cup Written],
         UNCHANGED <<run, thr, now, crashes>>,
         PlaceOK(a, run), JoinOK(a, thr[p])
  PROVE  NativeInv'
<1>1. run' = run /\ thr' = thr /\ now' = now /\ crashes' = crashes
  OBVIOUS
<1>2. Globals
  BY DEF NativeInv
<1>3. now' \in 0..MaxTime /\ crashes' \in 0..MaxCrashes
  BY <1>1, <1>2 DEF Globals
<1>4. thr' = [thr EXCEPT ![p] = thr[p]] /\ thr[p] \in [Nodes -> Threads]
  BY <1>1, <1>2 DEF Globals
<1>5. RunOK(run') /\ Grows(run, run') /\ PlaceOK(a, run')
  BY <1>1, GrowsRefl DEF NativeInv, RunOK
<1>6. \A n \in Nodes : ThreadOK(thr[p][n], n, run')
  BY <1>1, Here
<1>. QED
  BY <1>3, <1>4, <1>5, <1>6, ProcStep

(* OpenManifest keeps NativeInv.  (_write_spec_manifest) *)
LEMMA OpenManifestKeeps ==
  ASSUME NativeInv, NEW p \in Procs, OpenManifest(p) PROVE NativeInv'
<1>1. /\ PlaceOK(Goto(p, "manifest-end"), run)
      /\ JoinOK(Goto(p, "manifest-end"), thr[p])
  BY Here, GotoOK, StepsFree
<1>2. result' \in [Nodes -> {"none", "torn"} \cup Written]
  BY DEF OpenManifest, NativeInv, Globals
<1>. QED
  BY <1>1, <1>2, FileMove DEF OpenManifest

(* FillManifest keeps NativeInv.  (_write_spec_manifest (write_text)) *)
LEMMA FillManifestKeeps ==
  ASSUME NativeInv, NEW p \in Procs, FillManifest(p) PROVE NativeInv'
<1>1. /\ PlaceOK(Dispatch(p, at[p].st), run)
      /\ JoinOK(Dispatch(p, at[p].st), thr[p])
  BY Here, DispatchOK
<1>2. result' \in [Nodes -> {"none", "torn"} \cup Written]
  BY DEF FillManifest, NativeInv, Globals
<1>. QED
  BY <1>1, <1>2, FileMove DEF FillManifest

(* A transition of the run, and one of a node, with their keys. *)
LEMMA NoneReason == "none" \in Reasons
  BY StoreAssumption DEF Causes

(* Run transitions are ordinary commands, *)
LEMMA RunToCall ==
  ASSUME NEW reason \in Reasons,
         NEW state \in {"running", "paused", "awaiting_approval", "completed",
                        "failed", "cancelled"}
  PROVE  RunTo(state, reason) \in Commands /\ RunTo(state, reason).type \in Ordinary
<1>1. RunTo(state, reason) \in Commands
  BY RunToType
<1>2. RunTo(state, reason).type = "run_transition"
  BY DEF RunTo
<1>. QED
  BY <1>1, <1>2 DEF Ordinary

(* node transitions too. *)
LEMMA NodeToCall ==
  ASSUME NEW n \in Nodes, NEW reason \in Reasons,
         NEW state \in {"running", "awaiting_approval", "succeeded", "failed",
                        "cancelled"}
  PROVE  /\ NodeTo(n, state, reason) \in Commands
         /\ NodeTo(n, state, reason).type \in Ordinary
<1>1. NodeTo(n, state, reason) \in Commands
  BY NodeToType
<1>2. NodeTo(n, state, reason).type = "node_transition"
  BY DEF NodeTo
<1>. QED
  BY <1>1, <1>2 DEF Ordinary

(* Start keeps NativeInv.  (execute (start)) *)
LEMMA StartKeeps ==
  ASSUME NativeInv, NEW p \in Procs, Start(p) PROVE NativeInv'
<1>1. /\ Call(p, RunTo("running", "none"), <<"runtime", "start">>,
              Goto(p, "layer"), Return("raised"))
      /\ UNCHANGED Rest
  BY DEF Start
<1>2. PlaceOK(Return("raised"), run) /\ JoinOK(Return("raised"), thr[p])
  BY IdleOK DEF Answers
<1>3. PlaceOK(Goto(p, "layer"), run) /\ JoinOK(Goto(p, "layer"), thr[p])
  BY Here, GotoOK, StepsFree
<1>4. /\ RunTo("running", "none") \in Commands
      /\ RunTo("running", "none").type \in Ordinary
      /\ <<"runtime", "start">> \in Keys
  BY NoneReason, RunToCall, RuntimeKeys
<1>. QED
  BY <1>1, <1>2, <1>3, <1>4, CallMove

-----------------------------------------------------------------------------
(* A layer is entered and scanned. *)

(* EnterLayer keeps NativeInv.  (execute (layer)) *)
LEMMA EnterLayerKeeps ==
  ASSUME NativeInv, NEW p \in Procs, EnterLayer(p) PROVE NativeInv'
<1>. DEFINE b == [at[p] EXCEPT !.pc = "scan", !.cur = StatesOf(run), !.pos = 1,
                               !.ready = <<>>, !.term = None]
            a == IF Layer(at[p].past) = {} THEN Goto(p, "complete") ELSE b
<1>1. at' = [at EXCEPT ![p] = a] /\ UNCHANGED <<run, Rest>>
  BY DEF EnterLayer
<1>2. at[p] \in Places /\ run \in Snapshots
  BY Here
<1>3. <<>> \in Seq(Nodes) /\ Len(<<>>) = 0
  OBVIOUS
<1>4. StatesOf(run) \in [Nodes -> NodeStates]
  BY <1>2, StatesOfType
<1>5. /\ b \in Places /\ b.pc = "scan" /\ b.ready = <<>> /\ b.pos = 1
      /\ b.cur = StatesOf(run) /\ b.term = None
  BY <1>2, <1>3, <1>4 DEF Places, Steps
<1>6. \A d \in Nodes : StatesOf(run)[d] = run.nodes[d].state
  BY DEF StatesOf
<1>. HIDE DEF b
<1>7. b.pc \notin AtGate \cup Replaying \cup Settles \cup {"sweep", "sweeping"}
  BY <1>5 DEF AtGate, Replaying, Settles
<1>8. PlaceOK(b, run) /\ JoinOK(b, thr[p])
  BY <1>3, <1>5, <1>6, <1>7 DEF PlaceOK, JoinOK
<1>9. PlaceOK(Goto(p, "complete"), run) /\ JoinOK(Goto(p, "complete"), thr[p])
  BY Here, GotoOK, StepsFree
<1>. QED
  BY <1>1, <1>8, <1>9, LocalMove

(* Places that speak of the node at hand. *)
LEMMA GateOK ==
  ASSUME NEW p, NEW r, NEW th, PlaceOK(at[p], r), NEW step \in AtGate,
         at[p].pc \in Scanning,
         at[p].pos <= Len(Order),
         \A d \in Deps[Node(p)] : r.nodes[d].state = "succeeded"
  PROVE  PlaceOK(Goto(p, step), r) /\ JoinOK(Goto(p, step), th)
<1>. DEFINE b == Goto(p, step)
<1>1. at[p] \in Places
  BY DEF PlaceOK
<1>2. step \in Steps /\ step \notin Replaying \cup Settles \cup {"sweep", "sweeping"}
  BY DEF Steps, AtGate, Replaying, Settles
<1>3. /\ b \in Places /\ b.pc = step /\ b.ready = at[p].ready
      /\ b.cur = at[p].cur /\ b.pos = at[p].pos /\ b.term = at[p].term
  BY <1>1, <1>2 DEF Goto, Places
<1>. HIDE DEF b
<1>4. \A d \in Deps[Order[b.pos]] : r.nodes[d].state = "succeeded"
  BY <1>3 DEF Node
<1>5. PlaceOK(b, r)
  BY <1>2, <1>3, <1>4 DEF PlaceOK
<1>6. JoinOK(b, th)
  BY <1>2, <1>3 DEF JoinOK
<1>. QED
  BY <1>5, <1>6 DEF b

(* A process may turn to replay a result file it has read. *)
LEMMA ReplayOK ==
  ASSUME NEW a, NEW r, NEW th, NEW b, PlaceOK(a, r), b \in Places,
         b.pc \in Replaying, b.got \in Written, b.ready = a.ready,
         b.pos = a.pos, a.pos <= Len(Order), b.term = None,
         \A d \in Nodes : b.cur[d] = "succeeded" => r.nodes[d].state = "succeeded"
  PROVE  PlaceOK(b, r) /\ JoinOK(b, th)
<1>1. b.pc \notin AtGate \cup Settles \cup {"sweep", "sweeping"}
  BY DEF Bound, Scanning, AtGate, Replaying, Settles
<1>. QED
  BY <1>1 DEF PlaceOK, JoinOK

(* At a gate or a replay there is a node. *)
LEMMA NodeHere ==
  ASSUME NEW p, NEW r, PlaceOK(at[p], r),
         at[p].pc \in AtGate \cup Replaying \/ at[p].pos <= Len(Order)
  PROVE  Node(p) \in Nodes /\ at[p].pos <= Len(Order)
<1>1. at[p].pos \in 1..Len(Order)
  BY OrderNodes DEF PlaceOK, Places
<1>. QED
  BY <1>1, OrderNodes DEF Node

(* Causes of exceptions are reasons. *)
LEMMA CauseReason == Causes \subseteq Reasons
  BY StoreAssumption

(* Each outcome of looking at a node of the layer keeps the invariant. *)
LEMMA ScanStepOK ==
  ASSUME NativeInv, NEW p \in Procs, at[p].pos <= Len(Order), at[p].pc = "scan"
  PROVE  PlaceOK(ScanStep(p), run) /\ JoinOK(ScanStep(p), thr[p])
<1>. DEFINE state == at[p].cur[Node(p)]
            file  == result[Node(p)]
            b     == [at[p] EXCEPT !.pc = "replay", !.got = file]
<1>0. /\ PlaceOK(at[p], run) /\ at[p] \in Places /\ at[p].pc \in Scanning
      /\ at[p].term = None
  BY Here DEF PlaceOK, Scanning
<1>1. Node(p) \in Nodes
  BY <1>0, NodeHere
<1>2. PlaceOK(NextNode(p), run) /\ JoinOK(NextNode(p), thr[p])
  BY <1>0, NextNodeOK
<1>3. /\ PlaceOK(Return("cancelled"), run) /\ JoinOK(Return("cancelled"), thr[p])
      /\ PlaceOK(Return("interrupted"), run)
      /\ JoinOK(Return("interrupted"), thr[p])
  BY IdleOK DEF Answers
<1>4. /\ PlaceOK(Raise(p, "torn"), run) /\ JoinOK(Raise(p, "torn"), thr[p])
      /\ PlaceOK(Raise(p, "deps"), run) /\ JoinOK(Raise(p, "deps"), thr[p])
  BY <1>0, CauseReason, RaiseOK DEF Causes
<1>5. ASSUME file \notin {"torn", "none"}
      PROVE  PlaceOK(b, run) /\ JoinOK(b, thr[p])
  <2>1. file \in Written
    BY <1>1, <1>5 DEF NativeInv, Globals
  <2>2. /\ b \in Places /\ b.pc = "replay" /\ b.got = file /\ b.cur = at[p].cur
        /\ b.ready = at[p].ready /\ b.pos = at[p].pos /\ b.term = at[p].term
    BY ZenonT(60), <1>0, <2>1 DEF Places, Steps
  <2>. HIDE DEF b, file
  <2>3. b.pc \in Replaying
    BY <2>2 DEF Replaying
  <2>4. \A d \in Nodes : b.cur[d] = "succeeded" => run.nodes[d].state = "succeeded"
    BY <1>0, <2>2 DEF PlaceOK
  <2>. QED
    BY <1>0, <2>1, <2>2, <2>3, <2>4, ReplayOK
<1>6. ASSUME ~ \E d \in Deps[Node(p)] : at[p].cur[d] # "succeeded",
             NEW step \in AtGate
      PROVE  PlaceOK(Goto(p, step), run) /\ JoinOK(Goto(p, step), thr[p])
  <2>1. Deps[Node(p)] \subseteq Nodes
    BY <1>1, GraphAssumption
  <2>2. \A d \in Deps[Node(p)] : run.nodes[d].state = "succeeded"
    BY <1>0, <1>6, <2>1 DEF PlaceOK
  <2>. QED
    BY <1>0, <2>2, GateOK
<1>7. {"begin", "gate"} \subseteq AtGate
  BY DEF AtGate
<1>8. ScanStep(p) =
        IF state = "succeeded" THEN
          IF file = "torn" THEN Raise(p, "torn") ELSE NextNode(p)
        ELSE IF state = "cancelled" THEN Return("cancelled")
        ELSE IF state = "awaiting_approval" THEN Return("interrupted")
        ELSE IF file = "torn" THEN Raise(p, "torn")
        ELSE IF file # "none" THEN b
        ELSE IF \E d \in Deps[Node(p)] : at[p].cur[d] # "succeeded"
          THEN Raise(p, "deps")
        ELSE Goto(p, IF state = "pending" THEN "begin" ELSE "gate")
  BY DEF ScanStep
<1>. HIDE DEF b, file, state
<1>. QED
  BY <1>2, <1>3, <1>4, <1>5, <1>6, <1>7, <1>8

(* Scan keeps NativeInv.  (execute (per node)) *)
LEMMA ScanKeeps ==
  ASSUME NativeInv, NEW p \in Procs, Scan(p) PROVE NativeInv'
<1>. DEFINE b == IF Node(p) \in Layer(at[p].past) THEN ScanStep(p) ELSE NextNode(p)
<1>1. /\ at' = [at EXCEPT ![p] = b] /\ UNCHANGED <<run, Rest>>
      /\ at[p].pos <= Len(Order) /\ at[p].pc = "scan"
  BY DEF Scan
<1>2. PlaceOK(ScanStep(p), run) /\ JoinOK(ScanStep(p), thr[p])
  BY <1>1, ScanStepOK
<1>3. PlaceOK(NextNode(p), run) /\ JoinOK(NextNode(p), thr[p])
  BY <1>1, Here, NextNodeOK DEF Scanning
<1>. QED
  BY <1>1, <1>2, <1>3, LocalMove

(* A call in the try block: a refusal is raised. *)
LEMMA CallAtMove ==
  ASSUME NativeInv, NEW p \in Procs, NEW step, NEW cmd \in Commands,
         cmd.type \in Ordinary, NEW key \in Keys, NEW taken,
         CallAt(step, p, cmd, key, taken),
         PlaceOK(taken, run), JoinOK(taken, thr[p])
  PROVE  NativeInv'
<1>1. /\ Call(p, cmd, key, taken, Raise(p, Answer(cmd, key)))
      /\ UNCHANGED Rest
  BY DEF CallAt
<1>2. ~Taken(cmd, key) => /\ PlaceOK(Raise(p, Answer(cmd, key)), run)
                          /\ JoinOK(Raise(p, Answer(cmd, key)), thr[p])
  BY Here, Refusal, RaiseOK
<1>. QED
  BY <1>1, <1>2, CallMove

(* Begin keeps NativeInv.  (execute (start_node)) *)
LEMMA BeginKeeps ==
  ASSUME NativeInv, NEW p \in Procs, Begin(p) PROVE NativeInv'
<1>. DEFINE b == [at[p] EXCEPT !.pc = "gate", !.cur[Node(p)] = "running"]
<1>1. /\ CallAt("begin", p, NodeTo(Node(p), "running", "none"),
                <<Node(p), "start">>, b)
      /\ at[p].pc = "begin"
  BY DEF Begin, CallAt
<1>2. PlaceOK(at[p], run) /\ at[p] \in Places /\ at[p].pc \in AtGate
  BY <1>1, Here DEF AtGate
<1>3. Node(p) \in Nodes /\ at[p].pos <= Len(Order)
  BY <1>2, NodeHere
<1>4. /\ NodeTo(Node(p), "running", "none") \in Commands
      /\ NodeTo(Node(p), "running", "none").type \in Ordinary
      /\ <<Node(p), "start">> \in Keys
  BY <1>3, NoneReason, NodeToCall, NodeKeys
<1>5. /\ b \in Places /\ b.pc = "gate" /\ b.pos = at[p].pos
      /\ b.ready = at[p].ready /\ b.term = at[p].term
      /\ b.cur = [at[p].cur EXCEPT ![Node(p)] = "running"]
  BY <1>2, <1>3 DEF Places, Steps, NodeStates
<1>. HIDE DEF b
<1>6. at[p].cur \in [Nodes -> NodeStates]
  BY <1>2 DEF Places
<1>7. \A d \in Nodes : b.cur[d] = "succeeded" => run.nodes[d].state = "succeeded"
  BY <1>2, <1>5, <1>6 DEF PlaceOK
<1>8. b.pc \in AtGate /\ b.pc \notin Replaying \cup Settles \cup {"sweep", "sweeping"}
  BY <1>5 DEF AtGate, Replaying, Settles
<1>9. PlaceOK(b, run) /\ JoinOK(b, thr[p])
  BY <1>2, <1>3, <1>5, <1>7, <1>8 DEF PlaceOK, JoinOK, Scanning
<1>. QED
  BY <1>1, <1>4, <1>9, CallAtMove

(* Gate keeps NativeInv.  (execute (approval gate)) *)
LEMMA GateKeeps ==
  ASSUME NativeInv, NEW p \in Procs, Gate(p) PROVE NativeInv'
<1>. DEFINE b == [NextNode(p) EXCEPT !.ready = Append(@, Node(p))]
            c == /\ Node(p) \in NeedApproval
                 /\ at[p].cur[Node(p)] = "running"
                 /\ ~Approved(Node(p))
<1>1. /\ at' = [at EXCEPT ![p] = IF c THEN Goto(p, "ask") ELSE b]
      /\ UNCHANGED <<run, Rest>> /\ at[p].pc = "gate"
  BY DEF Gate
<1>2. PlaceOK(at[p], run) /\ at[p] \in Places /\ at[p].pc \in AtGate
  BY <1>1, Here DEF AtGate
<1>3. Node(p) \in Nodes /\ at[p].pos <= Len(Order)
  BY <1>2, NodeHere
<1>4. \A d \in Deps[Node(p)] : run.nodes[d].state = "succeeded"
  BY <1>2 DEF PlaceOK, Node
<1>5. PlaceOK(Goto(p, "ask"), run) /\ JoinOK(Goto(p, "ask"), thr[p])
  BY <1>2, <1>3, <1>4, GateOK DEF AtGate, Scanning
<1>6. PlaceOK(NextNode(p), run)
  BY <1>2, NextNodeOK DEF Scanning
<1>7. NextNode(p) \in Places /\ NextNode(p).ready = at[p].ready
  BY <1>2, <1>6 DEF PlaceOK, NextNode
<1>8. at[p].ready \in Seq(Nodes)
  BY <1>2 DEF Places
<1>. DEFINE rd == Append(at[p].ready, Node(p))
<1>9. /\ rd \in Seq(Nodes) /\ Len(rd) = Len(at[p].ready) + 1
      /\ \A i \in 1..Len(rd) : i <= Len(at[p].ready) => rd[i] = at[p].ready[i]
      /\ rd[Len(rd)] = Node(p)
  BY <1>3, <1>8
<1>10. /\ b \in Places /\ b.ready = rd /\ b.pc = "scan"
       /\ b.pos = NextNode(p).pos /\ b.cur = NextNode(p).cur
       /\ b.term = NextNode(p).term /\ NextNode(p).pc = "scan"
  <2>1. NextNode(p).pc = "scan"
    BY <1>2 DEF NextNode, Places
  <2>. QED
    BY <1>7, <1>9, <2>1 DEF Places
<1>. HIDE DEF b, rd
<1>11. \A i \in 1..Len(rd) : \A d \in Deps[rd[i]] : run.nodes[d].state = "succeeded"
  <2>1. TAKE i \in 1..Len(rd)
  <2>2. CASE i <= Len(at[p].ready)
    BY <1>2, <1>9, <2>2 DEF PlaceOK
  <2>3. CASE i = Len(rd)
    BY <1>4, <1>9, <2>3
  <2>4. Len(at[p].ready) \in Nat
    BY <1>8
  <2>. QED
    BY <1>9, <2>2, <2>3, <2>4
<1>12. b.pc \notin AtGate \cup Replaying \cup Settles \cup {"sweep", "sweeping"}
  BY <1>10 DEF AtGate, Replaying, Settles
<1>13. b.pos # 0 /\ b.term = None /\ \A d \in Nodes :
         b.cur[d] = "succeeded" => run.nodes[d].state = "succeeded"
  BY <1>6, <1>10 DEF PlaceOK, Scanning
<1>14. PlaceOK(b, run) /\ JoinOK(b, thr[p])
  BY <1>10, <1>11, <1>12, <1>13 DEF PlaceOK, JoinOK
<1>. HIDE DEF c
<1>. QED
  BY <1>1, <1>5, <1>14, LocalMove

(* AskNode keeps NativeInv.  (execute (request_node_approval)) *)
LEMMA AskNodeKeeps ==
  ASSUME NativeInv, NEW p \in Procs, AskNode(p) PROVE NativeInv'
<1>1. /\ CallAt("ask", p, NodeTo(Node(p), "awaiting_approval", Node(p)),
                <<Node(p), "approval-request">>, Goto(p, "ask-run"))
      /\ at[p].pc = "ask"
  BY DEF AskNode, CallAt
<1>2. PlaceOK(at[p], run) /\ at[p].pc \in AtGate
  BY <1>1, Here DEF AtGate
<1>3. Node(p) \in Nodes /\ at[p].pos <= Len(Order) /\ Node(p) \in Reasons
  BY <1>2, NodeHere, StoreAssumption
<1>4. \A d \in Deps[Node(p)] : run.nodes[d].state = "succeeded"
  BY <1>2 DEF PlaceOK, Node
<1>5. PlaceOK(Goto(p, "ask-run"), run) /\ JoinOK(Goto(p, "ask-run"), thr[p])
  BY <1>2, <1>3, <1>4, GateOK DEF AtGate, Scanning
<1>6. /\ NodeTo(Node(p), "awaiting_approval", Node(p)) \in Commands
      /\ NodeTo(Node(p), "awaiting_approval", Node(p)).type \in Ordinary
      /\ <<Node(p), "approval-request">> \in Keys
  BY <1>3, NodeToCall, NodeKeys
<1>. QED
  BY <1>1, <1>5, <1>6, CallAtMove

(* AskRun keeps NativeInv.  (execute (request_approval)) *)
LEMMA AskRunKeeps ==
  ASSUME NativeInv, NEW p \in Procs, AskRun(p) PROVE NativeInv'
<1>1. /\ CallAt("ask-run", p, RunTo("awaiting_approval", Node(p)),
                <<Node(p), "run-approval-request">>, Return("interrupted"))
      /\ at[p].pc = "ask-run"
  BY DEF AskRun, CallAt
<1>2. PlaceOK(at[p], run) /\ at[p].pc \in AtGate
  BY <1>1, Here DEF AtGate
<1>3. Node(p) \in Nodes /\ Node(p) \in Reasons
  BY <1>2, NodeHere, StoreAssumption
<1>4. PlaceOK(Return("interrupted"), run) /\ JoinOK(Return("interrupted"), thr[p])
  BY IdleOK DEF Answers
<1>5. /\ RunTo("awaiting_approval", Node(p)) \in Commands
      /\ RunTo("awaiting_approval", Node(p)).type \in Ordinary
      /\ <<Node(p), "run-approval-request">> \in Keys
  BY <1>3, RunToCall, NodeKeys
<1>. QED
  BY <1>1, <1>4, <1>5, CallAtMove

-----------------------------------------------------------------------------
(* A result on file is replayed. *)

(* What the replay steps start from. *)
LEMMA ReplayHere ==
  ASSUME NativeInv, NEW p \in Procs, at[p].pc \in Replaying
  PROVE  /\ PlaceOK(at[p], run) /\ at[p] \in Places
         /\ Node(p) \in Nodes /\ Node(p) \in Reasons /\ at[p].pos <= Len(Order)
         /\ at[p].got \in Written /\ at[p].term = None
<1>1. PlaceOK(at[p], run) /\ at[p] \in Places
  BY Here
<1>2. Node(p) \in Nodes /\ at[p].pos <= Len(Order)
  BY <1>1, NodeHere
<1>. QED
  BY <1>1, <1>2, StoreAssumption DEF PlaceOK, Scanning

(* A replay goes from step to step, *)
LEMMA ReplayGotoOK ==
  ASSUME NativeInv, NEW p \in Procs, at[p].pc \in Replaying,
         NEW step \in Replaying
  PROVE  PlaceOK(Goto(p, step), run) /\ JoinOK(Goto(p, step), thr[p])
<1>. DEFINE b == Goto(p, step)
<1>1. /\ PlaceOK(at[p], run) /\ at[p] \in Places /\ at[p].pos <= Len(Order)
      /\ at[p].got \in Written /\ at[p].term = None
  BY ReplayHere
<1>2. step \in Steps
  BY DEF Replaying, Steps
<1>3. /\ b \in Places /\ b.pc = step /\ b.got = at[p].got /\ b.pos = at[p].pos
      /\ b.ready = at[p].ready /\ b.cur = at[p].cur /\ b.term = at[p].term
  BY <1>1, <1>2 DEF Goto, Places
<1>. HIDE DEF b
<1>4. \A d \in Nodes : b.cur[d] = "succeeded" => run.nodes[d].state = "succeeded"
  BY <1>1, <1>3 DEF PlaceOK
<1>5. PlaceOK(b, run) /\ JoinOK(b, thr[p])
  BY <1>1, <1>3, <1>4, ReplayOK
<1>. QED
  BY <1>5 DEF b

(* ends with the node's result, *)
LEMMA ReplayedOK ==
  ASSUME NativeInv, NEW p \in Procs, at[p].pc \in Replaying
  PROVE  PlaceOK(Replayed(p), run) /\ JoinOK(Replayed(p), thr[p])
<1>. DEFINE b == [at[p] EXCEPT !.pc = "sweep", !.term = Node(p)]
<1>1. PlaceOK(at[p], run) /\ at[p] \in Places /\ Node(p) \in Nodes
  BY ReplayHere
<1>2. PlaceOK(NextNode(p), run) /\ JoinOK(NextNode(p), thr[p])
  BY <1>1, NextNodeOK DEF Scanning
<1>3. PlaceOK(Return("failed"), run) /\ JoinOK(Return("failed"), thr[p])
  BY IdleOK DEF Answers
<1>4. /\ b \in Places /\ b.pc = "sweep" /\ b.term = Node(p) /\ b.pos = at[p].pos
      /\ b.ready = at[p].ready /\ b.cur = at[p].cur
  BY <1>1 DEF Places, Steps
<1>5. Replayed(p) = IF at[p].got = "succeeded" THEN NextNode(p)
                    ELSE IF at[p].got = "skipped" THEN b ELSE Return("failed")
  <2>1. CASE at[p].got = "succeeded"
    BY <2>1 DEF Replayed
  <2>2. CASE at[p].got = "skipped"
    BY <2>2 DEF Replayed
  <2>3. CASE at[p].got \notin {"succeeded", "skipped"}
    BY <2>3 DEF Replayed
  <2>. QED
    BY <2>1, <2>2, <2>3
<1>. HIDE DEF b
<1>6. b.pc \notin Scanning \cup AtGate \cup Replaying \cup Settles \cup {"sweeping"}
  BY <1>4 DEF Scanning, AtGate, Replaying, Settles
<1>7. PlaceOK(b, run) /\ JoinOK(b, thr[p])
  BY <1>1, <1>4, <1>6 DEF PlaceOK, JoinOK
<1>. QED
  BY <1>2, <1>3, <1>5, <1>7

(* and goes on when a transition is refused.  (except                      *)
(* InvalidTransitionError: pass)                                           *)
LEMMA SwallowOK ==
  ASSUME NativeInv, NEW p \in Procs, at[p].pc \in Replaying, NEW cmd, NEW key,
         ~Taken(cmd, key)
  PROVE  PlaceOK(Swallow(p, cmd, key), run) /\ JoinOK(Swallow(p, cmd, key), thr[p])
<1>1. PlaceOK(Replayed(p), run) /\ JoinOK(Replayed(p), thr[p])
  BY ReplayedOK
<1>2. /\ PlaceOK(Raise(p, Answer(cmd, key)), run)
      /\ JoinOK(Raise(p, Answer(cmd, key)), thr[p])
  BY Here, Refusal, RaiseOK
<1>. QED
  BY <1>1, <1>2 DEF Swallow

(* ReplayLoad keeps NativeInv.  (_apply_persisted_result (load)) *)
LEMMA ReplayLoadKeeps ==
  ASSUME NativeInv, NEW p \in Procs, ReplayLoad(p) PROVE NativeInv'
<1>. DEFINE b == [at[p] EXCEPT !.pc = "replay-lease", !.st = run.state,
                               !.cur[Node(p)] = run.nodes[Node(p)].state]
<1>1. /\ at' = [at EXCEPT ![p] = b] /\ UNCHANGED <<run, Rest>>
      /\ at[p].pc \in Replaying
  BY DEF ReplayLoad, Replaying
<1>2. /\ PlaceOK(at[p], run) /\ at[p] \in Places /\ Node(p) \in Nodes
      /\ at[p].pos <= Len(Order) /\ at[p].got \in Written /\ at[p].term = None
  BY <1>1, ReplayHere
<1>3. run.state \in RunStates \cup {None} /\ run.nodes[Node(p)].state \in NodeStates
  BY <1>2, Here DEF Snapshots, NodeSnapshots
<1>4. /\ b \in Places /\ b.pc = "replay-lease" /\ b.got = at[p].got
      /\ b.pos = at[p].pos /\ b.ready = at[p].ready /\ b.term = at[p].term
      /\ b.cur = [at[p].cur EXCEPT ![Node(p)] = run.nodes[Node(p)].state]
  BY <1>2, <1>3 DEF Places, Steps
<1>. HIDE DEF b
<1>5. at[p].cur \in [Nodes -> NodeStates]
  BY <1>2 DEF Places
<1>6. \A d \in Nodes : b.cur[d] = "succeeded" => run.nodes[d].state = "succeeded"
  BY <1>2, <1>4, <1>5 DEF PlaceOK
<1>7. PlaceOK(b, run) /\ JoinOK(b, thr[p])
  BY <1>2, <1>4, <1>6, ReplayOK DEF Replaying
<1>. QED
  BY <1>1, <1>7, LocalMove

(* ReplayLease keeps NativeInv.  (_release_active_lease) *)
LEMMA ReplayLeaseKeeps ==
  ASSUME NativeInv, NEW p \in Procs, ReplayLease(p) PROVE NativeInv'
<1>. DEFINE lease == run.nodes[Node(p)].lease
            cmd   == [type |-> "lease_released", node |-> Node(p),
                      token |-> lease.token]
            key   == <<Node(p), "release-replay">>
            next  == Goto(p, IF at[p].st = "running" THEN "replay-start"
                                                     ELSE "replay-resume")
            other == IF Answer(cmd, key) = "refused" THEN next
                                                     ELSE Raise(p, "conflict")
<1>1. /\ at[p].pc \in Replaying /\ UNCHANGED Rest
      /\ lease = None => at' = [at EXCEPT ![p] = next] /\ run' = run
      /\ lease # None => Call(p, cmd, key, next, other)
  BY DEF ReplayLease, Replaying
<1>2. Node(p) \in Nodes
  BY <1>1, ReplayHere
<1>3. {"replay-start", "replay-resume"} \subseteq Replaying
  BY DEF Replaying
<1>4. PlaceOK(next, run) /\ JoinOK(next, thr[p])
  BY <1>1, <1>3, ReplayGotoOK
<1>5. PlaceOK(Raise(p, "conflict"), run) /\ JoinOK(Raise(p, "conflict"), thr[p])
  BY Here, CauseReason, RaiseOK DEF Causes
<1>6. CASE lease = None
  BY <1>1, <1>4, <1>6, LocalMove
<1>7. CASE lease # None
  <2>1. lease.token \in Nat
    BY <1>2, <1>7, Here DEF Snapshots, NodeSnapshots, Leases
  <2>2. cmd \in Commands /\ key \in Keys
    BY <1>2, <2>1, OtherCmdTypes, NodeKeys
  <2>3. cmd.type \in Ordinary
    BY DEF Ordinary
  <2>4. Call(p, cmd, key, next, other)
    BY <1>1, <1>7
  <2>. HIDE DEF cmd, key, next, lease
  <2>5. PlaceOK(other, run) /\ JoinOK(other, thr[p])
    BY <1>4, <1>5
  <2>. HIDE DEF other
  <2>. QED
    BY <1>1, <1>4, <2>2, <2>3, <2>4, <2>5, CallMove
<1>. QED
  BY <1>6, <1>7

(* ReplayResume keeps NativeInv.  (_apply_persisted_result (resume)) *)
LEMMA ReplayResumeKeeps ==
  ASSUME NativeInv, NEW p \in Procs, ReplayResume(p) PROVE NativeInv'
<1>. DEFINE cmd == RunTo("running", "none")
            key == <<"runtime", "resume">>
<1>1. /\ at[p].pc \in Replaying /\ UNCHANGED Rest
      /\ Call(p, cmd, key, Goto(p, "replay-start"), Swallow(p, cmd, key))
  BY DEF ReplayResume, Replaying
<1>2. cmd \in Commands /\ cmd.type \in Ordinary /\ key \in Keys
  BY NoneReason, RunToCall, RuntimeKeys
<1>3. PlaceOK(Goto(p, "replay-start"), run) /\ JoinOK(Goto(p, "replay-start"), thr[p])
  BY <1>1, ReplayGotoOK DEF Replaying
<1>. HIDE DEF cmd, key
<1>4. ~Taken(cmd, key) => /\ PlaceOK(Swallow(p, cmd, key), run)
                          /\ JoinOK(Swallow(p, cmd, key), thr[p])
  BY <1>1, SwallowOK
<1>. QED
  BY <1>1, <1>2, <1>3, <1>4, CallMove

(* ReplayStart keeps NativeInv.  (_apply_persisted_result (start_node,     *)
(* resume_node))                                                           *)
LEMMA ReplayStartKeeps ==
  ASSUME NativeInv, NEW p \in Procs, ReplayStart(p) PROVE NativeInv'
<1>. DEFINE cmd == NodeTo(Node(p), "running", "none")
            key == <<Node(p), IF at[p].cur[Node(p)] = "pending"
                                THEN "start" ELSE "resume">>
            next == Goto(p, "replay-apply")
<1>1. /\ at[p].pc \in Replaying /\ UNCHANGED Rest
      /\ \/ at' = [at EXCEPT ![p] = next] /\ run' = run
         \/ Call(p, cmd, key, next, Swallow(p, cmd, key))
  BY DEF ReplayStart, Replaying
<1>2. Node(p) \in Nodes
  BY <1>1, ReplayHere
<1>3. cmd \in Commands /\ cmd.type \in Ordinary /\ key \in Keys
  BY <1>2, NoneReason, NodeToCall, NodeKeys
<1>4. PlaceOK(next, run) /\ JoinOK(next, thr[p])
  BY <1>1, ReplayGotoOK DEF Replaying
<1>. HIDE DEF cmd, key, next
<1>5. ~Taken(cmd, key) => /\ PlaceOK(Swallow(p, cmd, key), run)
                          /\ JoinOK(Swallow(p, cmd, key), thr[p])
  BY <1>1, SwallowOK
<1>6. CASE at' = [at EXCEPT ![p] = next] /\ run' = run
  BY <1>1, <1>4, <1>6, LocalMove
<1>7. CASE Call(p, cmd, key, next, Swallow(p, cmd, key))
  BY <1>1, <1>3, <1>4, <1>5, <1>7, CallMove
<1>. QED
  BY <1>1, <1>6, <1>7

(* The command and the key that record a result. *)
LEMMA RecordingType ==
  ASSUME NEW n \in Nodes, NEW status \in Written
  PROVE  /\ Recording(n, status) \in Commands
         /\ Recording(n, status).type \in Ordinary
         /\ RecordKey(n, status) \in Keys
<1>1. n \in Reasons
  BY StoreAssumption
<1>2. CASE status = "succeeded"
  BY <1>2, NoneReason, NodeToCall, NodeKeys DEF Recording, RecordKey
<1>3. CASE status = "skipped"
  BY <1>1, <1>3, NodeToCall, NodeKeys DEF Recording, RecordKey
<1>4. CASE status = "failed"
  BY <1>1, <1>4, NodeToCall, NodeKeys DEF Recording, RecordKey
<1>. QED
  BY <1>2, <1>3, <1>4 DEF Written

(* ReplayApply keeps NativeInv.  (_apply_persisted_result (record)) *)
LEMMA ReplayApplyKeeps ==
  ASSUME NativeInv, NEW p \in Procs, ReplayApply(p) PROVE NativeInv'
<1>. DEFINE status == at[p].got
            cmd    == Recording(Node(p), status)
            key    == RecordKey(Node(p), status)
            next   == IF status = "failed" THEN Goto(p, "replay-fail")
                                           ELSE Replayed(p)
<1>1. /\ at[p].pc \in Replaying /\ UNCHANGED Rest
      /\ Call(p, cmd, key, next, Swallow(p, cmd, key))
  BY DEF ReplayApply, Replaying
<1>2. Node(p) \in Nodes /\ status \in Written
  BY <1>1, ReplayHere
<1>3. cmd \in Commands /\ cmd.type \in Ordinary /\ key \in Keys
  BY <1>2, RecordingType
<1>4. PlaceOK(Goto(p, "replay-fail"), run) /\ JoinOK(Goto(p, "replay-fail"), thr[p])
  BY <1>1, ReplayGotoOK DEF Replaying
<1>5. PlaceOK(next, run) /\ JoinOK(next, thr[p])
  BY <1>1, <1>4, ReplayedOK
<1>. HIDE DEF cmd, key, next, status
<1>6. ~Taken(cmd, key) => /\ PlaceOK(Swallow(p, cmd, key), run)
                          /\ JoinOK(Swallow(p, cmd, key), thr[p])
  BY <1>1, SwallowOK
<1>. QED
  BY <1>1, <1>3, <1>5, <1>6, CallMove

(* ReplayFail keeps NativeInv.  (_apply_persisted_result (fail)) *)
LEMMA ReplayFailKeeps ==
  ASSUME NativeInv, NEW p \in Procs, ReplayFail(p) PROVE NativeInv'
<1>. DEFINE cmd == RunTo("failed", Node(p))
            key == <<"runtime", "fail">>
<1>1. /\ at[p].pc \in Replaying /\ UNCHANGED Rest
      /\ Call(p, cmd, key, Return("failed"), Swallow(p, cmd, key))
  BY DEF ReplayFail, Replaying
<1>2. Node(p) \in Reasons
  BY <1>1, ReplayHere
<1>3. cmd \in Commands /\ cmd.type \in Ordinary /\ key \in Keys
  BY <1>2, RunToCall, RuntimeKeys
<1>4. PlaceOK(Return("failed"), run) /\ JoinOK(Return("failed"), thr[p])
  BY IdleOK DEF Answers
<1>. HIDE DEF cmd, key
<1>5. ~Taken(cmd, key) => /\ PlaceOK(Swallow(p, cmd, key), run)
                          /\ JoinOK(Swallow(p, cmd, key), thr[p])
  BY <1>1, SwallowOK
<1>. QED
  BY <1>1, <1>3, <1>4, <1>5, CallMove

-----------------------------------------------------------------------------
(* The threads of a layer. *)

(* A step of one thread while its process waits. *)
LEMMA ThreadMove ==
  ASSUME NativeInv, NEW p \in Procs, NEW n \in Nodes, NEW t,
         at[p].pc = "work", RunOK(run'), Grows(run, run'),
         Thread(p, n, t), UNCHANGED <<at, Files, now, crashes>>,
         ThreadOK(t, n, run')
  PROVE  NativeInv'
<1>. DEFINE th == [thr[p] EXCEPT ![n] = t]
<1>1. /\ at' = at /\ manifest' = manifest /\ result' = result
      /\ now' = now /\ crashes' = crashes
  BY DEF Files
<1>2. Globals
  BY DEF NativeInv
<1>3. thr[p] \in [Nodes -> Threads]
  BY <1>2 DEF Globals
<1>4. thr' = [thr EXCEPT ![p] = th]
  BY DEF Thread
<1>5. at' = [at EXCEPT ![p] = at[p]]
  BY <1>1, <1>2 DEF Globals
<1>6. t \in Threads
  BY DEF ThreadOK
<1>7. th \in [Nodes -> Threads]
  BY <1>3, <1>6
<1>8. run \in Snapshots /\ run' \in Snapshots
  BY DEF NativeInv, RunOK
<1>9. ASSUME NEW m \in Nodes PROVE ThreadOK(th[m], m, run')
  <2>1. CASE m = n
    BY <1>3, <2>1
  <2>2. CASE m # n
    BY <1>3, <1>8, <2>2, Here, ThreadKept
  <2>. QED
    BY <2>1, <2>2
<1>10. PlaceOK(at[p], run')
  BY Here, PlaceKept
<1>11. JoinOK(at[p], th)
  BY DEF JoinOK, Settles
<1>12. /\ manifest' \in {"none", "torn", "ok"}
       /\ result' \in [Nodes -> {"none", "torn"} \cup Written]
       /\ now' \in 0..MaxTime /\ crashes' \in 0..MaxCrashes
  BY <1>1, <1>2 DEF Globals
<1>. HIDE DEF th
<1>. QED
  BY <1>4, <1>5, <1>7, <1>9, <1>10, <1>11, <1>12, ProcStep

(* A thread's step that leaves the run keeps the invariant. *)
LEMMA QuietThreadMove ==
  ASSUME NativeInv, NEW p \in Procs, NEW n \in Nodes, NEW t,
         at[p].pc = "work", Thread(p, n, t),
         UNCHANGED <<run, at, Files, now, crashes>>, ThreadOK(t, n, run)
  PROVE  NativeInv'
<1>1. run' = run /\ UNCHANGED <<at, Files, now, crashes>>
  OBVIOUS
<1>2. RunOK(run') /\ Grows(run, run') /\ ThreadOK(t, n, run')
  BY <1>1, GrowsRefl DEF NativeInv, RunOK
<1>. QED
  BY <1>1, <1>2, ThreadMove

(* A thread before its first step. *)
LEMMA OffOK ==
  ASSUME NEW n, NEW r
  PROVE  /\ ThreadOK(Off, n, r)
         /\ ThreadOK([Off EXCEPT !.pc = "look"], n, r)
  BY DEF ThreadOK, Off, Threads

(* StartWork keeps NativeInv.  (_run_ready_nodes) *)
LEMMA StartWorkKeeps ==
  ASSUME NativeInv, NEW p \in Procs, StartWork(p) PROVE NativeInv'
<1>. DEFINE th == [n \in Nodes |->
                    IF \E i \in 1..Len(at[p].ready) : at[p].ready[i] = n
                      THEN [Off EXCEPT !.pc = "look"] ELSE Off]
<1>1. /\ at' = [at EXCEPT ![p] = Goto(p, "work")]
      /\ thr' = [thr EXCEPT ![p] = th]
      /\ run' = run /\ manifest' = manifest /\ result' = result
      /\ now' = now /\ crashes' = crashes /\ at[p].pc = "scan"
  BY DEF StartWork, Files
<1>2. PlaceOK(Goto(p, "work"), run) /\ JoinOK(Goto(p, "work"), th)
  <2>. DEFINE b == Goto(p, "work")
  <2>1. PlaceOK(at[p], run) /\ at[p] \in Places /\ at[p].term = None
    BY <1>1, Here DEF PlaceOK, Scanning
  <2>2. /\ b \in Places /\ b.pc = "work" /\ b.ready = at[p].ready
        /\ b.cur = at[p].cur /\ b.pos = at[p].pos /\ b.term = None
    BY <2>1 DEF Goto, Places, Steps
  <2>3. b.pc \notin AtGate \cup Replaying \cup Settles \cup {"sweep", "sweeping"}
    BY <2>2 DEF AtGate, Replaying, Settles
  <2>. HIDE DEF b
  <2>4. PlaceOK(b, run) /\ JoinOK(b, th)
    BY <2>1, <2>2, <2>3 DEF PlaceOK, JoinOK
  <2>. QED
    BY <2>4 DEF b
<1>3. Off \in Threads /\ [Off EXCEPT !.pc = "look"] \in Threads
  BY OffOK DEF ThreadOK
<1>4. th \in [Nodes -> Threads]
  BY <1>3
<1>5. \A n \in Nodes : ThreadOK(th[n], n, run)
  BY OffOK
<1>6. Globals /\ RunOK(run)
  BY DEF NativeInv
<1>7. Grows(run, run') /\ RunOK(run')
  BY <1>1, <1>6, GrowsRefl DEF RunOK
<1>8. /\ manifest' \in {"none", "torn", "ok"}
      /\ result' \in [Nodes -> {"none", "torn"} \cup Written]
      /\ now' \in 0..MaxTime /\ crashes' \in 0..MaxCrashes
  BY <1>1, <1>6 DEF Globals
<1>9. PlaceOK(Goto(p, "work"), run') /\ \A n \in Nodes : ThreadOK(th[n], n, run')
  BY <1>1, <1>2, <1>5
<1>. HIDE DEF th
<1>. QED
  BY <1>1, <1>2, <1>4, <1>7, <1>8, <1>9, ProcStep

(* LeaseLook keeps NativeInv.  (_acquire_node_lease) *)
LEMMA LeaseLookKeeps ==
  ASSUME NativeInv, NEW p \in Procs, NEW n \in Nodes, LeaseLook(p, n)
  PROVE  NativeInv'
<1>. DEFINE lease == run.nodes[n].lease
            used  == {k \in 1..MaxLeases : run.idem[<<n, "lease", k>>] # None}
            c     == Cardinality(used)
            t     == IF lease # None
                       THEN [thr[p][n] EXCEPT !.pc = "handler", !.num = lease.token]
                       ELSE [thr[p][n] EXCEPT !.pc = "take", !.num = c + 1]
<1>1. /\ at[p].pc = "work" /\ (lease = None => c < MaxLeases)
      /\ Thread(p, n, t) /\ UNCHANGED <<run, at, Files, now, crashes>>
  BY DEF LeaseLook, Turn
<1>2. c \in Nat
  <2>1. IsFiniteSet(1..MaxLeases)
    BY NativeAssumption, FS_Interval
  <2>2. IsFiniteSet(used)
    BY <2>1, FS_Subset
  <2>. QED
    BY <2>2, FS_CardinalityType
<1>3. thr[p][n] \in Threads
  BY Here
<1>4. ThreadOK(t, n, run)
  <2>1. CASE lease # None
    <3>1. lease.token \in 1..MaxLeases
      BY <2>1, Here DEF RunOK
    <3>2. t = [thr[p][n] EXCEPT !.pc = "handler", !.num = lease.token]
      BY <2>1
    <3>3. lease.token \in Nat
      BY <3>1
    <3>. HIDE DEF t, lease
    <3>. QED
      BY <1>3, <3>1, <3>2, <3>3 DEF ThreadOK, Threads
  <2>2. CASE lease = None
    <3>0. c + 1 \in Nat
      <4>. HIDE DEF c
      <4>. QED
        BY <1>2
    <3>1. PICK k \in Nat : k = c + 1
      BY <3>0
    <3>2. c < MaxLeases
      BY <1>1, <2>2
    <3>3. t = [thr[p][n] EXCEPT !.pc = "take", !.num = k]
      BY <2>2, <3>1
    <3>. HIDE DEF t, c
    <3>4. k \in 1..MaxLeases
      BY <1>2, <3>1, <3>2, NativeAssumption
    <3>. QED
      BY <1>3, <3>3, <3>4 DEF ThreadOK, Threads
  <2>. QED
    BY <2>1, <2>2
<1>. HIDE DEF t
<1>. QED
  BY <1>1, <1>4, QuietThreadMove

(* LeaseTake keeps NativeInv.  (_acquire_node_lease, _lease_ttl) *)
LEMMA LeaseTakeKeeps ==
  ASSUME NativeInv, NEW p \in Procs, NEW n \in Nodes, LeaseTake(p, n)
  PROVE  NativeInv'
<1>. DEFINE cmd  == [type |-> "lease_acquired", node |-> n, owner |-> "native",
                     ttl |-> LeaseTtl]
            k    == thr[p][n].num
            key  == <<n, "lease", k>>
            run2 == RunAfter(cmd, key, k)
            t    == IF Taken(cmd, key) /\ run2.nodes[n].lease # None
                      THEN [thr[p][n] EXCEPT !.pc = "handler",
                                             !.num = run2.nodes[n].lease.token]
                      ELSE [thr[p][n] EXCEPT !.pc = "done", !.res = "lease"]
<1>1. /\ at[p].pc = "work" /\ thr[p][n].pc = "take" /\ run' = run2
      /\ Thread(p, n, t) /\ UNCHANGED <<at, Files, now, crashes>>
  BY DEF LeaseTake, Turn
<1>2. thr[p][n] \in Threads /\ k \in 1..MaxLeases
  BY <1>1, Here DEF ThreadOK
<1>3. RunOK(run2) /\ Grows(run, run2)
  BY <1>2, Here, AcquireCall
<1>4. run2.nodes[n].lease # None => run2.nodes[n].lease.token \in 1..MaxLeases
  BY <1>3 DEF RunOK
<1>. HIDE DEF cmd, key, run2
<1>5. ThreadOK(t, n, run')
  <2>1. ASSUME NEW j \in 1..MaxLeases
        PROVE  ThreadOK([thr[p][n] EXCEPT !.pc = "handler", !.num = j], n, run')
    <3>1. j \in Nat
      OBVIOUS
    <3>. QED
      BY <1>2, <3>1 DEF ThreadOK, Threads
  <2>2. ThreadOK([thr[p][n] EXCEPT !.pc = "done", !.res = "lease"], n, run')
    BY <1>2 DEF ThreadOK, Threads, Finals
  <2>. QED
    BY <1>4, <2>1, <2>2
<1>. HIDE DEF t
<1>. QED
  BY <1>1, <1>3, <1>5, ThreadMove

(* A thread that has its final result. *)
LEMMA StopsOK ==
  ASSUME NativeInv, NEW p \in Procs, NEW n \in Nodes, NEW status \in Finals,
         thr[p][n].pc \in {"handler", "decide", "retry"}, NEW r
  PROVE  ThreadOK(Stops(p, n, status), n, r)
<1>1. thr[p][n] \in Threads /\ thr[p][n].num \in 1..MaxLeases
  BY Here DEF ThreadOK
<1>. QED
  BY <1>1 DEF Stops, ThreadOK, Threads

(* HandlerEnds keeps NativeInv.  (_run_node_with_retries) *)
LEMMA HandlerEndsKeeps ==
  ASSUME NativeInv, NEW p \in Procs, NEW n \in Nodes, NEW outcome \in Outcomes,
         HandlerEnds(p, n, outcome)
  PROVE  NativeInv'
<1>. DEFINE d == [thr[p][n] EXCEPT !.pc = "decide"]
            t == IF outcome = "failed" THEN d ELSE Stops(p, n, outcome)
<1>1. /\ at[p].pc = "work" /\ thr[p][n].pc = "handler"
      /\ Thread(p, n, t) /\ UNCHANGED <<run, at, Files, now, crashes>>
  BY DEF HandlerEnds, Turn
<1>2. outcome \in Finals
  BY NativeAssumption DEF Finals, Written
<1>3. ThreadOK(Stops(p, n, outcome), n, run)
  BY <1>1, <1>2, StopsOK
<1>4. thr[p][n] \in Threads /\ thr[p][n].num \in 1..MaxLeases
  BY <1>1, Here DEF ThreadOK
<1>5. ThreadOK(d, n, run)
  BY <1>4 DEF ThreadOK, Threads
<1>. HIDE DEF d
<1>6. ThreadOK(t, n, run)
  BY <1>3, <1>5
<1>. QED
  BY <1>1, <1>6, QuietThreadMove

(* Decide keeps NativeInv.  (_record_retry_if_allowed) *)
LEMMA DecideKeeps ==
  ASSUME NativeInv, NEW p \in Procs, NEW n \in Nodes, NEW retryable \in BOOLEAN,
         Decide(p, n, retryable)
  PROVE  NativeInv'
<1>. DEFINE c == retryable /\ run.nodes[n].attempts + 1 < MaxTries
            d == [thr[p][n] EXCEPT !.pc = "retry",
                                   !.try = run.nodes[n].attempts + 1]
            t == IF c THEN d ELSE Stops(p, n, "failed")
<1>1. /\ at[p].pc = "work" /\ thr[p][n].pc = "decide"
      /\ Thread(p, n, t) /\ UNCHANGED <<run, at, Files, now, crashes>>
  BY DEF Decide, Turn
<1>2. ThreadOK(Stops(p, n, "failed"), n, run)
  BY <1>1, StopsOK DEF Finals, Written
<1>3. thr[p][n] \in Threads /\ thr[p][n].num \in 1..MaxLeases
  BY <1>1, Here DEF ThreadOK
<1>4. run.nodes[n].attempts \in Nat
  BY Here DEF Snapshots, NodeSnapshots
<1>5. PICK k \in Nat : k = run.nodes[n].attempts + 1
  BY <1>4
<1>6. ASSUME c PROVE ThreadOK(d, n, run)
  <2>1. k < MaxTries /\ k \in 1..(run.nodes[n].attempts + 1)
    BY <1>4, <1>5, <1>6
  <2>2. d = [thr[p][n] EXCEPT !.pc = "retry", !.try = k]
    BY <1>5
  <2>. HIDE DEF d, c
  <2>. QED
    BY <1>3, <2>1, <2>2 DEF ThreadOK, Threads
<1>. HIDE DEF c, d
<1>7. ThreadOK(t, n, run)
  BY <1>2, <1>6
<1>. QED
  BY <1>1, <1>7, QuietThreadMove

(* Retry keeps NativeInv.  (_record_retry_if_allowed (record_retry)) *)
LEMMA RetryKeeps ==
  ASSUME NativeInv, NEW p \in Procs, NEW n \in Nodes, Retry(p, n)
  PROVE  NativeInv'
<1>. DEFINE cmd == [type |-> "retry_recorded", node |-> n, class |-> "transient"]
            k   == thr[p][n].try
            key == <<n, "retry", k>>
            d   == [thr[p][n] EXCEPT !.pc = "handler"]
            t   == IF Taken(cmd, key) THEN d ELSE Stops(p, n, Answer(cmd, key))
<1>1. /\ at[p].pc = "work" /\ thr[p][n].pc = "retry"
      /\ run' = RunAfter(cmd, key, 0)
      /\ Thread(p, n, t) /\ UNCHANGED <<at, Files, now, crashes>>
  BY DEF Retry, Turn
<1>2. /\ thr[p][n] \in Threads /\ thr[p][n].num \in 1..MaxLeases
      /\ k \in 1..(run.nodes[n].attempts + 1) /\ k < MaxTries
  BY <1>1, Here DEF ThreadOK
<1>3. k \in Nat
  BY <1>2 DEF Threads
<1>4. RunOK(run') /\ Grows(run, run')
  BY <1>1, <1>2, <1>3, Here, RetryCall
<1>5. ThreadOK(d, n, run')
  BY <1>2 DEF ThreadOK, Threads
<1>. HIDE DEF cmd, key, d
<1>6. ~Taken(cmd, key) => ThreadOK(Stops(p, n, Answer(cmd, key)), n, run')
  <2>1. {"conflict", "refused"} \subseteq Finals
    BY DEF Finals
  <2>. QED
    BY <1>1, <2>1, Refusal, StopsOK
<1>7. ThreadOK(t, n, run')
  BY <1>5, <1>6
<1>. HIDE DEF t
<1>. QED
  BY <1>1, <1>4, <1>7, ThreadMove

(* Release keeps NativeInv.  (_release_lease) *)
LEMMA ReleaseKeeps ==
  ASSUME NativeInv, NEW p \in Procs, NEW n \in Nodes, Release(p, n)
  PROVE  NativeInv'
<1>. DEFINE k    == thr[p][n].num
            cmd  == [type |-> "lease_released", node |-> n, token |-> k]
            key  == <<n, "release", k>>
            lost == /\ ~Taken(cmd, key)
                    /\ run.nodes[n].lease # None
                    /\ run.nodes[n].lease.expires > now
            res  == IF lost THEN "lease" ELSE thr[p][n].res
            t    == [thr[p][n] EXCEPT !.pc = "done", !.res = res]
<1>0. thr[p][n] \in Threads
  BY Here
<1>1. /\ at[p].pc = "work" /\ thr[p][n].pc = "release"
      /\ run' = RunAfter(cmd, key, 0)
      /\ Thread(p, n, t) /\ UNCHANGED <<at, Files, now, crashes>>
  BY <1>0 DEF Release, Turn, Threads
<1>2. k \in 1..MaxLeases /\ thr[p][n].res \in Finals
  BY <1>1, Here DEF ThreadOK
<1>3. k \in Nat
  BY <1>2
<1>4. cmd \in Commands
  BY <1>3, OtherCmdTypes
<1>5. cmd.type \in Ordinary
  BY DEF Ordinary
<1>6. key \in Keys
  BY <1>2, StoreAssumption DEF NativeKeys
<1>. HIDE DEF cmd, key
<1>7. RunOK(run') /\ Grows(run, run')
  BY <1>1, <1>4, <1>5, <1>6, Here, OrdinaryCall
<1>8. res \in Finals
  BY <1>2 DEF Finals
<1>. HIDE DEF res
<1>9. ThreadOK(t, n, run')
  BY <1>0, <1>8 DEF ThreadOK, Threads
<1>. HIDE DEF t
<1>. QED
  BY <1>1, <1>7, <1>9, ThreadMove

-----------------------------------------------------------------------------
(* The layer's results are collected, written and recorded. *)

(* The nodes made ready are nodes. *)
LEMMA ReadyNodes ==
  ASSUME NEW a \in Places
  PROVE  Len(a.ready) \in Nat /\ \A i \in 1..Len(a.ready) : a.ready[i] \in Nodes
  BY DEF Places

(* Join keeps NativeInv.  (_run_ready_nodes (futures)) *)
LEMMA JoinKeeps ==
  ASSUME NativeInv, NEW p \in Procs, Join(p) PROVE NativeInv'
<1>. DEFINE b == [at[p] EXCEPT !.pc = "write", !.pos = 1]
<1>1. UNCHANGED <<run, Rest>> /\ at[p].pc = "work"
  BY DEF Join
<1>2. PlaceOK(at[p], run) /\ at[p] \in Places /\ at[p].term = None
  BY <1>1, Here DEF PlaceOK, Scanning
<1>3. Len(at[p].ready) \in Nat /\ \A i \in 1..Len(at[p].ready) : at[p].ready[i] \in Nodes
  BY <1>2, ReadyNodes
<1>4. \A i \in 1..Len(at[p].ready) :
        Finished(p, i) => ResultAt(p, i) \in Finals
  BY <1>3, Here DEF Finished, ResultAt, ThreadOK
<1>5. CASE Raising(p) = {} /\ at' = [at EXCEPT ![p] = b]
  <2>1. /\ b \in Places /\ b.pc = "write" /\ b.pos = 1 /\ b.ready = at[p].ready
        /\ b.cur = at[p].cur /\ b.term = None
    BY ZenonT(60), <1>2 DEF Places, Steps
  <2>. HIDE DEF b
  <2>2. b.pc \notin Scanning \cup AtGate \cup Replaying \cup {"sweep", "sweeping"}
    BY <2>1 DEF Scanning, AtGate, Replaying
  <2>3. PlaceOK(b, run)
    BY <1>2, <2>1, <2>2 DEF PlaceOK
  <2>4. \A i \in 1..Len(at[p].ready) :
          thr[p][at[p].ready[i]].pc = "done" => thr[p][at[p].ready[i]].res \in Written
    BY <1>5 DEF Raising, Finished, ResultAt
  <2>5. JoinOK(b, thr[p])
    BY <2>1, <2>4 DEF JoinOK
  <2>. QED
    BY <1>1, <1>5, <2>3, <2>5, LocalMove
<1>6. CASE \E i \in Raising(p) : at' = [at EXCEPT ![p] = Raise(p, ResultAt(p, i))]
  <2>1. PICK i \in Raising(p) : at' = [at EXCEPT ![p] = Raise(p, ResultAt(p, i))]
    BY <1>6
  <2>2. ResultAt(p, i) \in Finals \ Written
    BY <1>4 DEF Raising
  <2>3. ResultAt(p, i) \in Reasons
    BY <2>2, CauseReason DEF Finals, Causes
  <2>4. /\ PlaceOK(Raise(p, ResultAt(p, i)), run)
        /\ JoinOK(Raise(p, ResultAt(p, i)), thr[p])
    BY <1>2, <2>3, RaiseOK
  <2>. QED
    BY <1>1, <2>1, <2>4, LocalMove
<1>. QED
  BY <1>5, <1>6 DEF Join

(* What the steps of writing start from. *)
LEMMA SettleHere ==
  ASSUME NativeInv, NEW p \in Procs, at[p].pc \in Settles,
         at[p].pc # "write" \/ Unsettled(p)
  PROVE  /\ at[p] \in Places /\ PlaceOK(at[p], run) /\ JoinOK(at[p], thr[p])
         /\ at[p].pos \in 1..Len(at[p].ready)
         /\ Settling(p) \in Nodes /\ Finished(p, at[p].pos)
         /\ ResultAt(p, at[p].pos) \in Written
<1>1. at[p] \in Places /\ PlaceOK(at[p], run) /\ JoinOK(at[p], thr[p])
  BY Here
<1>2. Len(at[p].ready) \in Nat /\ \A i \in 1..Len(at[p].ready) : at[p].ready[i] \in Nodes
  BY <1>1, ReadyNodes
<1>3. at[p].pos <= Len(at[p].ready) /\ Finished(p, at[p].pos)
  BY <1>1 DEF JoinOK, Finished, Unsettled
<1>4. at[p].pos \in Nat /\ at[p].pos # 0
  BY <1>1 DEF PlaceOK, Places
<1>5. at[p].pos \in 1..Len(at[p].ready)
  BY <1>2, <1>3, <1>4
<1>6. ResultAt(p, at[p].pos) \in Written
  BY <1>1, <1>3, <1>5 DEF JoinOK, Finished, ResultAt
<1>. QED
  BY <1>1, <1>2, <1>3, <1>5, <1>6 DEF Settling

(* Settling goes from writing the file to recording it. *)
LEMMA SettleGotoOK ==
  ASSUME NativeInv, NEW p \in Procs, at[p].pc \in Settles,
         at[p].pc # "write" \/ Unsettled(p), NEW step \in {"write-end", "record"}
  PROVE  PlaceOK(Goto(p, step), run) /\ JoinOK(Goto(p, step), thr[p])
<1>. DEFINE b == Goto(p, step)
<1>1. /\ at[p] \in Places /\ PlaceOK(at[p], run) /\ JoinOK(at[p], thr[p])
      /\ at[p].pos <= Len(at[p].ready)
      /\ thr[p][at[p].ready[at[p].pos]].pc = "done"
  BY SettleHere DEF Finished, JoinOK, Unsettled
<1>2. /\ b \in Places /\ b.pc = step /\ b.pos = at[p].pos /\ b.ready = at[p].ready
      /\ b.cur = at[p].cur /\ b.term = at[p].term
  BY <1>1 DEF Goto, Places, Steps
<1>. HIDE DEF b
<1>3. b.pc \notin Scanning \cup AtGate \cup Replaying \cup {"sweep", "sweeping"}
  BY <1>2 DEF Scanning, AtGate, Replaying
<1>4. PlaceOK(b, run)
  BY <1>1, <1>2, <1>3 DEF PlaceOK
<1>5. JoinOK(b, thr[p])
  BY <1>1, <1>2 DEF JoinOK
<1>. QED
  BY <1>4, <1>5 DEF b

(* OpenResult keeps NativeInv.  (_write_result) *)
LEMMA OpenResultKeeps ==
  ASSUME NativeInv, NEW p \in Procs, OpenResult(p) PROVE NativeInv'
<1>1. at[p].pc \in Settles /\ Unsettled(p)
  BY DEF OpenResult, Settles
<1>2. PlaceOK(Goto(p, "write-end"), run) /\ JoinOK(Goto(p, "write-end"), thr[p])
  BY <1>1, SettleGotoOK
<1>3. result \in [Nodes -> {"none", "torn"} \cup Written]
      /\ manifest \in {"none", "torn", "ok"}
  BY DEF NativeInv, Globals
<1>4. result' \in [Nodes -> {"none", "torn"} \cup Written]
  BY <1>3 DEF OpenResult
<1>. QED
  BY <1>2, <1>3, <1>4, FileMove DEF OpenResult

(* FillResult keeps NativeInv.  (_write_result (write_text)) *)
LEMMA FillResultKeeps ==
  ASSUME NativeInv, NEW p \in Procs, FillResult(p) PROVE NativeInv'
<1>1. at[p].pc \in Settles /\ at[p].pc # "write"
  BY DEF FillResult, Settles
<1>2. PlaceOK(Goto(p, "record"), run) /\ JoinOK(Goto(p, "record"), thr[p])
  BY <1>1, SettleGotoOK
<1>3. result \in [Nodes -> {"none", "torn"} \cup Written]
      /\ manifest \in {"none", "torn", "ok"}
  BY DEF NativeInv, Globals
<1>4. ResultAt(p, at[p].pos) \in Written
  BY <1>1, SettleHere
<1>5. result' \in [Nodes -> {"none", "torn"} \cup Written]
  BY <1>3, <1>4 DEF FillResult
<1>. QED
  BY <1>2, <1>3, <1>5, FileMove DEF FillResult

(* Record keeps NativeInv.  (execute (record the result)) *)
LEMMA RecordKeeps ==
  ASSUME NativeInv, NEW p \in Procs, Record(p) PROVE NativeInv'
<1>. DEFINE n      == Settling(p)
            status == ResultAt(p, at[p].pos)
            ends   == status = "failed" \/ (status = "skipped" /\ at[p].term = None)
            term   == IF ends THEN n ELSE at[p].term
            b0     == [at[p] EXCEPT !.pc = "write", !.pos = @ + 1,
                                    !.term = IF ends THEN n ELSE @]
<1>1. /\ CallAt("record", p, Recording(n, status), RecordKey(n, status), b0)
      /\ at[p].pc \in Settles /\ at[p].pc # "write"
  BY DEF Record, CallAt, Settles
<1>2. /\ at[p] \in Places /\ PlaceOK(at[p], run) /\ JoinOK(at[p], thr[p])
      /\ at[p].pos \in 1..Len(at[p].ready)
      /\ n \in Nodes /\ status \in Written
  BY <1>1, SettleHere
<1>3. PICK k \in Nat : k = at[p].pos + 1
  BY <1>2
<1>4. k # 0
  BY <1>2, <1>3
<1>5. term \in Nodes \cup {None}
  BY <1>2 DEF Places
<1>6. b0 = [at[p] EXCEPT !.pc = "write", !.pos = k, !.term = term]
  BY <1>2, <1>3 DEF Places
<1>7. term # None => thr[p][term].res \in Written
  <2>1. CASE ends
    BY <1>2, <2>1 DEF Settling, ResultAt
  <2>2. CASE ~ends
    BY <1>1, <1>2, <2>2 DEF JoinOK
  <2>. QED
    BY <2>1, <2>2
<1>8. /\ Recording(n, status) \in Commands
      /\ Recording(n, status).type \in Ordinary
      /\ RecordKey(n, status) \in Keys
  BY <1>2, RecordingType
<1>. HIDE DEF b0, term, status, n
<1>9. /\ b0 \in Places /\ b0.pc = "write" /\ b0.pos = k /\ b0.ready = at[p].ready
      /\ b0.cur = at[p].cur /\ b0.term = term
  BY <1>2, <1>5, <1>6 DEF Places, Steps
<1>10. b0.pc \notin Scanning \cup AtGate \cup Replaying \cup {"sweep", "sweeping"}
  BY <1>9 DEF Scanning, AtGate, Replaying
<1>11. PlaceOK(b0, run)
  BY <1>2, <1>4, <1>9, <1>10 DEF PlaceOK
<1>12. JoinOK(b0, thr[p])
  BY <1>1, <1>2, <1>7, <1>9 DEF JoinOK
<1>. QED
  BY <1>1, <1>8, <1>11, <1>12, CallAtMove

(* A layer consists of nodes. *)
LEMMA LayerNodes ==
  ASSUME NEW past \in SUBSET Nodes
  PROVE  past \cup Layer(past) \in SUBSET Nodes
  BY DEF Layer

(* The threads are gone. *)
LEMMA OffMove ==
  ASSUME NativeInv, NEW p \in Procs, NEW a, at' = [at EXCEPT ![p] = a],
         thr' = [thr EXCEPT ![p] = [n \in Nodes |-> Off]],
         UNCHANGED <<run, Files, now>>, crashes' \in 0..MaxCrashes,
         PlaceOK(a, run), a.pc \notin Settles
  PROVE  NativeInv'
<1>. DEFINE th == [n \in Nodes |-> Off]
<1>1. /\ run' = run /\ manifest' = manifest /\ result' = result /\ now' = now
  BY DEF Files
<1>2. Off \in Threads
  BY OffOK DEF ThreadOK
<1>3. th \in [Nodes -> Threads] /\ \A n \in Nodes : ThreadOK(th[n], n, run')
  BY <1>2, OffOK
<1>4. Globals /\ RunOK(run)
  BY DEF NativeInv
<1>5. Grows(run, run') /\ RunOK(run') /\ PlaceOK(a, run')
  BY <1>1, <1>4, GrowsRefl DEF RunOK
<1>6. /\ manifest' \in {"none", "torn", "ok"}
      /\ result' \in [Nodes -> {"none", "torn"} \cup Written]
      /\ now' \in 0..MaxTime
  BY <1>1, <1>4 DEF Globals
<1>7. JoinOK(a, th)
  BY DEF JoinOK
<1>8. thr' = [thr EXCEPT ![p] = th]
  OBVIOUS
<1>. HIDE DEF th
<1>. QED
  BY <1>3, <1>5, <1>6, <1>7, <1>8, ProcStep

(* Settled keeps NativeInv.  (execute (terminal_result)) *)
LEMMA SettledKeeps ==
  ASSUME NativeInv, NEW p \in Procs, Settled(p) PROVE NativeInv'
<1>. DEFINE past == at[p].past \cup Layer(at[p].past)
            c    == [at[p] EXCEPT !.pc = "layer", !.past = past]
            d    == [at[p] EXCEPT !.pc = "sweep", !.got = thr[p][at[p].term].res]
            b    == IF at[p].term = None THEN c ELSE d
<1>0. at[p] \in Places /\ PlaceOK(at[p], run) /\ JoinOK(at[p], thr[p])
  BY Here
<1>1. /\ at' = [at EXCEPT ![p] = b] /\ at[p].pc \in Settles
      /\ thr' = [thr EXCEPT ![p] = [n \in Nodes |-> Off]]
      /\ UNCHANGED <<run, Files, now>> /\ crashes' = crashes
  <2>1. c = [at[p] EXCEPT !.pc = "layer", !.past = @ \cup Layer(@)]
    BY <1>0 DEF Places
  <2>. QED
    BY <2>1 DEF Settled, Settles
<1>2. crashes' \in 0..MaxCrashes
  BY <1>1 DEF NativeInv, Globals
<1>3. past \in SUBSET Nodes
  BY <1>0, LayerNodes DEF Places
<1>4. PlaceOK(c, run) /\ c.pc \notin Settles
  <2>. HIDE DEF past
  <2>1. /\ c \in Places /\ c.pc = "layer" /\ c.ready = at[p].ready
        /\ c.pos = at[p].pos /\ c.cur = at[p].cur
    BY <1>0, <1>3 DEF Places, Steps
  <2>. HIDE DEF c
  <2>2. c.pc \notin Bound
    BY <2>1 DEF Bound, Scanning, AtGate, Replaying, Settles
  <2>3. c.pos # 0
    BY <1>0, <2>1 DEF PlaceOK
  <2>4. PlaceOK(c, run)
    BY <1>0, <2>1, <2>2, <2>3, FreeOK
  <2>. QED
    BY <2>2, <2>4 DEF Bound
<1>5. ASSUME at[p].term # None PROVE PlaceOK(d, run) /\ d.pc \notin Settles
  <2>1. thr[p][at[p].term].res \in Written
    BY <1>0, <1>1, <1>5 DEF JoinOK
  <2>2. at[p].term \in Nodes
    BY <1>0, <1>5 DEF Places
  <2>3. /\ d \in Places /\ d.pc = "sweep" /\ d.ready = at[p].ready
        /\ d.pos = at[p].pos /\ d.cur = at[p].cur /\ d.term = at[p].term
    BY <1>0, <2>1 DEF Places, Steps
  <2>. HIDE DEF d
  <2>4. d.pc \notin Scanning \cup AtGate \cup Replaying \cup Settles \cup {"sweeping"}
    BY <2>3 DEF Scanning, AtGate, Replaying, Settles
  <2>. QED
    BY <1>0, <2>2, <2>3, <2>4 DEF PlaceOK
<1>. HIDE DEF c, d
<1>6. PlaceOK(b, run) /\ b.pc \notin Settles
  BY <1>4, <1>5
<1>. HIDE DEF b
<1>. QED
  BY <1>1, <1>2, <1>6, OffMove

-----------------------------------------------------------------------------
(* The run is ended, or an exception ends the execution. *)

(* SweepLoad keeps NativeInv.  (_cancel_unfinished_nodes (load)) *)
LEMMA SweepLoadKeeps ==
  ASSUME NativeInv, NEW p \in Procs, SweepLoad(p) PROVE NativeInv'
<1>. DEFINE b == [at[p] EXCEPT !.pc = "sweeping", !.cur = StatesOf(run),
                               !.past = {}, !.pos = 1]
<1>1. /\ at' = [at EXCEPT ![p] = b] /\ UNCHANGED <<run, Rest>>
      /\ at[p].pc = "sweep"
  BY DEF SweepLoad
<1>2. at[p] \in Places /\ PlaceOK(at[p], run) /\ run \in Snapshots
  BY Here
<1>3. at[p].term \in Nodes
  BY <1>1, <1>2 DEF PlaceOK
<1>4. StatesOf(run) \in [Nodes -> NodeStates]
  BY <1>2, StatesOfType
<1>5. /\ b \in Places /\ b.pc = "sweeping" /\ b.ready = at[p].ready /\ b.pos = 1
      /\ b.cur = StatesOf(run) /\ b.term = at[p].term
  BY <1>2, <1>4 DEF Places, Steps
<1>6. \A d \in Nodes : StatesOf(run)[d] = run.nodes[d].state
  BY DEF StatesOf
<1>. HIDE DEF b
<1>7. b.pc \notin Scanning \cup AtGate \cup Replaying \cup Settles
  BY <1>5 DEF Scanning, AtGate, Replaying, Settles
<1>8. PlaceOK(b, run) /\ JoinOK(b, thr[p])
  BY <1>2, <1>3, <1>5, <1>6, <1>7 DEF PlaceOK, JoinOK
<1>. QED
  BY <1>1, <1>8, LocalMove

(* A place of the sweep with other beliefs. *)
LEMMA SweepOK ==
  ASSUME NEW a, NEW r, NEW th, NEW b, PlaceOK(a, r), a.pc = "sweeping",
         b \in Places, b.pc = "sweeping", b.ready = a.ready, b.pos # 0,
         b.pos = 1 \/ b.pos <= Len(Order), b.term = a.term,
         \A d \in Nodes : b.cur[d] = "succeeded" => r.nodes[d].state = "succeeded"
  PROVE  PlaceOK(b, r) /\ JoinOK(b, th)
<1>1. b.pc \notin Scanning \cup AtGate \cup Replaying \cup Settles
  BY DEF Scanning, AtGate, Replaying, Settles
<1>. QED
  BY <1>1 DEF PlaceOK, JoinOK

(* The sweep's next position. *)
LEMMA OnwardFacts ==
  ASSUME NEW p, NEW r, PlaceOK(at[p], r), at[p].pc = "sweeping"
  PROVE  LET b == Onward(p) IN
         /\ b \in Places /\ b.pc = "sweeping" /\ b.ready = at[p].ready
         /\ b.pos # 0 /\ (b.pos = 1 \/ b.pos <= Len(Order))
         /\ b.term = at[p].term /\ b.cur = at[p].cur
<1>1. at[p] \in Places /\ at[p].pos \in Nat /\ at[p].past \in SUBSET Nodes
  BY DEF PlaceOK, Places
<1>2. CASE at[p].pos < Len(Order)
  <2>1. PICK k \in Nat : k = at[p].pos + 1
    BY <1>1
  <2>2. k # 0 /\ k <= Len(Order)
    BY <1>1, <1>2, <2>1, OrderNodes
  <2>3. Onward(p) = [at[p] EXCEPT !.pos = k]
    BY <1>2, <2>1 DEF Onward
  <2>. QED
    BY <1>1, <2>2, <2>3 DEF Places
<1>3. CASE ~(at[p].pos < Len(Order))
  <2>. DEFINE past == at[p].past \cup Layer(at[p].past)
  <2>1. past \in SUBSET Nodes
    BY <1>1, LayerNodes
  <2>2. Onward(p) = [at[p] EXCEPT !.past = past, !.pos = 1]
    BY <1>1, <1>3 DEF Onward, Places
  <2>. HIDE DEF past
  <2>. DEFINE c == [at[p] EXCEPT !.past = past, !.pos = 1]
  <2>3. c \in Places
    BY <1>1, <2>1 DEF Places
  <2>4. /\ c.pc = at[p].pc /\ c.ready = at[p].ready /\ c.pos = 1
        /\ c.term = at[p].term /\ c.cur = at[p].cur
    BY <1>1 DEF Places
  <2>5. Onward(p) = c
    BY <2>2
  <2>. HIDE DEF c
  <2>. QED
    BY <2>3, <2>4, <2>5
<1>. QED
  BY <1>2, <1>3

(* Sweep keeps NativeInv.  (_cancel_unfinished_nodes) *)
LEMMA SweepKeeps ==
  ASSUME NativeInv, NEW p \in Procs, Sweep(p) PROVE NativeInv'
<1>. DEFINE n     == Node(p)
            cmd   == NodeTo(n, "cancelled", at[p].term)
            key   == <<n, "cancel-unfinished">>
            next  == Onward(p)
            run2  == RunAfter(cmd, key, 0)
            taken == [next EXCEPT !.cur = StatesOf(run2)]
            a     == IF Taken(cmd, key) THEN taken ELSE Raise(p, Answer(cmd, key))
<1>1. /\ at[p].pc = "sweeping" /\ UNCHANGED Rest /\ Layer(at[p].past) # {}
      /\ \/ at' = [at EXCEPT ![p] = next] /\ run' = run
         \/ Call(p, cmd, key, taken, Raise(p, Answer(cmd, key)))
  BY DEF Sweep
<1>2. /\ PlaceOK(at[p], run) /\ at[p] \in Places /\ run \in Snapshots
      /\ at[p].term \in Nodes /\ at[p].term \in Reasons
  BY <1>1, Here, StoreAssumption DEF PlaceOK
<1>3. n \in Nodes
  <2>1. \E m \in Nodes : TRUE
    BY <1>1 DEF Layer
  <2>2. 1 <= Len(Order)
    BY <2>1, GraphAssumption, OrderNodes
  <2>3. at[p].pos <= Len(Order)
    BY <1>1, <1>2, <2>2 DEF PlaceOK
  <2>. QED
    BY <1>2, <2>3, NodeHere
<1>4. /\ next \in Places /\ next.pc = "sweeping" /\ next.ready = at[p].ready
      /\ next.pos # 0 /\ (next.pos = 1 \/ next.pos <= Len(Order))
      /\ next.term = at[p].term /\ next.cur = at[p].cur
  BY <1>1, <1>2, OnwardFacts
<1>. HIDE DEF next
<1>5. CASE at' = [at EXCEPT ![p] = next] /\ run' = run
  <2>1. \A d \in Nodes : next.cur[d] = "succeeded" => run.nodes[d].state = "succeeded"
    BY <1>2, <1>4 DEF PlaceOK
  <2>2. PlaceOK(next, run) /\ JoinOK(next, thr[p])
    BY <1>1, <1>2, <1>4, <2>1, SweepOK
  <2>. QED
    BY <1>1, <1>5, <2>2, LocalMove
<1>6. CASE Call(p, cmd, key, taken, Raise(p, Answer(cmd, key)))
  <2>1. cmd \in Commands /\ cmd.type \in Ordinary /\ key \in Keys
    BY <1>2, <1>3, NodeToCall, NodeKeys
  <2>2. at' = [at EXCEPT ![p] = a] /\ run' = run2
    BY <1>6 DEF Call
  <2>. HIDE DEF cmd, key
  <2>3. RunOK(run2) /\ Grows(run, run2)
    BY <2>1, Here, OrdinaryCall
  <2>. HIDE DEF run2
  <2>4. run2 \in Snapshots /\ PlaceOK(at[p], run2)
    BY <1>2, <2>3, PlaceKept DEF RunOK
  <2>5. StatesOf(run2) \in [Nodes -> NodeStates]
    BY <2>4, StatesOfType
  <2>6. /\ taken \in Places /\ taken.pc = "sweeping" /\ taken.ready = at[p].ready
        /\ taken.pos = next.pos /\ taken.term = at[p].term
        /\ taken.cur = StatesOf(run2)
    BY <1>4, <2>5 DEF Places
  <2>. HIDE DEF taken
  <2>7. \A d \in Nodes :
          taken.cur[d] = "succeeded" => run2.nodes[d].state = "succeeded"
    BY <2>6 DEF StatesOf
  <2>8. PlaceOK(taken, run2) /\ JoinOK(taken, thr[p])
    <3>1. taken.pos # 0 /\ (taken.pos = 1 \/ taken.pos <= Len(Order))
      BY <1>4, <2>6
    <3>. QED
      BY <1>1, <2>4, <2>6, <2>7, <3>1, SweepOK
  <2>9. ~Taken(cmd, key) => /\ PlaceOK(Raise(p, Answer(cmd, key)), run2)
                            /\ JoinOK(Raise(p, Answer(cmd, key)), thr[p])
    BY <2>4, Refusal, RaiseOK
  <2>10. PlaceOK(a, run2) /\ JoinOK(a, thr[p])
    BY <2>8, <2>9
  <2>. HIDE DEF a
  <2>. QED
    BY <1>1, <2>2, <2>3, <2>10, Move
<1>. QED
  BY <1>1, <1>5, <1>6

(* EndRun keeps NativeInv.  (execute (cancel or fail)) *)
LEMMA EndRunKeeps ==
  ASSUME NativeInv, NEW p \in Procs, EndRun(p) PROVE NativeInv'
<1>. DEFINE skip  == at[p].got = "skipped"
            state == IF skip THEN "cancelled" ELSE "failed"
            key   == <<"runtime", IF skip THEN "cancel" ELSE "fail">>
<1>1. /\ CallAt("sweeping", p, RunTo(state, at[p].term), key, Return(state))
      /\ at[p].pc = "sweeping"
  BY DEF EndRun, CallAt
<1>2. at[p].term \in Reasons
  BY <1>1, Here, StoreAssumption DEF PlaceOK
<1>3. state \in {"cancelled", "failed"} /\ key \in Keys
  BY RuntimeKeys
<1>. HIDE DEF state, key
<1>4. RunTo(state, at[p].term) \in Commands /\ RunTo(state, at[p].term).type \in Ordinary
  BY <1>2, <1>3, RunToCall
<1>5. PlaceOK(Return(state), run) /\ JoinOK(Return(state), thr[p])
  BY <1>3, IdleOK DEF Answers
<1>. QED
  BY <1>1, <1>3, <1>4, <1>5, CallAtMove

(* Complete keeps NativeInv.  (execute (complete)) *)
LEMMA CompleteKeeps ==
  ASSUME NativeInv, NEW p \in Procs, Complete(p) PROVE NativeInv'
<1>1. CallAt("complete", p, RunTo("completed", "none"), <<"runtime", "complete">>,
             Return("completed"))
  BY DEF Complete
<1>2. /\ RunTo("completed", "none") \in Commands
      /\ RunTo("completed", "none").type \in Ordinary
      /\ <<"runtime", "complete">> \in Keys
  BY NoneReason, RunToCall, RuntimeKeys
<1>3. PlaceOK(Return("completed"), run) /\ JoinOK(Return("completed"), thr[p])
  BY IdleOK DEF Answers
<1>. QED
  BY <1>1, <1>2, <1>3, CallAtMove

(* FailLoad keeps NativeInv.  (_fail_running_node) *)
LEMMA FailLoadKeeps ==
  ASSUME NativeInv, NEW p \in Procs, FailLoad(p) PROVE NativeInv'
<1>. DEFINE b == [at[p] EXCEPT !.pc = "failing", !.cur = StatesOf(run), !.pos = 1]
            a == IF run.state # "running" THEN Return("failed") ELSE b
<1>1. /\ at' = [at EXCEPT ![p] = a]
      /\ thr' = [thr EXCEPT ![p] = [n \in Nodes |-> Off]]
      /\ UNCHANGED <<run, Files, now>> /\ crashes' = crashes
  BY DEF FailLoad
<1>2. at[p] \in Places /\ PlaceOK(at[p], run) /\ run \in Snapshots
  BY Here
<1>3. StatesOf(run) \in [Nodes -> NodeStates]
  BY <1>2, StatesOfType
<1>4. /\ b \in Places /\ b.pc = "failing" /\ b.ready = at[p].ready /\ b.pos = 1
      /\ b.cur = StatesOf(run)
  BY <1>2, <1>3 DEF Places, Steps
<1>5. \A d \in Nodes : StatesOf(run)[d] = run.nodes[d].state
  BY DEF StatesOf
<1>. HIDE DEF b
<1>6. b.pc \notin Scanning \cup AtGate \cup Replaying \cup Settles
        \cup {"sweep", "sweeping"}
  BY <1>4 DEF Scanning, AtGate, Replaying, Settles
<1>7. PlaceOK(b, run) /\ b.pc \notin Settles
  BY <1>2, <1>4, <1>5, <1>6 DEF PlaceOK
<1>8. PlaceOK(Return("failed"), run) /\ Return("failed").pc \notin Settles
  BY IdleOK DEF Answers, Return, Idle, Settles
<1>9. PlaceOK(a, run) /\ a.pc \notin Settles
  BY <1>7, <1>8
<1>10. crashes' \in 0..MaxCrashes
  BY <1>1 DEF NativeInv, Globals
<1>. HIDE DEF a
<1>. QED
  BY <1>1, <1>9, <1>10, OffMove

(* FailNode keeps NativeInv.  (_fail_running_node (nodes)) *)
LEMMA FailNodeKeeps ==
  ASSUME NativeInv, NEW p \in Procs, FailNode(p) PROVE NativeInv'
<1>. DEFINE n     == Order[at[p].pos]
            cmd   == NodeTo(n, "failed", at[p].why)
            key   == <<n, "exception">>
            other == Return(IF Answer(cmd, key) = "refused" THEN "failed"
                                                            ELSE "raised")
<1>0. at[p] \in Places /\ PlaceOK(at[p], run) /\ at[p].pos \in Nat
  BY Here DEF Places
<1>1. PICK k \in Nat : k = at[p].pos + 1
  BY <1>0
<1>. DEFINE next == [at[p] EXCEPT !.pos = k]
<1>2. /\ at[p].pc = "failing" /\ at[p].pos <= Len(Order) /\ UNCHANGED Rest
      /\ \/ at' = [at EXCEPT ![p] = next] /\ run' = run
         \/ Call(p, cmd, key, next, other)
  <2>1. next = [at[p] EXCEPT !.pos = @ + 1]
    BY <1>1
  <2>2. [at EXCEPT ![p].pos = @ + 1] = [at EXCEPT ![p] = next]
    BY <1>1
  <2>. QED
    BY <2>1, <2>2 DEF FailNode
<1>3. n \in Nodes /\ at[p].why \in Reasons
  BY <1>0, <1>2, NodeHere DEF Places, Node
<1>4. cmd \in Commands /\ cmd.type \in Ordinary /\ key \in Keys
  BY <1>3, NodeToCall, NodeKeys
<1>5. /\ next \in Places /\ next.pc = "failing" /\ next.ready = at[p].ready
      /\ next.pos = k /\ next.cur = at[p].cur
  BY <1>0, <1>2 DEF Places
<1>. HIDE DEF next, cmd, key
<1>6. next.pc \notin Bound /\ next.pos # 0
  BY <1>0, <1>1, <1>5 DEF Bound, Scanning, AtGate, Replaying, Settles
<1>7. PlaceOK(next, run) /\ JoinOK(next, thr[p])
  BY <1>0, <1>5, <1>6, FreeOK
<1>8. PlaceOK(other, run) /\ JoinOK(other, thr[p])
  BY IdleOK DEF Answers
<1>. HIDE DEF other
<1>9. CASE at' = [at EXCEPT ![p] = next] /\ run' = run
  BY <1>2, <1>7, <1>9, LocalMove
<1>10. CASE Call(p, cmd, key, next, other)
  BY <1>2, <1>4, <1>7, <1>8, <1>10, CallMove
<1>. QED
  BY <1>2, <1>9, <1>10

(* FailRun keeps NativeInv.  (_fail_running_node (run)) *)
LEMMA FailRunKeeps ==
  ASSUME NativeInv, NEW p \in Procs, FailRun(p) PROVE NativeInv'
<1>. DEFINE cmd   == RunTo("failed", at[p].why)
            key   == <<"runtime", "exception">>
            other == Return(IF Answer(cmd, key) = "refused" THEN "failed"
                                                            ELSE "raised")
<1>1. Call(p, cmd, key, Return("failed"), other) /\ UNCHANGED Rest
  BY DEF FailRun
<1>2. at[p].why \in Reasons
  BY Here DEF Places
<1>3. cmd \in Commands /\ cmd.type \in Ordinary /\ key \in Keys
  BY <1>2, RunToCall, RuntimeKeys
<1>. HIDE DEF cmd, key
<1>4. PlaceOK(other, run) /\ JoinOK(other, thr[p])
  BY IdleOK DEF Answers
<1>5. PlaceOK(Return("failed"), run) /\ JoinOK(Return("failed"), thr[p])
  BY IdleOK DEF Answers
<1>. HIDE DEF other
<1>. QED
  BY <1>1, <1>3, <1>4, <1>5, CallMove

(* Crash keeps NativeInv.  (death of the process) *)
LEMMA CrashKeeps ==
  ASSUME NativeInv, NEW p \in Procs, Crash(p) PROVE NativeInv'
<1>1. Idle = Return("none")
  BY IdleReturn
<1>2. PlaceOK(Return("none"), run) /\ Return("none").pc \notin Settles
  BY IdleOK DEF Answers, Return, Idle, Settles
<1>3. crashes' \in 0..MaxCrashes
  BY NativeAssumption DEF Crash, NativeInv, Globals
<1>. QED
  BY <1>1, <1>2, <1>3, OffMove DEF Crash

-----------------------------------------------------------------------------
(* The operator and the clock. *)

(* A step that moves no process. *)
LEMMA RunStep ==
  ASSUME NativeInv, RunOK(run'), Grows(run, run'), UNCHANGED <<at, Files, thr>>,
         now' \in 0..MaxTime, crashes' \in 0..MaxCrashes
  PROVE  NativeInv'
<1>1. /\ at' = at /\ thr' = thr /\ manifest' = manifest /\ result' = result
  BY DEF Files
<1>2. Globals'
  BY <1>1 DEF NativeInv, Globals
<1>3. ASSUME NEW q \in Procs PROVE ProcOK(q)'
  <2>1. run \in Snapshots /\ run' \in Snapshots
    BY DEF NativeInv, RunOK
  <2>2. PlaceOK(at[q], run') /\ \A n \in Nodes : ThreadOK(thr[q][n], n, run')
    BY <2>1, Here, PlaceKept, ThreadKept
  <2>. QED
    BY <1>1, <2>2, Here DEF ProcOK
<1>. QED
  BY <1>2, <1>3 DEF NativeInv

(* What an operator commands are transitions. *)
LEMMA CommandedType ==
  ASSUME NEW cmd \in Commanded
  PROVE  cmd \in Commands /\ cmd.type \in {"run_transition", "node_transition"}
<1>1. CASE \E s \in OperatorMoves \ {"approve"} : cmd = RunTo(s, "none")
  <2>1. PICK s \in OperatorMoves \ {"approve"} : cmd = RunTo(s, "none")
    BY <1>1
  <2>2. s \in {"paused", "cancelled"}
    BY NativeAssumption
  <2>3. cmd \in Commands
    BY <2>1, <2>2, NoneReason, RunToType
  <2>. QED
    BY <2>1, <2>3 DEF RunTo
<1>2. CASE \E n \in NeedApproval : cmd = ApproveNode(n)
  <2>1. PICK n \in NeedApproval : cmd = ApproveNode(n)
    BY <1>2
  <2>2. cmd \in Commands
    BY <2>1, ApproveType, GraphAssumption
  <2>. QED
    BY <2>1, <2>2 DEF ApproveNode, NodeTo
<1>3. CASE cmd = ApproveRun
  <2>1. cmd \in Commands
    BY <1>3, ApproveType
  <2>. QED
    BY <1>3, <2>1 DEF ApproveRun, RunTo
<1>. QED
  BY <1>1, <1>2, <1>3 DEF Commanded

(* Operator keeps NativeInv.  (onmc approve, pause or cancel through the   *)
(* store)                                                                  *)
LEMMA OperatorKeeps ==
  ASSUME NativeInv, NEW cmd \in Commanded, NEW k \in 1..MaxMoves, Operator(cmd, k)
  PROVE  NativeInv'
<1>1. cmd \in Commands /\ cmd.type \in Ordinary
  BY CommandedType DEF Ordinary
<1>2. <<"operator", k>> \in Keys
  BY StoreAssumption DEF NativeKeys
<1>3. run' = RunAfter(cmd, <<"operator", k>>, 0)
  BY DEF Operator
<1>4. RunOK(run') /\ Grows(run, run')
  BY <1>1, <1>2, <1>3, Clock, OrdinaryCall DEF NativeInv
<1>5. UNCHANGED <<at, Files, thr>> /\ now' = now /\ crashes' = crashes
  BY DEF Operator, Rest
<1>6. now' \in 0..MaxTime /\ crashes' \in 0..MaxCrashes
  BY <1>5 DEF NativeInv, Globals
<1>. QED
  BY <1>4, <1>5, <1>6, RunStep

(* Tick keeps NativeInv.  (time.time()) *)
LEMMA TickKeeps ==
  ASSUME NativeInv, Tick PROVE NativeInv'
<1>1. run' = run /\ UNCHANGED <<at, Files, thr>> /\ crashes' = crashes
  BY DEF Tick
<1>2. now' \in 0..MaxTime /\ crashes' \in 0..MaxCrashes
  BY <1>1, ConstantsAssumption DEF Tick, NativeInv, Globals
<1>3. RunOK(run') /\ Grows(run, run')
  BY <1>1, GrowsRefl DEF NativeInv, RunOK
<1>. QED
  BY <1>1, <1>2, <1>3, RunStep

-----------------------------------------------------------------------------
(* The invariant holds at first. *)
LEMMA InitInv == Init => NativeInv
<1>. SUFFICES ASSUME Init PROVE NativeInv
  OBVIOUS
<1>1. /\ run = NoRun /\ manifest = "none" /\ result = [n \in Nodes |-> "none"]
      /\ at = [p \in Procs |-> Idle] /\ thr = [p \in Procs |-> [n \in Nodes |-> Off]]
      /\ now = 0 /\ crashes = 0
  BY DEF Init
<1>2. Idle = Return("none")
  BY IdleReturn
<1>3. \A th : PlaceOK(Idle, run) /\ JoinOK(Idle, th)
  BY <1>2, IdleOK DEF Answers
<1>4. Off \in Threads /\ \A n \in Nodes : ThreadOK(Off, n, run)
  BY OffOK DEF ThreadOK
<1>5. Idle \in Places
  BY <1>3 DEF PlaceOK
<1>6. [n \in Nodes |-> Off] \in [Nodes -> Threads]
  BY <1>4
<1>7. Globals
  BY <1>1, <1>5, <1>6, ConstantsAssumption, NativeAssumption DEF Globals
<1>8. RunOK(run)
  <2>1. \A n \in Nodes : run.nodes[n].lease = None /\ run.nodes[n].attempts = 0
    BY <1>1 DEF NoRun
  <2>2. 0 < MaxTries
    BY NativeAssumption
  <2>3. 1..0 = {}
    OBVIOUS
  <2>. QED
    BY <1>1, <2>1, <2>2, <2>3, NoRunType DEF RunOK
<1>9. ASSUME NEW p \in Procs PROVE ProcOK(p)
  <2>1. at[p] = Idle /\ thr[p] = [n \in Nodes |-> Off]
    BY <1>1
  <2>. QED
    BY <1>3, <1>4, <2>1 DEF ProcOK
<1>. QED
  BY <1>7, <1>8, <1>9 DEF NativeInv

(* Every step keeps the invariant: one lemma per action. *)
LEMMA NextInv ==
  ASSUME NativeInv, [Next]_vars PROVE NativeInv'
<1>1. CASE UNCHANGED vars
  BY <1>1 DEF vars, NativeInv, Globals, RunOK, ProcOK
<1>2. ASSUME NEW p \in Procs, NEW resume \in BOOLEAN, Execute(p, resume)
      PROVE  NativeInv'
  BY <1>2, ExecuteKeeps
<1>3. ASSUME NEW p \in Procs, Step(p) PROVE NativeInv'
  <2>1. CASE Load(p) \/ Create(p) \/ OpenManifest(p) \/ FillManifest(p) \/ Start(p)
    BY <2>1, LoadKeeps, CreateKeeps, OpenManifestKeeps, FillManifestKeeps, StartKeeps
  <2>2. CASE EnterLayer(p) \/ Scan(p) \/ Begin(p) \/ Gate(p) \/ AskNode(p) \/ AskRun(p)
    BY <2>2, EnterLayerKeeps, ScanKeeps, BeginKeeps, GateKeeps, AskNodeKeeps,
       AskRunKeeps
  <2>3. CASE \/ ReplayLoad(p) \/ ReplayLease(p) \/ ReplayResume(p) \/ ReplayStart(p)
             \/ ReplayApply(p) \/ ReplayFail(p)
    BY <2>3, ReplayLoadKeeps, ReplayLeaseKeeps, ReplayResumeKeeps, ReplayStartKeeps,
       ReplayApplyKeeps, ReplayFailKeeps
  <2>4. CASE \/ StartWork(p) \/ Join(p)
             \/ OpenResult(p) \/ FillResult(p) \/ Record(p) \/ Settled(p)
    BY <2>4, StartWorkKeeps, JoinKeeps, OpenResultKeeps, FillResultKeeps,
       RecordKeeps, SettledKeeps
  <2>5. CASE \/ SweepLoad(p) \/ Sweep(p) \/ EndRun(p) \/ Complete(p)
             \/ FailLoad(p) \/ FailNode(p) \/ FailRun(p)
    BY <2>5, SweepLoadKeeps, SweepKeeps, EndRunKeeps, CompleteKeeps, FailLoadKeeps,
       FailNodeKeeps, FailRunKeeps
  <2>. QED
    BY <1>3, <2>1, <2>2, <2>3, <2>4, <2>5 DEF Step
<1>4. ASSUME NEW p \in Procs, NEW n \in Nodes, ThreadStep(p, n) PROVE NativeInv'
  BY <1>4, LeaseLookKeeps, LeaseTakeKeeps, HandlerEndsKeeps, DecideKeeps, RetryKeeps,
     ReleaseKeeps DEF ThreadStep
<1>5. ASSUME NEW p \in Procs, Crash(p) PROVE NativeInv'
  BY <1>5, CrashKeeps
<1>6. ASSUME NEW cmd \in Commanded, NEW k \in 1..MaxMoves, Operator(cmd, k)
      PROVE  NativeInv'
  BY <1>6, OperatorKeeps
<1>7. CASE Tick
  BY <1>7, TickKeeps
<1>. QED
  BY <1>1, <1>2, <1>3, <1>4, <1>5, <1>6, <1>7 DEF Next

(* The invariant holds of every behaviour, however many processes execute  *)
(* the graph at once.                                                      *)
THEOREM NativeInvHolds == Spec => []NativeInv
<1>1. Init => NativeInv
  BY InitInv
<1>2. NativeInv /\ [Next]_vars => NativeInv'
  BY NextInv
<1>. QED
  BY <1>1, <1>2, PTL DEF Spec

(* Every store record, file, process and thread stays well formed. *)
THEOREM TypeCorrect == Spec => []TypeOK
<1>1. NativeInv => TypeOK
  BY InvTyped
<1>. QED
  BY <1>1, NativeInvHolds, PTL

(* A node is never retried more often than its policy allows, whatever     *)
(* processes, crashes and resumptions come together (_record_retry_if_     *)
(* allowed counts in the durable run, not in the process).                 *)
THEOREM RetriesBoundedHolds == Spec => []RetriesBounded
<1>1. NativeInv => RetriesBounded
  BY DEF NativeInv, RunOK, RetriesBounded
<1>. QED
  BY <1>1, NativeInvHolds, PTL

-----------------------------------------------------------------------------
(* What starts a handler is a thread whose turn it is. *)
LEMMA StartsTurn ==
  ASSUME NativeInv, [Next]_vars, NEW p \in Procs, NEW n \in Nodes,
         HandlerStarts(p, n)
  PROVE  Turn(p, n)
<1>0. thr \in [Procs -> [Nodes -> Threads]]
  BY DEF NativeInv, Globals
<1>1. thr' # thr
  BY DEF HandlerStarts
<1>2. ASSUME NEW q \in Procs, NEW th, thr' = [thr EXCEPT ![q] = th],
             th[n].pc # "handler"
      PROVE  FALSE
  BY <1>0, <1>2 DEF HandlerStarts
<1>3. Off.pc # "handler"
  BY DEF Off
<1>4. ASSUME NEW q \in Procs, Step(q) PROVE FALSE
  <2>1. CASE UNCHANGED Rest \/ UNCHANGED thr
    BY <1>1, <2>1 DEF Rest
  <2>2. CASE StartWork(q)
    <3>. DEFINE th == [m \in Nodes |->
                        IF \E i \in 1..Len(at[q].ready) : at[q].ready[i] = m
                          THEN [Off EXCEPT !.pc = "look"] ELSE Off]
    <3>1. thr' = [thr EXCEPT ![q] = th]
      BY <2>2 DEF StartWork
    <3>2. th[n].pc # "handler"
      BY DEF Off
    <3>. HIDE DEF th
    <3>. QED
      BY <1>2, <3>1, <3>2
  <2>3. CASE Settled(q) \/ FailLoad(q)
    <3>. DEFINE th == [m \in Nodes |-> Off]
    <3>1. thr' = [thr EXCEPT ![q] = th]
      BY <2>3 DEF Settled, FailLoad
    <3>2. th[n].pc # "handler"
      BY <1>3
    <3>. HIDE DEF th
    <3>. QED
      BY <1>2, <3>1, <3>2
  <2>4. CASE ~(StartWork(q) \/ Settled(q) \/ FailLoad(q))
    <3>1. UNCHANGED Rest \/ UNCHANGED thr
      <4>1. CASE \/ Load(q) \/ Create(q) \/ OpenManifest(q) \/ FillManifest(q)
                 \/ Start(q) \/ EnterLayer(q) \/ Scan(q) \/ Begin(q) \/ Gate(q)
                 \/ AskNode(q) \/ AskRun(q)
        BY <4>1 DEF Load, Create, OpenManifest, FillManifest, Start, EnterLayer,
             Scan, Begin, Gate, AskNode, AskRun, CallAt
      <4>2. CASE \/ ReplayLoad(q) \/ ReplayLease(q) \/ ReplayResume(q)
                 \/ ReplayStart(q) \/ ReplayApply(q) \/ ReplayFail(q)
        BY <4>2 DEF ReplayLoad, ReplayLease, ReplayResume, ReplayStart,
             ReplayApply, ReplayFail
      <4>3. CASE \/ Join(q) \/ OpenResult(q) \/ FillResult(q) \/ Record(q)
                 \/ SweepLoad(q) \/ Sweep(q) \/ EndRun(q) \/ Complete(q)
                 \/ FailNode(q) \/ FailRun(q)
        BY <4>3 DEF Join, OpenResult, FillResult, Record, SweepLoad, Sweep, EndRun,
             Complete, FailNode, FailRun, CallAt
      <4>. QED
        BY <1>4, <2>4, <4>1, <4>2, <4>3 DEF Step
    <3>. QED
      BY <2>1, <3>1
  <2>. QED
    BY <2>2, <2>3, <2>4
<1>5. ASSUME NEW q \in Procs, NEW m \in Nodes, ThreadStep(q, m) PROVE Turn(p, n)
  <2>1. Turn(q, m) /\ \E t : Thread(q, m, t)
    BY <1>5 DEF ThreadStep, LeaseLook, LeaseTake, HandlerEnds, Decide, Retry, Release
  <2>2. PICK t : Thread(q, m, t)
    BY <2>1
  <2>3. q = p /\ m = n
    BY <1>0, <2>2 DEF Thread, HandlerStarts
  <2>. QED
    BY <2>1, <2>3
<1>6. ASSUME NEW q \in Procs, Crash(q) PROVE FALSE
  <2>. DEFINE th == [m \in Nodes |-> Off]
  <2>1. thr' = [thr EXCEPT ![q] = th]
    BY <1>6 DEF Crash
  <2>2. th[n].pc # "handler"
    BY <1>3
  <2>. HIDE DEF th
  <2>. QED
    BY <1>2, <2>1, <2>2
<1>7. ASSUME NEW q \in Procs, NEW resume \in BOOLEAN, Execute(q, resume)
      PROVE  FALSE
  BY <1>1, <1>7 DEF Execute, Rest
<1>8. ASSUME NEW cmd, NEW k, Operator(cmd, k) PROVE FALSE
  BY <1>1, <1>8 DEF Operator, Rest
<1>9. CASE Tick \/ UNCHANGED vars
  BY <1>1, <1>9 DEF Tick, vars
<1>. QED
  BY <1>4, <1>5, <1>6, <1>7, <1>8, <1>9 DEF Next

(* A handler starts only when all dependencies of its node are recorded as *)
(* succeeded, whatever moved the run since the layer was entered: a        *)
(* recorded success is never taken back.                                   *)
THEOREM DependenciesFirstHolds == Spec => DependenciesFirst
<1>. DEFINE P == \A p \in Procs, n \in Nodes : HandlerStarts(p, n) =>
                   \A d \in Deps[n] : run.nodes[d].state = "succeeded"
<1>1. NativeInv /\ [Next]_vars => P
  <2>. SUFFICES ASSUME NativeInv, [Next]_vars, NEW p \in Procs, NEW n \in Nodes,
                       HandlerStarts(p, n), NEW d \in Deps[n]
                PROVE  run.nodes[d].state = "succeeded"
    OBVIOUS
  <2>1. Turn(p, n)
    BY StartsTurn
  <2>2. PICK i \in 1..Len(at[p].ready) : at[p].ready[i] = n
    BY <2>1 DEF Turn
  <2>. QED
    BY <2>2, Here DEF PlaceOK
<1>2. NativeInv /\ [Next]_vars => [P]_vars
  BY <1>1
<1>3. Spec => [][P]_vars
  BY <1>2, NativeInvHolds, PTL DEF Spec
<1>. QED
  BY <1>3 DEF DependenciesFirst

-----------------------------------------------------------------------------
(* One process at a time: files and store agree.  With two, each overwrites*)
(* the other's files and the claims below are false of the code.           *)

(* No element occurs twice. *)
Distinct(s) == \A i, j \in 1..Len(s) : s[i] = s[j] => i = j

(* A node of the layer is done, or waits among the ready ones. *)
Covered(n, a, res) ==
  res[n] = "succeeded" \/ \E i \in 1..Len(a.ready) : a.ready[i] = n

(* While a layer is scanned and run, nothing of its ready nodes is on file *)
(* and every node passed is covered.                                       *)
Scanned(a, res) ==
  /\ \A i \in 1..Len(a.ready) :
       /\ res[a.ready[i]] = "none"
       /\ \E k \in 1..Len(Order) : k < a.pos /\ Order[k] = a.ready[i]
  /\ Distinct(a.ready)
  /\ \A k \in 1..Len(Order) :
       k < a.pos /\ Order[k] \in Layer(a.past) => Covered(Order[k], a, res)

(* While results are written: the ones before pos are on file, the ones    *)
(* after it are not, and a thread that did not run has a predecessor that  *)
(* ended the layer.                                                        *)
Collected(a, th, res) ==
  /\ Distinct(a.ready)
  /\ \A n \in Layer(a.past) : Covered(n, a, res)
  /\ \A i \in 1..Len(a.ready) : th[a.ready[i]].pc # "done" =>
       \E j \in 1..Len(a.ready) : /\ j < i /\ th[a.ready[j]].pc = "done"
                                  /\ th[a.ready[j]].res # "succeeded"
  /\ \A i \in 1..Len(a.ready) :
       /\ i < a.pos =>
            IF th[a.ready[i]].res = "succeeded"
              THEN res[a.ready[i]] = "succeeded" ELSE a.term # None
       /\ i > a.pos \/ (i = a.pos /\ a.pc = "write") => res[a.ready[i]] = "none"
       /\ i = a.pos /\ a.pc = "write-end" => res[a.ready[i]] = "torn"
       /\ i = a.pos /\ a.pc = "record" => res[a.ready[i]] = th[a.ready[i]].res

(* What the process knows of the result files: those of finished layers    *)
(* succeeded, the node at the gate has none, the replayed one is the file, *)
(* and those being settled are in hand.                                    *)
Walk(a, th, res) ==
  /\ a.pc \notin {"sweeping", "error", "failing"} =>
       \A n \in a.past : res[n] = "succeeded"
  /\ a.pc = "complete" => Layer(a.past) = {}
  /\ a.pc \in Scanning => Scanned(a, res)
  /\ a.pc \in {"begin", "gate"} => res[Order[a.pos]] = "none"
  /\ a.pc \in Replaying => res[Order[a.pos]] = a.got
  /\ a.pc = "work" => a.pos > Len(Order)
  /\ a.pc \in Settles => Collected(a, th, res)

(* What the durable run calls succeeded has its result file. *)
Confirmed(r, res) ==
  \A n \in Nodes :
    (r.nodes[n].state = "succeeded" \/ r.state = "completed") =>
      res[n] = "succeeded"

(* The inductive invariant for one process at a time: store, files and     *)
(* process agree.                                                          *)
FilesInv ==
  /\ Confirmed(run, result)
  /\ \A p \in Procs :
       /\ run.state = "completed" => at[p].pc \in {"idle", "load"}
       /\ Walk(at[p], thr[p], result)

(* At most one process executes the run. *)
Solo == \A p, q \in Procs : p = q

(* Only one command makes a node succeed, and only one completes a run. *)
LEMMA CallEffect ==
  ASSUME run \in Snapshots, NEW cmd \in Commands, NEW key, NEW token
  PROVE  LET s == RunAfter(cmd, key, token) IN
         /\ \A n \in Nodes : s.nodes[n].state = "succeeded" =>
              \/ run.nodes[n].state = "succeeded"
              \/ cmd.type = "node_transition" /\ cmd.node = n /\ cmd.to = "succeeded"
         /\ s.state = "completed" =>
              \/ run.state = "completed"
              \/ cmd.type = "run_transition" /\ cmd.to = "completed"
<1>. DEFINE s == RunAfter(cmd, key, token)
            e == EventOf(run, cmd, key, now)
<1>1. CASE Answer(cmd, key) # "new"
  BY <1>1 DEF RunAfter
<1>2. CASE Answer(cmd, key) = "new"
  <2>1. s = Apply(run, e, token)
    BY <1>2 DEF RunAfter
  <2>2. e.cmd = cmd
    BY DEF EventOf
  <2>3. s.nodes = NodesAfter(run, e, token) /\ s.state = StateAfter(run, e)
    BY <2>1 DEF Apply
  <2>4. run.nodes \in [Nodes -> NodeSnapshots]
    BY DEF Snapshots
  <2>5. s.state = "completed" =>
          \/ run.state = "completed"
          \/ cmd.type = "run_transition" /\ cmd.to = "completed"
    BY <2>2, <2>3 DEF StateAfter
  <2>6. ASSUME NEW n \in Nodes, s.nodes[n].state = "succeeded"
        PROVE  \/ run.nodes[n].state = "succeeded"
               \/ cmd.type = "node_transition" /\ cmd.node = n /\ cmd.to = "succeeded"
    <3>. HIDE DEF s
    <3>1. CASE cmd.type = "run_transition" /\ cmd.to = "cancelled"
      <4>1. s.nodes[n] = CancelNode(run.nodes[n])
        BY <2>2, <2>3, <3>1 DEF NodesAfter
      <4>. QED
        BY <2>4, <2>6, <4>1 DEF CancelNode, NodeSnapshots
    <3>2. CASE cmd.type = "node_transition"
      <4>1. s.nodes = [run.nodes EXCEPT ![cmd.node].state = cmd.to]
        BY <2>2, <2>3, <3>2 DEF NodesAfter
      <4>. QED
        BY <2>4, <2>6, <3>2, <4>1 DEF NodeSnapshots
    <3>3. CASE /\ ~(cmd.type = "run_transition" /\ cmd.to = "cancelled")
               /\ cmd.type # "node_transition"
      BY <2>2, <2>3, <2>4, <2>6, <3>3, CommandFields DEF NodesAfter, NodeSnapshots
    <3>. QED
      BY <3>1, <3>2, <3>3
  <2>. QED
    BY <2>5, <2>6
<1>. QED
  BY <1>1, <1>2

(* Commands that make neither a node succeeded nor a run completed. *)
Innocent(cmd) ==
  /\ ~(cmd.type = "node_transition" /\ cmd.to = "succeeded")
  /\ ~(cmd.type = "run_transition" /\ cmd.to = "completed")

(* A step of the only process, once it left the beginning of execute. *)
LEMMA FilesStep ==
  ASSUME Solo, NativeInv, FilesInv, NEW p \in Procs,
         NEW a, at' = [at EXCEPT ![p] = a], Confirmed(run', result'),
         run'.state = "completed" => a.pc \in {"idle", "load"},
         Walk(a, thr'[p], result')
  PROVE  FilesInv'
<1>1. at'[p] = a
  BY DEF NativeInv, Globals
<1>. QED
  BY <1>1 DEF FilesInv, Solo

(* A step of the process that leaves run and files keeps FilesInv. *)
LEMMA FilesLocal ==
  ASSUME Solo, NativeInv, FilesInv, NEW p \in Procs,
         at[p].pc \notin {"idle", "load"},
         NEW a, at' = [at EXCEPT ![p] = a], run' = run, result' = result,
         Walk(a, thr'[p], result)
  PROVE  FilesInv'
<1>1. run'.state # "completed" /\ Confirmed(run', result')
  BY DEF FilesInv
<1>2. Walk(a, thr'[p], result')
  OBVIOUS
<1>. QED
  BY <1>1, <1>2, FilesStep

(* So does a store call with an innocent command. *)
LEMMA FilesCall ==
  ASSUME Solo, NativeInv, FilesInv, NEW p \in Procs,
         at[p].pc \notin {"idle", "load"}, NEW cmd \in Commands, Innocent(cmd),
         NEW key, NEW taken, NEW refused, Call(p, cmd, key, taken, refused),
         UNCHANGED Rest, Taken(cmd, key) => Walk(taken, thr[p], result),
         ~Taken(cmd, key) => Walk(refused, thr[p], result)
  PROVE  FilesInv'
<1>. DEFINE a == IF Taken(cmd, key) THEN taken ELSE refused
<1>1. /\ run' = RunAfter(cmd, key, 0) /\ at' = [at EXCEPT ![p] = a]
      /\ result' = result /\ thr' = thr
  BY DEF Call, Rest, Files
<1>2. run \in Snapshots
  BY DEF NativeInv, RunOK
<1>3. /\ \A n \in Nodes : run'.nodes[n].state = "succeeded" =>
                            run.nodes[n].state = "succeeded"
      /\ run'.state = "completed" => run.state = "completed"
  BY <1>1, <1>2, CallEffect DEF Innocent
<1>4. run.state # "completed" /\ Confirmed(run, result)
  BY DEF FilesInv
<1>5. Confirmed(run', result') /\ run'.state # "completed"
  BY <1>1, <1>3, <1>4 DEF Confirmed
<1>6. Walk(a, thr'[p], result')
  BY <1>1
<1>. HIDE DEF a
<1>. QED
  BY <1>1, <1>5, <1>6, FilesStep

(* Places outside the layers. *)
LEMMA WalkFree ==
  ASSUME NEW a, NEW th, NEW res,
         a.pc \notin Scanning \cup Settles \cup {"complete"},
         a.pc \in {"sweeping", "error", "failing"} \/
           \A n \in a.past : res[n] = "succeeded"
  PROVE  Walk(a, th, res)
<1>1. a.pc \notin {"begin", "gate"} /\ a.pc \notin Replaying /\ a.pc # "work"
  BY DEF Scanning, AtGate
<1>. QED
  BY <1>1 DEF Walk

(* A process that has returned knows nothing of the files, *)
LEMMA WalkReturn ==
  ASSUME NEW answer, NEW th, NEW res PROVE Walk(Return(answer), th, res)
<1>. DEFINE a == Return(answer)
<1>1. a.pc = "idle" /\ a.past = {}
  BY DEF Return, Idle
<1>. HIDE DEF a
<1>2. a.pc \notin Scanning \cup Settles \cup {"complete"}
  BY <1>1 DEF Scanning, AtGate, Replaying, Settles
<1>3. Walk(a, th, res)
  BY <1>1, <1>2, WalkFree
<1>. QED
  BY <1>3 DEF a

(* nor does one that failed. *)
LEMMA WalkRaise ==
  ASSUME NEW p, at[p] \in Places, NEW cause, NEW th, NEW res
  PROVE  Walk(Raise(p, cause), th, res)
<1>. DEFINE a == Raise(p, cause)
<1>1. a.pc = "error"
  BY DEF Raise, Places
<1>. HIDE DEF a
<1>2. a.pc \notin Scanning \cup Settles \cup {"complete"}
  BY <1>1 DEF Scanning, AtGate, Replaying, Settles
<1>3. Walk(a, th, res)
  BY <1>1, <1>2, WalkFree
<1>. QED
  BY <1>3 DEF a

(* What it knows it keeps on the way to a step that speaks of no node. *)
LEMMA WalkGoto ==
  ASSUME NEW p, at[p] \in Places, NEW th, NEW res, Walk(at[p], th, res),
         at[p].pc \notin {"sweeping", "error", "failing"},
         NEW step, step \notin Scanning \cup Settles \cup {"complete"}, NEW th2
  PROVE  Walk(Goto(p, step), th2, res)
<1>. DEFINE a == Goto(p, step)
<1>1. a.pc = step /\ a.past = at[p].past
  BY DEF Goto, Places
<1>. HIDE DEF a
<1>2. \A n \in a.past : res[n] = "succeeded"
  BY <1>1 DEF Walk
<1>3. Walk(a, th2, res)
  BY <1>1, <1>2, WalkFree
<1>. QED
  BY <1>3 DEF a

(* The next node, when the one at hand is covered or of another layer. *)
LEMMA WalkNext ==
  ASSUME NEW p, at[p] \in Places, NEW th, NEW res, Walk(at[p], th, res),
         at[p].pc \in Scanning, NEW th2,
         Node(p) \in Layer(at[p].past) => Covered(Node(p), at[p], res)
  PROVE  Walk(NextNode(p), th2, res)
<1>. DEFINE a == NextNode(p)
<1>0. at[p].pos \in Nat
  BY DEF Places
<1>1. PICK k \in Nat : k = at[p].pos + 1
  BY <1>0
<1>2. /\ a.pc = "scan" /\ a.past = at[p].past /\ a.ready = at[p].ready
      /\ a.pos = k
  BY <1>1 DEF NextNode, Places
<1>. HIDE DEF a
<1>3. Scanned(at[p], res) /\ at[p].pc \notin {"sweeping", "error", "failing"}
  BY DEF Walk, Scanning, AtGate, Replaying
<1>4. \A n \in a.past : res[n] = "succeeded"
  BY <1>2, <1>3 DEF Walk
<1>5. \A j \in 1..Len(Order) : j < at[p].pos => j < k
  BY <1>0, <1>1, OrderNodes
<1>6. ASSUME NEW j \in 1..Len(Order), j < k, Order[j] \in Layer(a.past)
      PROVE  Covered(Order[j], a, res)
  <2>1. CASE j < at[p].pos
    BY <1>2, <1>3, <1>6, <2>1 DEF Scanned, Covered
  <2>2. CASE j = at[p].pos
    BY <1>2, <1>6, <2>2 DEF Node, Covered
  <2>3. j < at[p].pos \/ j = at[p].pos
    BY <1>0, <1>1, <1>6, OrderNodes
  <2>. QED
    BY <2>1, <2>2, <2>3
<1>7. Scanned(a, res)
  BY <1>2, <1>3, <1>5, <1>6 DEF Scanned
<1>8. a.pc \notin AtGate \cup Replaying \cup Settles
  BY <1>2 DEF AtGate, Replaying, Settles
<1>9. Walk(a, th2, res)
  BY <1>2, <1>4, <1>7, <1>8 DEF Walk, AtGate
<1>. QED
  BY <1>9 DEF a

(* Another step at the same node of the layer. *)
LEMMA WalkAlike ==
  ASSUME NEW a, NEW b, NEW th, NEW res, NEW th2, Walk(a, th, res),
         a.pc \in Scanning, b.pc \in Scanning, b.past = a.past,
         b.ready = a.ready, b.pos = a.pos,
         b.pc \in {"begin", "gate"} => res[Order[a.pos]] = "none",
         b.pc \in Replaying => res[Order[a.pos]] = b.got,
         b.pc = "work" => a.pos > Len(Order)
  PROVE  Walk(b, th2, res)
<1>1. a.pc \notin {"sweeping", "error", "failing"}
  BY DEF Scanning, AtGate, Replaying
<1>2. b.pc # "complete" /\ b.pc \notin Settles
  BY DEF Scanning, AtGate, Replaying, Settles
<1>3. Scanned(b, res)
  BY DEF Walk, Scanned, Covered
<1>4. \A n \in b.past : res[n] = "succeeded"
  BY <1>1 DEF Walk
<1>. QED
  BY <1>2, <1>3, <1>4 DEF Walk

(* The commands that neither make a node succeed nor complete the run. *)
LEMMA RunToInnocent ==
  ASSUME NEW state, state # "completed", NEW reason
  PROVE  Innocent(RunTo(state, reason))
<1>1. RunTo(state, reason).type = "run_transition" /\ RunTo(state, reason).to = state
  BY DEF RunTo
<1>. QED
  BY <1>1 DEF Innocent

(* Only succeeded nodes are not innocent. *)
LEMMA NodeToInnocent ==
  ASSUME NEW n, NEW state, state # "succeeded", NEW reason
  PROVE  Innocent(NodeTo(n, state, reason))
<1>1. NodeTo(n, state, reason).type = "node_transition" /\ NodeTo(n, state, reason).to = state
  BY DEF NodeTo
<1>. QED
  BY <1>1 DEF Innocent

(* The steps that speak of no node. *)
LEMMA FreeSteps ==
  ASSUME NEW step \in {"idle", "load", "create", "manifest", "manifest-end",
                       "start", "layer", "sweep", "sweeping", "error", "failing"}
  PROVE  step \notin Scanning \cup Settles \cup {"complete"}
  BY DEF Scanning, AtGate, Replaying, Settles

(* What FilesInv says of one process. *)
LEMMA WalkHere ==
  ASSUME FilesInv, NEW p \in Procs
  PROVE  Walk(at[p], thr[p], result) /\ Confirmed(run, result)
  BY DEF FilesInv

(* Execute keeps FilesInv.  (execute) *)
LEMMA ExecuteFiles ==
  ASSUME Solo, NativeInv, FilesInv, NEW p \in Procs, NEW resume, Execute(p, resume)
  PROVE  FilesInv'
<1>. DEFINE b == [Idle EXCEPT !.pc = "load", !.resume = resume]
<1>1. /\ at' = [at EXCEPT ![p] = b] /\ run' = run /\ result' = result
  BY DEF Execute, Rest, Files
<1>2. b.pc = "load" /\ b.past = {}
  BY DEF Idle
<1>. HIDE DEF b
<1>3. Walk(b, thr'[p], result')
  BY <1>2, FreeSteps, WalkFree
<1>4. Confirmed(run', result')
  BY <1>1 DEF FilesInv
<1>. QED
  BY <1>1, <1>2, <1>3, <1>4, FilesStep

(* execute begins its walk knowing nothing, and does not walk a completed  *)
(* run.                                                                    *)
LEMMA WalkDispatch ==
  ASSUME NEW p, at[p] \in Places, NEW th, Walk(at[p], th, result), NEW th2,
         at[p].pc \in {"load", "manifest-end"}, NEW state
  PROVE  /\ Walk(Dispatch(p, state), th2, result)
         /\ state = "completed" => Dispatch(p, state).pc = "idle"
<1>0. /\ Walk(Goto(p, "layer"), th2, result)
      /\ Walk(Goto(p, "start"), th2, result)
  BY FreeSteps, WalkGoto
<1>1. CASE state = "completed"
  <2>1. \E answer : Dispatch(p, state) = Return(answer)
    BY <1>1 DEF Dispatch
  <2>2. \A answer : Return(answer).pc = "idle"
    BY DEF Return, Idle
  <2>. QED
    BY <2>1, <2>2, WalkReturn
<1>2. CASE state = "awaiting_approval"
  BY <1>2, WalkReturn DEF Dispatch
<1>3. CASE state = "cancelled"
  BY <1>3, WalkReturn DEF Dispatch
<1>4. CASE state = "running"
  BY <1>0, <1>4 DEF Dispatch
<1>5. CASE state \notin {"completed", "awaiting_approval", "cancelled", "running"}
  BY <1>0, <1>5 DEF Dispatch
<1>. QED
  BY <1>1, <1>2, <1>3, <1>4, <1>5

(* Load keeps FilesInv.  (_load_or_create) *)
LEMMA LoadFiles ==
  ASSUME Solo, NativeInv, FilesInv, NEW p \in Procs, Load(p) PROVE FilesInv'
<1>. DEFINE b == IF run.state = None
                   THEN IF at[p].resume THEN Return("raised") ELSE Goto(p, "create")
                   ELSE IF manifest = "ok" THEN Dispatch(p, run.state)
                                           ELSE Return("raised")
<1>1. /\ at' = [at EXCEPT ![p] = b] /\ run' = run /\ result' = result /\ thr' = thr
      /\ at[p].pc = "load"
  BY DEF Load, Rest, Files
<1>2. at[p] \in Places /\ Walk(at[p], thr[p], result)
  BY Here, WalkHere
<1>3. Walk(Goto(p, "create"), thr[p], result)
  BY <1>1, <1>2, FreeSteps, WalkGoto
<1>4. Walk(Return("raised"), thr[p], result) /\ Return("raised").pc = "idle"
  BY WalkReturn DEF Return, Idle
<1>5. /\ Walk(Dispatch(p, run.state), thr[p], result)
      /\ run.state = "completed" => Dispatch(p, run.state).pc = "idle"
  BY <1>1, <1>2, WalkDispatch
<1>6. Walk(b, thr[p], result)
  BY <1>3, <1>4, <1>5
<1>7. run.state = "completed" => run.state # None
  BY NoneAssumption DEF RunStates
<1>8. run.state = "completed" => b.pc = "idle"
  BY <1>4, <1>5, <1>7
<1>9. Confirmed(run', result')
  BY <1>1, WalkHere
<1>. HIDE DEF b
<1>10. Walk(b, thr'[p], result') /\ (run'.state = "completed" => b.pc \in {"idle", "load"})
  BY <1>1, <1>6, <1>8
<1>. QED
  BY <1>1, <1>9, <1>10, FilesStep

(* Create keeps FilesInv.  (_load_or_create (create)) *)
LEMMA CreateFiles ==
  ASSUME Solo, NativeInv, FilesInv, NEW p \in Procs, Create(p) PROVE FilesInv'
<1>. DEFINE cmd == [type |-> "run_created"]
            key == <<"runtime", "create">>
            b   == [at[p] EXCEPT !.pc = "manifest",
                                 !.st = RunAfter(cmd, key, 0).state]
<1>1. /\ Call(p, cmd, key, b, Return("raised"))
      /\ UNCHANGED Rest /\ at[p].pc = "create"
  BY DEF Create
<1>2. cmd \in Commands /\ Innocent(cmd)
  BY DEF Commands, CommandsWith, CreateCmds, Innocent
<1>3. at[p] \in Places /\ Walk(at[p], thr[p], result)
  BY Here, WalkHere
<1>4. b.pc = "manifest" /\ b.past = at[p].past
  BY <1>3 DEF Places
<1>. HIDE DEF cmd, key, b
<1>5. \A n \in b.past : result[n] = "succeeded"
  BY <1>1, <1>3, <1>4 DEF Walk
<1>6. Walk(b, thr[p], result)
  BY <1>4, <1>5, FreeSteps, WalkFree
<1>7. Walk(Return("raised"), thr[p], result)
  BY WalkReturn
<1>. QED
  BY <1>1, <1>2, <1>6, <1>7, FilesCall

(* OpenManifest keeps FilesInv.  (_write_spec_manifest) *)
LEMMA OpenManifestFiles ==
  ASSUME Solo, NativeInv, FilesInv, NEW p \in Procs, OpenManifest(p)
  PROVE  FilesInv'
<1>1. /\ at[p].pc = "manifest" /\ at' = [at EXCEPT ![p] = Goto(p, "manifest-end")]
      /\ run' = run /\ result' = result
  BY DEF OpenManifest
<1>2. Walk(Goto(p, "manifest-end"), thr'[p], result)
  BY <1>1, Here, WalkHere, FreeSteps, WalkGoto
<1>. QED
  BY <1>1, <1>2, FilesLocal

(* FillManifest keeps FilesInv.  (_write_spec_manifest (write_text)) *)
LEMMA FillManifestFiles ==
  ASSUME Solo, NativeInv, FilesInv, NEW p \in Procs, FillManifest(p)
  PROVE  FilesInv'
<1>1. /\ at[p].pc = "manifest-end"
      /\ at' = [at EXCEPT ![p] = Dispatch(p, at[p].st)]
      /\ run' = run /\ result' = result
  BY DEF FillManifest
<1>2. Walk(Dispatch(p, at[p].st), thr'[p], result)
  BY <1>1, Here, WalkHere, WalkDispatch
<1>. QED
  BY <1>1, <1>2, FilesLocal

(* Start keeps FilesInv.  (execute (start)) *)
LEMMA StartFiles ==
  ASSUME Solo, NativeInv, FilesInv, NEW p \in Procs, Start(p) PROVE FilesInv'
<1>1. /\ Call(p, RunTo("running", "none"), <<"runtime", "start">>,
              Goto(p, "layer"), Return("raised"))
      /\ UNCHANGED Rest /\ at[p].pc = "start"
  BY DEF Start
<1>2. RunTo("running", "none") \in Commands /\ Innocent(RunTo("running", "none"))
  BY NoneReason, RunToType, RunToInnocent
<1>3. Walk(Goto(p, "layer"), thr[p], result)
  BY <1>1, Here, WalkHere, FreeSteps, WalkGoto
<1>4. Walk(Return("raised"), thr[p], result)
  BY WalkReturn
<1>. QED
  BY <1>1, <1>2, <1>3, <1>4, FilesCall

(* EnterLayer keeps FilesInv.  (execute (layer)) *)
LEMMA EnterLayerFiles ==
  ASSUME Solo, NativeInv, FilesInv, NEW p \in Procs, EnterLayer(p) PROVE FilesInv'
<1>. DEFINE b == [at[p] EXCEPT !.pc = "scan", !.cur = StatesOf(run), !.pos = 1,
                               !.ready = <<>>, !.term = None]
            c == Goto(p, "complete")
            a == IF Layer(at[p].past) = {} THEN c ELSE b
<1>1. /\ at[p].pc = "layer" /\ at' = [at EXCEPT ![p] = a]
      /\ run' = run /\ result' = result
  BY DEF EnterLayer, Rest, Files
<1>2. at[p] \in Places /\ Walk(at[p], thr[p], result)
  BY Here, WalkHere
<1>3. \A n \in at[p].past : result[n] = "succeeded"
  BY <1>1, <1>2 DEF Walk
<1>4. /\ b.pc = "scan" /\ b.past = at[p].past /\ b.ready = <<>> /\ b.pos = 1
      /\ c.pc = "complete" /\ c.past = at[p].past
  BY <1>2 DEF Goto, Places
<1>. HIDE DEF b, c
<1>5. Scanned(b, result)
  <2>1. Len(b.ready) = 0
    BY <1>4
  <2>2. \A k \in 1..Len(Order) : ~(k < b.pos)
    BY <1>4, OrderNodes
  <2>. QED
    BY <2>1, <2>2 DEF Scanned, Distinct
<1>6. Walk(b, thr'[p], result)
  <2>1. b.pc \notin Settles \cup Replaying
    BY <1>4 DEF Settles, Replaying
  <2>. QED
    BY <1>3, <1>4, <1>5, <2>1 DEF Walk
<1>7. Layer(at[p].past) = {} => Walk(c, thr'[p], result)
  <2>1. c.pc \notin Settles \cup Scanning /\ c.pc \notin Replaying
    BY <1>4 DEF Settles, Scanning, AtGate, Replaying
  <2>. QED
    BY <1>3, <1>4, <2>1 DEF Walk
<1>8. Walk(a, thr'[p], result)
  BY <1>6, <1>7
<1>. HIDE DEF a
<1>. QED
  BY <1>1, <1>8, FilesLocal

(* An innocent call at one step keeps FilesInv. *)
LEMMA CallAtFiles ==
  ASSUME Solo, NativeInv, FilesInv, NEW p \in Procs,
         NEW step, step \notin {"idle", "load"}, NEW cmd \in Commands,
         Innocent(cmd), NEW key, NEW taken, CallAt(step, p, cmd, key, taken),
         Walk(taken, thr[p], result)
  PROVE  FilesInv'
<1>1. /\ Call(p, cmd, key, taken, Raise(p, Answer(cmd, key)))
      /\ UNCHANGED Rest /\ at[p].pc = step
  BY DEF CallAt
<1>2. Walk(Raise(p, Answer(cmd, key)), thr[p], result)
  BY Here, WalkRaise
<1>. QED
  BY <1>1, <1>2, FilesCall

(* Scan keeps FilesInv.  (execute (per node)) *)
LEMMA ScanFiles ==
  ASSUME Solo, NativeInv, FilesInv, NEW p \in Procs, Scan(p) PROVE FilesInv'
<1>. DEFINE state == at[p].cur[Node(p)]
            file  == result[Node(p)]
            b     == [at[p] EXCEPT !.pc = "replay", !.got = file]
            c(step) == Goto(p, step)
            a     == IF Node(p) \in Layer(at[p].past) THEN ScanStep(p) ELSE NextNode(p)
<1>1. /\ at[p].pc = "scan" /\ at' = [at EXCEPT ![p] = a]
      /\ run' = run /\ result' = result /\ thr' = thr
      /\ at[p].pos <= Len(Order)
  BY DEF Scan, Rest, Files
<1>2. /\ at[p] \in Places /\ PlaceOK(at[p], run) /\ at[p].pc \in Scanning
      /\ Walk(at[p], thr[p], result) /\ Confirmed(run, result)
  BY <1>1, Here, WalkHere DEF Scanning
<1>3. Node(p) \in Nodes
  BY <1>1, <1>2, NodeHere
<1>4. Node(p) \notin Layer(at[p].past) => Walk(NextNode(p), thr[p], result)
  BY <1>2, WalkNext
<1>5. ASSUME state = "succeeded" PROVE Walk(NextNode(p), thr[p], result)
  <2>1. run.nodes[Node(p)].state = "succeeded"
    BY <1>2, <1>3, <1>5 DEF PlaceOK
  <2>2. result[Node(p)] = "succeeded"
    BY <1>2, <1>3, <2>1 DEF Confirmed
  <2>3. Covered(Node(p), at[p], result)
    BY <2>2 DEF Covered
  <2>. QED
    BY <1>2, <2>3, WalkNext
<1>6. Walk(b, thr[p], result)
  <2>1. /\ b.pc = "replay" /\ b.got = file /\ b.past = at[p].past
        /\ b.ready = at[p].ready /\ b.pos = at[p].pos
    BY <1>2 DEF Places
  <2>2. file = result[Order[at[p].pos]]
    BY DEF Node
  <2>. HIDE DEF b, file
  <2>3. b.pc \in Scanning
    BY <2>1 DEF Scanning, Replaying
  <2>. QED
    BY <1>2, <2>1, <2>2, <2>3, WalkAlike
<1>7. ASSUME file = "none", NEW step \in {"begin", "gate"}
      PROVE  Walk(c(step), thr[p], result)
  <2>1. /\ c(step).pc = step /\ c(step).past = at[p].past
        /\ c(step).ready = at[p].ready /\ c(step).pos = at[p].pos
    BY <1>2 DEF Goto, Places
  <2>2. result[Order[at[p].pos]] = "none"
    BY <1>7 DEF Node
  <2>. HIDE DEF c
  <2>3. c(step).pc \in Scanning /\ c(step).pc \notin Replaying
    BY <2>1 DEF Scanning, AtGate, Replaying
  <2>. QED
    BY <1>2, <2>1, <2>2, <2>3, WalkAlike
<1>8. /\ Walk(Raise(p, "torn"), thr[p], result)
      /\ Walk(Raise(p, "deps"), thr[p], result)
      /\ Walk(Return("cancelled"), thr[p], result)
      /\ Walk(Return("interrupted"), thr[p], result)
  BY <1>2, WalkRaise, WalkReturn
<1>9. ScanStep(p) =
        IF state = "succeeded" THEN
          IF file = "torn" THEN Raise(p, "torn") ELSE NextNode(p)
        ELSE IF state = "cancelled" THEN Return("cancelled")
        ELSE IF state = "awaiting_approval" THEN Return("interrupted")
        ELSE IF file = "torn" THEN Raise(p, "torn")
        ELSE IF file # "none" THEN b
        ELSE IF \E d \in Deps[Node(p)] : at[p].cur[d] # "succeeded"
          THEN Raise(p, "deps")
        ELSE c(IF state = "pending" THEN "begin" ELSE "gate")
  BY DEF ScanStep
<1>. HIDE DEF b, file, state, c
<1>10. Walk(ScanStep(p), thr[p], result)
  BY <1>5, <1>6, <1>7, <1>8, <1>9
<1>11. Walk(a, thr'[p], result)
  BY <1>1, <1>4, <1>10
<1>. HIDE DEF a
<1>. QED
  BY <1>1, <1>11, FilesLocal

(* Begin keeps FilesInv.  (execute (start_node)) *)
LEMMA BeginFiles ==
  ASSUME Solo, NativeInv, FilesInv, NEW p \in Procs, Begin(p) PROVE FilesInv'
<1>. DEFINE b == [at[p] EXCEPT !.pc = "gate", !.cur[Node(p)] = "running"]
<1>1. /\ CallAt("begin", p, NodeTo(Node(p), "running", "none"),
                <<Node(p), "start">>, b)
      /\ at[p].pc = "begin"
  BY DEF Begin, CallAt
<1>2. /\ PlaceOK(at[p], run) /\ at[p] \in Places /\ at[p].pc \in AtGate
      /\ Walk(at[p], thr[p], result)
  BY <1>1, Here, WalkHere DEF AtGate
<1>3. Node(p) \in Nodes
  BY <1>2, NodeHere
<1>4. /\ NodeTo(Node(p), "running", "none") \in Commands
      /\ Innocent(NodeTo(Node(p), "running", "none"))
  BY <1>3, NoneReason, NodeToType, NodeToInnocent
<1>5. /\ b.pc = "gate" /\ b.pos = at[p].pos
      /\ b.ready = at[p].ready /\ b.past = at[p].past
  BY <1>2 DEF Places
<1>. HIDE DEF b
<1>6. at[p].pc \in Scanning /\ b.pc \in Scanning /\ b.pc \notin Replaying
  BY <1>1, <1>5 DEF Scanning, AtGate, Replaying
<1>7. result[Order[at[p].pos]] = "none"
  BY <1>1, <1>2 DEF Walk
<1>8. Walk(b, thr[p], result)
  BY <1>2, <1>5, <1>6, <1>7, WalkAlike
<1>. QED
  BY <1>1, <1>4, <1>8, CallAtFiles

(* A node joins the ready ones. *)
LEMMA GateFiles ==
  ASSUME Solo, NativeInv, FilesInv, NEW p \in Procs, Gate(p) PROVE FilesInv'
<1>. DEFINE b == [NextNode(p) EXCEPT !.ready = Append(@, Node(p))]
            c == /\ Node(p) \in NeedApproval
                 /\ at[p].cur[Node(p)] = "running"
                 /\ ~Approved(Node(p))
            d == Goto(p, "ask")
<1>1. /\ at' = [at EXCEPT ![p] = IF c THEN d ELSE b] /\ at[p].pc = "gate"
      /\ run' = run /\ result' = result
  BY DEF Gate, Rest, Files
<1>2. /\ PlaceOK(at[p], run) /\ at[p] \in Places /\ at[p].pc \in AtGate
      /\ Walk(at[p], thr[p], result) /\ at[p].pc \in Scanning
  BY <1>1, Here, WalkHere DEF AtGate, Scanning
<1>3. Node(p) \in Nodes /\ at[p].pos <= Len(Order) /\ Node(p) = Order[at[p].pos]
  BY <1>2, NodeHere DEF Node
<1>4. result[Order[at[p].pos]] = "none"
  BY <1>1, <1>2 DEF Walk
<1>5. Walk(d, thr'[p], result)
  <2>1. /\ d.pc = "ask" /\ d.past = at[p].past
        /\ d.ready = at[p].ready /\ d.pos = at[p].pos
    BY <1>2 DEF Goto, Places
  <2>. HIDE DEF d
  <2>2. d.pc \in Scanning /\ d.pc \notin Replaying
    BY <2>1 DEF Scanning, AtGate, Replaying
  <2>. QED
    BY <1>2, <2>1, <2>2, WalkAlike
<1>. DEFINE s  == at[p].ready
            rd == Append(s, Node(p))
            m  == at[p].pos
<1>6. s \in Seq(Nodes) /\ m \in Nat /\ m # 0 /\ Len(s) \in Nat
  BY <1>2 DEF Places, PlaceOK
<1>7. PICK k \in Nat : k = m + 1
  BY <1>6
<1>8. /\ rd \in Seq(Nodes) /\ Len(rd) = Len(s) + 1
      /\ \A i \in 1..Len(rd) : i <= Len(s) => rd[i] = s[i]
      /\ rd[Len(rd)] = Node(p)
  BY <1>3, <1>6
<1>9. /\ b.pc = "scan" /\ b.past = at[p].past /\ b.ready = rd /\ b.pos = k
  BY <1>2, <1>7 DEF NextNode, Places
<1>10. /\ Scanned(at[p], result)
       /\ \A n \in at[p].past : result[n] = "succeeded"
  BY <1>1, <1>2 DEF Walk
<1>. HIDE DEF b, rd, s, m
<1>11. \A i \in 1..Len(rd) : (i \in 1..Len(s) /\ rd[i] = s[i])
                             \/ (i = Len(rd) /\ rd[i] = Node(p))
  BY <1>6, <1>8
<1>12. m \in 1..Len(Order) /\ m < k /\ \A j \in Nat : j < m => j < k
  BY <1>3, <1>6, <1>7, OrderNodes DEF m
<1>13. \A i \in 1..Len(s) : \E j \in 1..Len(Order) : j < m /\ Order[j] = s[i]
  BY <1>10 DEF Scanned, s, m
<1>14. \A i \in 1..Len(rd) :
         /\ result[rd[i]] = "none"
         /\ \E j \in 1..Len(Order) : j < k /\ Order[j] = rd[i]
  <2>1. TAKE i \in 1..Len(rd)
  <2>2. CASE i \in 1..Len(s) /\ rd[i] = s[i]
    <3>1. result[rd[i]] = "none"
      BY <1>10, <2>2 DEF Scanned, s
    <3>2. PICK j \in 1..Len(Order) : j < m /\ Order[j] = s[i]
      BY <1>13, <2>2
    <3>3. j < k
      BY <1>6, <1>7, <3>2, OrderNodes
    <3>. QED
      BY <2>2, <3>1, <3>2, <3>3
  <2>3. CASE i = Len(rd) /\ rd[i] = Node(p)
    BY <1>3, <1>4, <1>12, <2>3 DEF m
  <2>. QED
    BY <1>11, <2>2, <2>3
<1>15. \A i \in 1..Len(s) : s[i] # Node(p)
  <2>1. TAKE i \in 1..Len(s)
  <2>2. PICK j \in 1..Len(Order) : j < m /\ Order[j] = s[i]
    BY <1>13
  <2>3. j # m
    BY <1>6, <2>2, OrderNodes
  <2>. QED
    BY <1>3, <1>12, <2>2, <2>3, GraphAssumption DEF m
<1>16. Distinct(rd)
  <2>1. SUFFICES ASSUME NEW i \in 1..Len(rd), NEW j \in 1..Len(rd), rd[i] = rd[j]
                 PROVE  i = j
    BY DEF Distinct
  <2>2. CASE i \in 1..Len(s) /\ j \in 1..Len(s) /\ rd[i] = s[i] /\ rd[j] = s[j]
    BY <1>10, <2>1, <2>2 DEF Scanned, Distinct, s
  <2>. QED
    BY <1>11, <1>15, <2>1, <2>2
<1>17. ASSUME NEW n, Covered(n, at[p], result) PROVE Covered(n, b, result)
  <2>1. CASE result[n] = "succeeded"
    BY <2>1 DEF Covered
  <2>2. CASE \E i \in 1..Len(s) : s[i] = n
    <3>1. PICK i \in 1..Len(s) : s[i] = n
      BY <2>2
    <3>2. i \in 1..Len(rd) /\ i <= Len(s)
      BY <1>6, <1>8
    <3>3. rd[i] = n
      BY <1>8, <3>1, <3>2
    <3>. QED
      BY <1>9, <3>2, <3>3 DEF Covered
  <2>. QED
    BY <1>17, <2>1, <2>2 DEF Covered, s
<1>18. Covered(Node(p), b, result)
  <2>1. Len(rd) \in 1..Len(rd)
    BY <1>6, <1>8
  <2>. QED
    BY <1>8, <1>9, <2>1 DEF Covered
<1>19. ASSUME NEW j \in 1..Len(Order), j < k, Order[j] \in Layer(b.past)
       PROVE  Covered(Order[j], b, result)
  <2>1. CASE j < m
    BY <1>9, <1>10, <1>17, <1>19, <2>1 DEF Scanned, m
  <2>2. CASE j = m
    BY <1>3, <1>18, <2>2 DEF m
  <2>3. j < m \/ j = m
    BY <1>6, <1>7, <1>19, OrderNodes
  <2>. QED
    BY <2>1, <2>2, <2>3
<1>20. Scanned(b, result)
  BY <1>9, <1>14, <1>16, <1>19 DEF Scanned
<1>21. Walk(b, thr'[p], result)
  <2>1. b.pc \notin Settles \cup Replaying
    BY <1>9 DEF Settles, Replaying
  <2>. QED
    BY <1>9, <1>10, <1>20, <2>1 DEF Walk
<1>. HIDE DEF c, d
<1>. QED
  BY <1>1, <1>5, <1>21, FilesLocal

(* AskNode keeps FilesInv.  (execute (request_node_approval)) *)
LEMMA AskNodeFiles ==
  ASSUME Solo, NativeInv, FilesInv, NEW p \in Procs, AskNode(p) PROVE FilesInv'
<1>. DEFINE d == Goto(p, "ask-run")
<1>1. /\ CallAt("ask", p, NodeTo(Node(p), "awaiting_approval", Node(p)),
                <<Node(p), "approval-request">>, d)
      /\ at[p].pc = "ask"
  BY DEF AskNode, CallAt
<1>2. /\ PlaceOK(at[p], run) /\ at[p] \in Places /\ at[p].pc \in AtGate
      /\ Walk(at[p], thr[p], result)
  BY <1>1, Here, WalkHere DEF AtGate
<1>3. Node(p) \in Nodes /\ Node(p) \in Reasons
  BY <1>2, NodeHere, StoreAssumption
<1>4. /\ NodeTo(Node(p), "awaiting_approval", Node(p)) \in Commands
      /\ Innocent(NodeTo(Node(p), "awaiting_approval", Node(p)))
  BY <1>3, NodeToType, NodeToInnocent
<1>5. /\ d.pc = "ask-run" /\ d.past = at[p].past
      /\ d.ready = at[p].ready /\ d.pos = at[p].pos
  BY <1>2 DEF Goto, Places
<1>. HIDE DEF d
<1>6. at[p].pc \in Scanning /\ d.pc \in Scanning /\ d.pc \notin Replaying
  BY <1>1, <1>5 DEF Scanning, AtGate, Replaying
<1>7. Walk(d, thr[p], result)
  BY <1>2, <1>5, <1>6, WalkAlike
<1>. QED
  BY <1>1, <1>4, <1>7, CallAtFiles

(* AskRun keeps FilesInv.  (execute (request_approval)) *)
LEMMA AskRunFiles ==
  ASSUME Solo, NativeInv, FilesInv, NEW p \in Procs, AskRun(p) PROVE FilesInv'
<1>1. /\ CallAt("ask-run", p, RunTo("awaiting_approval", Node(p)),
                <<Node(p), "run-approval-request">>, Return("interrupted"))
      /\ at[p].pc = "ask-run"
  BY DEF AskRun, CallAt
<1>2. PlaceOK(at[p], run) /\ at[p].pc \in AtGate
  BY <1>1, Here DEF AtGate
<1>3. Node(p) \in Reasons
  BY <1>2, NodeHere, StoreAssumption
<1>4. /\ RunTo("awaiting_approval", Node(p)) \in Commands
      /\ Innocent(RunTo("awaiting_approval", Node(p)))
  BY <1>3, RunToType, RunToInnocent
<1>. QED
  BY <1>1, <1>4, WalkReturn, CallAtFiles

(* The replay of a result on file. *)
LEMMA ReplayStepsScan == Replaying \subseteq Scanning
  BY DEF Scanning

(* A replay keeps what is known of the file from step to step, *)
LEMMA WalkReplayGoto ==
  ASSUME NEW p, at[p] \in Places, NEW th, Walk(at[p], th, result),
         at[p].pc \in Replaying, NEW step \in Replaying
  PROVE  Walk(Goto(p, step), th, result)
<1>. DEFINE b == Goto(p, step)
<1>1. /\ b.pc = step /\ b.past = at[p].past /\ b.ready = at[p].ready
      /\ b.pos = at[p].pos /\ b.got = at[p].got
  BY DEF Goto, Places
<1>. HIDE DEF b
<1>2. at[p].pc \in Scanning /\ b.pc \in Scanning
  BY <1>1, ReplayStepsScan
<1>3. result[Order[at[p].pos]] = b.got
  BY <1>1 DEF Walk
<1>4. b.pc \notin {"begin", "gate", "work"}
  BY <1>1 DEF Replaying
<1>5. Walk(b, th, result)
  BY <1>1, <1>2, <1>3, <1>4, WalkAlike
<1>. QED
  BY <1>5 DEF b

(* to its end, *)
LEMMA WalkReplayed ==
  ASSUME NEW p, at[p] \in Places, NEW th, Walk(at[p], th, result),
         at[p].pc \in Replaying
  PROVE  Walk(Replayed(p), th, result)
<1>. DEFINE b == [at[p] EXCEPT !.pc = "sweep", !.term = Node(p)]
<1>1. at[p].pc \in Scanning /\ result[Node(p)] = at[p].got
  BY ReplayStepsScan DEF Walk, Node
<1>2. ASSUME at[p].got = "succeeded" PROVE Walk(NextNode(p), th, result)
  <2>1. Covered(Node(p), at[p], result)
    BY <1>1, <1>2 DEF Covered
  <2>. QED
    BY <1>1, <2>1, WalkNext
<1>3. b.pc = "sweep" /\ b.past = at[p].past
  BY DEF Places
<1>4. \A n \in at[p].past : result[n] = "succeeded"
  BY DEF Walk, Replaying
<1>5. Replayed(p) = IF at[p].got = "succeeded" THEN NextNode(p)
                    ELSE IF at[p].got = "skipped" THEN b ELSE Return("failed")
  <2>1. CASE at[p].got = "succeeded"
    BY <2>1 DEF Replayed
  <2>2. CASE at[p].got = "skipped"
    BY <2>2 DEF Replayed
  <2>3. CASE at[p].got \notin {"succeeded", "skipped"}
    BY <2>3 DEF Replayed
  <2>. QED
    BY <2>1, <2>2, <2>3
<1>. HIDE DEF b
<1>6. Walk(b, th, result)
  BY <1>3, <1>4, FreeSteps, WalkFree
<1>. QED
  BY <1>2, <1>5, <1>6, WalkReturn

(* also when a transition is refused. *)
LEMMA WalkSwallow ==
  ASSUME NEW p, at[p] \in Places, NEW th, Walk(at[p], th, result),
         at[p].pc \in Replaying, NEW cmd, NEW key
  PROVE  Walk(Swallow(p, cmd, key), th, result)
  BY WalkReplayed, WalkRaise DEF Swallow

(* During a replay the file in hand is the node's file. *)
LEMMA ReplayPlace ==
  ASSUME NativeInv, FilesInv, NEW p \in Procs, at[p].pc \in Replaying
  PROVE  /\ at[p] \in Places /\ Walk(at[p], thr[p], result)
         /\ at[p].pc \notin {"idle", "load"}
         /\ Node(p) \in Nodes /\ Node(p) \in Reasons /\ at[p].got \in Written
         /\ result[Node(p)] = at[p].got
<1>1. Walk(at[p], thr[p], result)
  BY WalkHere
<1>. QED
  BY <1>1, ReplayHere DEF Replaying, Walk, Node

(* ReplayLoad keeps FilesInv.  (_apply_persisted_result (load)) *)
LEMMA ReplayLoadFiles ==
  ASSUME Solo, NativeInv, FilesInv, NEW p \in Procs, ReplayLoad(p) PROVE FilesInv'
<1>. DEFINE b == [at[p] EXCEPT !.pc = "replay-lease", !.st = run.state,
                               !.cur[Node(p)] = run.nodes[Node(p)].state]
<1>1. /\ at' = [at EXCEPT ![p] = b] /\ run' = run /\ result' = result /\ thr' = thr
      /\ at[p].pc \in Replaying
  BY DEF ReplayLoad, Replaying, Rest, Files
<1>2. /\ at[p] \in Places /\ Walk(at[p], thr[p], result) /\ at[p].pc \in Scanning
      /\ at[p].pc \notin {"idle", "load"}
  BY <1>1, ReplayPlace, ReplayStepsScan
<1>3. /\ b.pc = "replay-lease" /\ b.got = at[p].got /\ b.past = at[p].past
      /\ b.pos = at[p].pos /\ b.ready = at[p].ready
  BY <1>2 DEF Places
<1>. HIDE DEF b
<1>4. b.pc \in Scanning /\ result[Order[at[p].pos]] = b.got
  BY <1>1, <1>2, <1>3 DEF Walk, Scanning, Replaying
<1>5. Walk(b, thr'[p], result)
  BY <1>2, <1>3, <1>4, WalkAlike
<1>. QED
  BY <1>1, <1>2, <1>5, FilesLocal

(* ReplayLease keeps FilesInv.  (_release_active_lease) *)
LEMMA ReplayLeaseFiles ==
  ASSUME Solo, NativeInv, FilesInv, NEW p \in Procs, ReplayLease(p) PROVE FilesInv'
<1>. DEFINE lease == run.nodes[Node(p)].lease
            cmd   == [type |-> "lease_released", node |-> Node(p),
                      token |-> lease.token]
            key   == <<Node(p), "release-replay">>
            next  == Goto(p, IF at[p].st = "running" THEN "replay-start"
                                                     ELSE "replay-resume")
            other == IF Answer(cmd, key) = "refused" THEN next
                                                     ELSE Raise(p, "conflict")
<1>1. /\ at[p].pc \in Replaying /\ UNCHANGED Rest
      /\ lease = None => at' = [at EXCEPT ![p] = next] /\ run' = run
      /\ lease # None => Call(p, cmd, key, next, other)
  BY DEF ReplayLease, Replaying
<1>2. /\ at[p] \in Places /\ Walk(at[p], thr[p], result) /\ Node(p) \in Nodes
      /\ at[p].pc \notin {"idle", "load"}
  BY <1>1, ReplayPlace
<1>3. {"replay-start", "replay-resume"} \subseteq Replaying
  BY DEF Replaying
<1>4. Walk(next, thr[p], result) /\ Walk(Raise(p, "conflict"), thr[p], result)
  BY <1>1, <1>2, <1>3, WalkReplayGoto, WalkRaise
<1>5. CASE lease = None
  <2>1. result' = result /\ thr' = thr
    BY <1>1 DEF Rest, Files
  <2>2. Walk(next, thr'[p], result)
    BY <1>4, <2>1
  <2>. HIDE DEF next
  <2>. QED
    BY <1>1, <1>2, <1>5, <2>1, <2>2, FilesLocal
<1>6. CASE lease # None
  <2>1. lease.token \in Nat
    BY <1>2, <1>6, Here DEF Snapshots, NodeSnapshots, Leases
  <2>2. cmd \in Commands
    BY <1>2, <2>1, OtherCmdTypes
  <2>3. Innocent(cmd)
    BY DEF Innocent
  <2>4. Call(p, cmd, key, next, other)
    BY <1>1, <1>6
  <2>. HIDE DEF cmd, key, next, lease
  <2>5. Walk(other, thr[p], result)
    BY <1>4
  <2>. HIDE DEF other
  <2>. QED
    BY <1>1, <1>2, <1>4, <2>2, <2>3, <2>4, <2>5, FilesCall
<1>. QED
  BY <1>5, <1>6

(* ReplayResume keeps FilesInv.  (_apply_persisted_result (resume)) *)
LEMMA ReplayResumeFiles ==
  ASSUME Solo, NativeInv, FilesInv, NEW p \in Procs, ReplayResume(p)
  PROVE  FilesInv'
<1>. DEFINE cmd == RunTo("running", "none")
            key == <<"runtime", "resume">>
<1>1. /\ at[p].pc \in Replaying /\ UNCHANGED Rest
      /\ Call(p, cmd, key, Goto(p, "replay-start"), Swallow(p, cmd, key))
  BY DEF ReplayResume, Replaying
<1>2. /\ at[p] \in Places /\ Walk(at[p], thr[p], result)
      /\ at[p].pc \notin {"idle", "load"}
  BY <1>1, ReplayPlace
<1>3. cmd \in Commands /\ Innocent(cmd)
  BY NoneReason, RunToType, RunToInnocent
<1>. HIDE DEF cmd, key
<1>4. /\ Walk(Goto(p, "replay-start"), thr[p], result)
      /\ Walk(Swallow(p, cmd, key), thr[p], result)
  BY <1>1, <1>2, WalkReplayGoto, WalkSwallow DEF Replaying
<1>. QED
  BY <1>1, <1>2, <1>3, <1>4, FilesCall

(* ReplayStart keeps FilesInv.  (_apply_persisted_result (start_node,      *)
(* resume_node))                                                           *)
LEMMA ReplayStartFiles ==
  ASSUME Solo, NativeInv, FilesInv, NEW p \in Procs, ReplayStart(p)
  PROVE  FilesInv'
<1>. DEFINE cmd == NodeTo(Node(p), "running", "none")
            key == <<Node(p), IF at[p].cur[Node(p)] = "pending"
                                THEN "start" ELSE "resume">>
            next == Goto(p, "replay-apply")
<1>1. /\ at[p].pc \in Replaying /\ UNCHANGED Rest
      /\ \/ at' = [at EXCEPT ![p] = next] /\ run' = run
         \/ Call(p, cmd, key, next, Swallow(p, cmd, key))
  BY DEF ReplayStart, Replaying
<1>2. /\ at[p] \in Places /\ Walk(at[p], thr[p], result) /\ Node(p) \in Nodes
      /\ at[p].pc \notin {"idle", "load"}
  BY <1>1, ReplayPlace
<1>3. cmd \in Commands /\ Innocent(cmd)
  BY <1>2, NoneReason, NodeToType, NodeToInnocent
<1>4. Walk(next, thr[p], result)
  BY <1>1, <1>2, WalkReplayGoto DEF Replaying
<1>5. result' = result /\ thr' = thr
  BY <1>1 DEF Rest, Files
<1>. HIDE DEF cmd, key, next
<1>6. Walk(Swallow(p, cmd, key), thr[p], result)
  BY <1>1, <1>2, WalkSwallow
<1>7. CASE at' = [at EXCEPT ![p] = next] /\ run' = run
  <2>1. Walk(next, thr'[p], result)
    BY <1>4, <1>5
  <2>. QED
    BY <1>2, <1>5, <1>7, <2>1, FilesLocal
<1>8. CASE Call(p, cmd, key, next, Swallow(p, cmd, key))
  BY <1>1, <1>2, <1>3, <1>4, <1>6, <1>8, FilesCall
<1>. QED
  BY <1>1, <1>7, <1>8

(* A result is recorded when its file says the same. *)
LEMMA FilesRecording ==
  ASSUME Solo, NativeInv, FilesInv, NEW p \in Procs,
         at[p].pc \notin {"idle", "load"}, NEW n \in Nodes,
         NEW status \in Written, result[n] = status,
         NEW key, NEW taken, NEW refused,
         Call(p, Recording(n, status), key, taken, refused), UNCHANGED Rest,
         Walk(taken, thr[p], result), Walk(refused, thr[p], result)
  PROVE  FilesInv'
<1>. DEFINE cmd == Recording(n, status)
            a   == IF Taken(cmd, key) THEN taken ELSE refused
<1>1. /\ run' = RunAfter(cmd, key, 0) /\ at' = [at EXCEPT ![p] = a]
      /\ result' = result /\ thr' = thr
  BY DEF Call, Rest, Files
<1>2. run \in Snapshots /\ cmd \in Commands
  BY RecordingType DEF NativeInv, RunOK
<1>3. /\ cmd.type = "node_transition" /\ cmd.node = n
      /\ cmd.to = "succeeded" => status = "succeeded"
  <2>1. CASE status = "succeeded"
    BY <2>1 DEF Recording, NodeTo
  <2>2. CASE status = "skipped"
    BY <2>2 DEF Recording, NodeTo
  <2>3. CASE status = "failed"
    BY <2>3 DEF Recording, NodeTo
  <2>. QED
    BY <2>1, <2>2, <2>3 DEF Written
<1>. HIDE DEF cmd
<1>4. /\ \A m \in Nodes : run'.nodes[m].state = "succeeded" =>
           run.nodes[m].state = "succeeded" \/ (m = n /\ status = "succeeded")
      /\ run'.state = "completed" => run.state = "completed"
  BY <1>1, <1>2, <1>3, CallEffect
<1>5. run.state # "completed" /\ Confirmed(run, result)
  BY DEF FilesInv
<1>6. Confirmed(run', result') /\ run'.state # "completed"
  BY <1>1, <1>4, <1>5 DEF Confirmed
<1>7. Walk(a, thr'[p], result')
  BY <1>1
<1>. HIDE DEF a
<1>. QED
  BY <1>1, <1>6, <1>7, FilesStep

(* ReplayApply keeps FilesInv.  (_apply_persisted_result (record)) *)
LEMMA ReplayApplyFiles ==
  ASSUME Solo, NativeInv, FilesInv, NEW p \in Procs, ReplayApply(p)
  PROVE  FilesInv'
<1>. DEFINE status == at[p].got
            cmd    == Recording(Node(p), status)
            key    == RecordKey(Node(p), status)
            next   == IF status = "failed" THEN Goto(p, "replay-fail")
                                           ELSE Replayed(p)
            other  == Swallow(p, cmd, key)
<1>1. /\ at[p].pc \in Replaying /\ UNCHANGED Rest
      /\ Call(p, Recording(Node(p), status), key, next, other)
  BY DEF ReplayApply, Replaying
<1>2. /\ at[p] \in Places /\ Walk(at[p], thr[p], result) /\ Node(p) \in Nodes
      /\ at[p].pc \notin {"idle", "load"} /\ status \in Written
      /\ result[Node(p)] = status
  BY <1>1, ReplayPlace
<1>3. /\ Walk(Goto(p, "replay-fail"), thr[p], result)
      /\ Walk(Replayed(p), thr[p], result)
      /\ Walk(other, thr[p], result)
  BY <1>1, <1>2, WalkReplayGoto, WalkReplayed, WalkSwallow DEF Replaying
<1>4. Walk(next, thr[p], result)
  BY <1>3
<1>. HIDE DEF next, other, key, status, cmd
<1>. QED
  BY <1>1, <1>2, <1>3, <1>4, FilesRecording

(* ReplayFail keeps FilesInv.  (_apply_persisted_result (fail)) *)
LEMMA ReplayFailFiles ==
  ASSUME Solo, NativeInv, FilesInv, NEW p \in Procs, ReplayFail(p) PROVE FilesInv'
<1>. DEFINE cmd == RunTo("failed", Node(p))
            key == <<"runtime", "fail">>
<1>1. /\ at[p].pc \in Replaying /\ UNCHANGED Rest
      /\ Call(p, cmd, key, Return("failed"), Swallow(p, cmd, key))
  BY DEF ReplayFail, Replaying
<1>2. /\ at[p] \in Places /\ Walk(at[p], thr[p], result)
      /\ at[p].pc \notin {"idle", "load"} /\ Node(p) \in Reasons
  BY <1>1, ReplayPlace
<1>3. cmd \in Commands /\ Innocent(cmd)
  BY <1>2, RunToType, RunToInnocent
<1>. HIDE DEF cmd, key
<1>4. Walk(Swallow(p, cmd, key), thr[p], result)
  BY <1>1, <1>2, WalkSwallow
<1>. QED
  BY <1>1, <1>2, <1>3, <1>4, WalkReturn, FilesCall

(* The threads of a layer touch no file. *)
LEMMA WorkFiles ==
  ASSUME Solo, NativeInv, FilesInv, NEW p \in Procs, at[p].pc = "work",
         at' = at, result' = result,
         \/ run' = run
         \/ \E cmd \in Commands : \E key, token :
              Innocent(cmd) /\ run' = RunAfter(cmd, key, token)
  PROVE  FilesInv'
<1>1. at' = [at EXCEPT ![p] = at[p]]
  BY DEF NativeInv, Globals
<1>2. Walk(at[p], thr[p], result) /\ Confirmed(run, result)
  BY WalkHere
<1>3. at[p].pc \in Scanning /\ at[p].pc \notin Replaying
  BY DEF Scanning, AtGate, Replaying
<1>4. Walk(at[p], thr'[p], result')
  <2>1. at[p].pos > Len(Order)
    BY <1>2 DEF Walk
  <2>. QED
    BY <1>2, <1>3, <2>1, WalkAlike
<1>5. run \in Snapshots
  BY Here
<1>6. /\ \A n \in Nodes : run'.nodes[n].state = "succeeded" =>
                            run.nodes[n].state = "succeeded"
      /\ run'.state = "completed" => run.state = "completed"
  BY <1>5, CallEffect DEF Innocent
<1>7. run.state # "completed"
  BY DEF FilesInv
<1>8. Confirmed(run', result') /\ run'.state # "completed"
  BY <1>2, <1>6, <1>7 DEF Confirmed
<1>. QED
  BY <1>1, <1>4, <1>8, FilesStep

(* The threads write no files and record no result. *)
LEMMA ThreadStepFiles ==
  ASSUME Solo, NativeInv, FilesInv, NEW p \in Procs, NEW n \in Nodes,
         ThreadStep(p, n)
  PROVE  FilesInv'
<1>1. CASE LeaseLook(p, n)
  BY <1>1, WorkFiles DEF LeaseLook, Turn, Files
<1>2. CASE \E outcome \in Outcomes : HandlerEnds(p, n, outcome)
  BY <1>2, WorkFiles DEF HandlerEnds, Turn, Files
<1>3. CASE \E retryable \in BOOLEAN : Decide(p, n, retryable)
  BY <1>3, WorkFiles DEF Decide, Turn, Files
<1>4. CASE LeaseTake(p, n)
  <2>. DEFINE cmd == [type |-> "lease_acquired", node |-> n, owner |-> "native",
                      ttl |-> LeaseTtl]
              k   == thr[p][n].num
  <2>1. /\ at[p].pc = "work" /\ at' = at /\ result' = result
        /\ run' = RunAfter(cmd, <<n, "lease", k>>, k)
    BY <1>4 DEF LeaseTake, Turn, Files
  <2>2. cmd \in Commands /\ Innocent(cmd)
    BY OtherCmdTypes DEF Innocent
  <2>. HIDE DEF cmd
  <2>. QED
    BY <2>1, <2>2, WorkFiles
<1>5. CASE Retry(p, n)
  <2>. DEFINE cmd == [type |-> "retry_recorded", node |-> n, class |-> "transient"]
  <2>1. /\ at[p].pc = "work" /\ at' = at /\ result' = result
        /\ run' = RunAfter(cmd, <<n, "retry", thr[p][n].try>>, 0)
    BY <1>5 DEF Retry, Turn, Files
  <2>2. cmd \in Commands /\ Innocent(cmd)
    BY OtherCmdTypes DEF Innocent
  <2>. HIDE DEF cmd
  <2>. QED
    BY <2>1, <2>2, WorkFiles
<1>6. CASE Release(p, n)
  <2>. DEFINE k   == thr[p][n].num
              cmd == [type |-> "lease_released", node |-> n, token |-> k]
  <2>1. /\ at[p].pc = "work" /\ at' = at /\ result' = result
        /\ run' = RunAfter(cmd, <<n, "release", k>>, 0)
    BY <1>6 DEF Release, Turn, Files
  <2>2. k \in Nat
    BY Here DEF Threads
  <2>3. cmd \in Commands /\ Innocent(cmd)
    BY <2>2, OtherCmdTypes DEF Innocent
  <2>. HIDE DEF cmd
  <2>. QED
    BY <2>1, <2>3, WorkFiles
<1>. QED
  BY <1>1, <1>2, <1>3, <1>4, <1>5, <1>6 DEF ThreadStep

(* StartWork keeps FilesInv.  (_run_ready_nodes) *)
LEMMA StartWorkFiles ==
  ASSUME Solo, NativeInv, FilesInv, NEW p \in Procs, StartWork(p) PROVE FilesInv'
<1>. DEFINE b == Goto(p, "work")
<1>1. /\ at[p].pc = "scan" /\ at[p].pos > Len(Order)
      /\ at' = [at EXCEPT ![p] = b] /\ run' = run /\ result' = result
  BY DEF StartWork, Files
<1>2. at[p] \in Places /\ Walk(at[p], thr[p], result)
  BY Here, WalkHere
<1>3. /\ b.pc = "work" /\ b.past = at[p].past /\ b.ready = at[p].ready
      /\ b.pos = at[p].pos
  BY <1>2 DEF Goto, Places
<1>. HIDE DEF b
<1>4. at[p].pc \in Scanning /\ b.pc \in Scanning /\ b.pc \notin Replaying
  BY <1>1, <1>3 DEF Scanning, AtGate, Replaying
<1>5. Walk(b, thr'[p], result)
  BY <1>1, <1>2, <1>3, <1>4, WalkAlike
<1>. QED
  BY <1>1, <1>5, FilesLocal

(* Join keeps FilesInv.  (_run_ready_nodes (futures)) *)
LEMMA JoinFiles ==
  ASSUME Solo, NativeInv, FilesInv, NEW p \in Procs, Join(p) PROVE FilesInv'
<1>. DEFINE b == [at[p] EXCEPT !.pc = "write", !.pos = 1]
<1>1. /\ at[p].pc = "work" /\ Ended(p) /\ run' = run /\ result' = result /\ thr' = thr
  BY DEF Join, Rest, Files
<1>2. at[p] \in Places /\ Walk(at[p], thr[p], result) /\ at[p].pos \in Nat
  BY Here, WalkHere DEF Places
<1>3. Len(at[p].ready) \in Nat
  BY <1>2, ReadyNodes
<1>4. CASE \E i \in Raising(p) : at' = [at EXCEPT ![p] = Raise(p, ResultAt(p, i))]
  BY <1>1, <1>2, <1>4, WalkRaise, FilesLocal
<1>5. CASE at' = [at EXCEPT ![p] = b]
  <2>1. /\ b.pc = "write" /\ b.past = at[p].past /\ b.ready = at[p].ready /\ b.pos = 1
    BY <1>2 DEF Places
  <2>. HIDE DEF b
  <2>2. /\ Scanned(at[p], result) /\ at[p].pos > Len(Order)
        /\ \A n \in at[p].past : result[n] = "succeeded"
    BY <1>1, <1>2 DEF Walk, Scanning
  <2>3. ASSUME NEW n \in Layer(at[p].past) PROVE Covered(n, b, result)
    <3>1. n \in Nodes
      BY DEF Layer
    <3>2. PICK k \in 1..Len(Order) : Order[k] = n
      BY <3>1, GraphAssumption
    <3>3. k < at[p].pos
      BY <1>2, <2>2, OrderNodes
    <3>. QED
      BY <2>1, <2>2, <3>2, <3>3 DEF Scanned, Covered
  <2>4. ASSUME NEW i \in 1..Len(at[p].ready), thr[p][at[p].ready[i]].pc # "done"
        PROVE  \E j \in 1..Len(at[p].ready) :
                 /\ j < i /\ thr[p][at[p].ready[j]].pc = "done"
                 /\ thr[p][at[p].ready[j]].res # "succeeded"
    <3>1. PICK j \in 1..(i - 1) : Finished(p, j) /\ ResultAt(p, j) # "succeeded"
      BY <1>1, <2>4 DEF Ended, Finished
    <3>2. j \in 1..Len(at[p].ready) /\ j < i
      BY <1>3
    <3>. QED
      BY <3>1, <3>2 DEF Finished, ResultAt
  <2>5. \A i \in 1..Len(at[p].ready) : ~(i < 1)
    BY <1>3
  <2>6. \A i \in 1..Len(at[p].ready) : result[at[p].ready[i]] = "none"
    BY <2>2 DEF Scanned
  <2>7. Distinct(b.ready)
    BY <2>1, <2>2 DEF Scanned
  <2>8. Collected(b, thr[p], result)
    BY <2>1, <2>3, <2>4, <2>5, <2>6, <2>7 DEF Collected
  <2>9. b.pc \notin Scanning /\ b.pc \notin Replaying
    BY <2>1 DEF Scanning, AtGate, Replaying
  <2>10. Walk(b, thr'[p], result)
    BY <1>1, <2>1, <2>2, <2>8, <2>9 DEF Walk
  <2>. QED
    BY <1>1, <1>5, <2>10, FilesLocal
<1>. QED
  BY <1>4, <1>5 DEF Join

(* One result file is written: it was empty, and no other changes. *)
LEMMA WriteFiles ==
  ASSUME Solo, NativeInv, FilesInv, NEW p \in Procs, at[p].pc \in Settles,
         at[p].pc # "write" \/ Unsettled(p), result[Settling(p)] # "succeeded",
         NEW v, result' = [result EXCEPT ![Settling(p)] = v],
         NEW step \in {"write-end", "record"}, at' = [at EXCEPT ![p] = Goto(p, step)],
         step = "write-end" => v = "torn",
         step = "record" => v = ResultAt(p, at[p].pos),
         run' = run, thr' = thr
  PROVE  FilesInv'
<1>. DEFINE b == Goto(p, step)
            m == Settling(p)
<1>1. /\ at[p] \in Places /\ Walk(at[p], thr[p], result) /\ Confirmed(run, result)
      /\ at[p].pos \in 1..Len(at[p].ready) /\ m \in Nodes
  BY SettleHere, WalkHere
<1>2. /\ Len(at[p].ready) \in Nat
      /\ \A i \in 1..Len(at[p].ready) : at[p].ready[i] \in Nodes
  BY <1>1, ReadyNodes
<1>3. /\ b.pc = step /\ b.past = at[p].past /\ b.ready = at[p].ready
      /\ b.pos = at[p].pos /\ b.term = at[p].term
  BY <1>1 DEF Goto, Places
<1>4. result \in [Nodes -> {"none", "torn"} \cup Written]
  BY DEF NativeInv, Globals
<1>5. /\ Collected(at[p], thr[p], result)
      /\ \A n \in at[p].past : result[n] = "succeeded"
  BY <1>1 DEF Walk, Settles
<1>. HIDE DEF b
<1>6. result'[m] = v /\ \A n \in Nodes : n # m => result'[n] = result[n]
  BY <1>1, <1>4
<1>7. \A n \in Nodes : result[n] = "succeeded" => result'[n] = "succeeded"
  BY <1>6
<1>8. Confirmed(run', result')
  BY <1>1, <1>7 DEF Confirmed
<1>9. at[p].past \subseteq Nodes /\ Layer(at[p].past) \subseteq Nodes
  BY <1>1 DEF Places, Layer
<1>10. \A n \in b.past : result'[n] = "succeeded"
  BY <1>3, <1>5, <1>7, <1>9
<1>11. \A n \in Layer(b.past) : Covered(n, b, result')
  BY <1>3, <1>5, <1>7, <1>9 DEF Collected, Covered
<1>12. \A i \in 1..Len(at[p].ready) : i # at[p].pos =>
         result'[at[p].ready[i]] = result[at[p].ready[i]]
  <2>1. TAKE i \in 1..Len(at[p].ready)
  <2>2. HAVE i # at[p].pos
  <2>3. at[p].ready[i] # m
    BY <1>1, <1>5, <2>2 DEF Collected, Distinct, Settling
  <2>. QED
    BY <1>2, <1>6, <2>3
<1>13. result'[at[p].ready[at[p].pos]] = v
  BY <1>6 DEF Settling
<1>14. ASSUME NEW i \in 1..Len(at[p].ready)
       PROVE  /\ i < b.pos =>
                   IF thr[p][at[p].ready[i]].res = "succeeded"
                     THEN result'[at[p].ready[i]] = "succeeded" ELSE b.term # None
              /\ i > b.pos => result'[at[p].ready[i]] = "none"
  <2>1. i < b.pos \/ i > b.pos => i # at[p].pos
    BY <1>1, <1>2, <1>3
  <2>. QED
    BY SMTT(40), <1>3, <1>5, <1>12, <2>1 DEF Collected
<1>15. Collected(b, thr[p], result')
  <2>1. /\ b.pc = "write-end" => result'[at[p].ready[at[p].pos]] = "torn"
        /\ b.pc = "record" =>
             result'[at[p].ready[at[p].pos]] = thr[p][at[p].ready[at[p].pos]].res
        /\ b.pc # "write"
    BY <1>3, <1>13 DEF ResultAt
  <2>a. /\ Distinct(at[p].ready)
        /\ \A i \in 1..Len(at[p].ready) : thr[p][at[p].ready[i]].pc # "done" =>
             \E j \in 1..Len(at[p].ready) :
               /\ j < i /\ thr[p][at[p].ready[j]].pc = "done"
               /\ thr[p][at[p].ready[j]].res # "succeeded"
    BY <1>5 DEF Collected
  <2>2. /\ Distinct(b.ready)
        /\ \A i \in 1..Len(b.ready) : thr[p][b.ready[i]].pc # "done" =>
             \E j \in 1..Len(b.ready) : /\ j < i /\ thr[p][b.ready[j]].pc = "done"
                                        /\ thr[p][b.ready[j]].res # "succeeded"
    BY SMTT(40), <1>3, <2>a
  <2>3. \A i \in 1..Len(b.ready) :
          /\ i < b.pos =>
               IF thr[p][b.ready[i]].res = "succeeded"
                 THEN result'[b.ready[i]] = "succeeded" ELSE b.term # None
          /\ i > b.pos => result'[b.ready[i]] = "none"
    BY <1>3, <1>14
  <2>. QED
    BY <1>3, <1>11, <2>1, <2>2, <2>3 DEF Collected
<1>16. b.pc \notin Scanning /\ b.pc \notin Replaying
  BY <1>3 DEF Scanning, AtGate, Replaying
<1>17. Walk(b, thr'[p], result')
  BY <1>3, <1>10, <1>15, <1>16 DEF Walk
<1>18. run'.state # "completed"
  BY DEF FilesInv, Settles
<1>19. at' = [at EXCEPT ![p] = b]
  BY DEF b
<1>. QED
  BY <1>8, <1>17, <1>18, <1>19, FilesStep

(* OpenResult keeps FilesInv.  (_write_result) *)
LEMMA OpenResultFiles ==
  ASSUME Solo, NativeInv, FilesInv, NEW p \in Procs, OpenResult(p) PROVE FilesInv'
<1>1. /\ at[p].pc = "write" /\ at[p].pc \in Settles /\ Unsettled(p)
      /\ result' = [result EXCEPT ![Settling(p)] = "torn"]
      /\ at' = [at EXCEPT ![p] = Goto(p, "write-end")] /\ run' = run /\ thr' = thr
  BY DEF OpenResult, Settles
<1>2. at[p].pos \in 1..Len(at[p].ready) /\ Walk(at[p], thr[p], result)
  BY <1>1, SettleHere, WalkHere
<1>3. result[Settling(p)] = "none"
  BY <1>1, <1>2 DEF Walk, Collected, Settling
<1>. QED
  BY <1>1, <1>3, WriteFiles

(* FillResult keeps FilesInv.  (_write_result (write_text)) *)
LEMMA FillResultFiles ==
  ASSUME Solo, NativeInv, FilesInv, NEW p \in Procs, FillResult(p) PROVE FilesInv'
<1>1. /\ at[p].pc = "write-end" /\ at[p].pc \in Settles
      /\ result' = [result EXCEPT ![Settling(p)] = ResultAt(p, at[p].pos)]
      /\ at' = [at EXCEPT ![p] = Goto(p, "record")] /\ run' = run /\ thr' = thr
  BY DEF FillResult, Settles
<1>2. at[p].pos \in 1..Len(at[p].ready) /\ Walk(at[p], thr[p], result)
  BY <1>1, SettleHere, WalkHere
<1>3. result[Settling(p)] = "torn"
  BY <1>1, <1>2 DEF Walk, Collected, Settling
<1>. QED
  BY <1>1, <1>3, WriteFiles

(* Record keeps FilesInv.  (execute (record the result)) *)
LEMMA RecordFiles ==
  ASSUME Solo, NativeInv, FilesInv, NEW p \in Procs, Record(p) PROVE FilesInv'
<1>. DEFINE n      == Settling(p)
            status == ResultAt(p, at[p].pos)
            ends   == status = "failed" \/ (status = "skipped" /\ at[p].term = None)
            b      == [at[p] EXCEPT !.pc = "write", !.pos = @ + 1,
                                    !.term = IF ends THEN n ELSE @]
            key    == RecordKey(n, status)
<1>1. /\ Call(p, Recording(n, status), key, b, Raise(p, Answer(Recording(n, status), key)))
      /\ UNCHANGED Rest /\ at[p].pc = "record" /\ at[p].pc \in Settles
  BY DEF Record, CallAt, Settles
<1>2. /\ at[p] \in Places /\ Walk(at[p], thr[p], result)
      /\ at[p].pos \in 1..Len(at[p].ready) /\ n \in Nodes /\ status \in Written
  BY <1>1, SettleHere, WalkHere
<1>3. Len(at[p].ready) \in Nat
  BY <1>2, ReadyNodes
<1>4. PICK k \in Nat : k = at[p].pos + 1
  BY <1>2
<1>5. /\ b.pc = "write" /\ b.past = at[p].past /\ b.ready = at[p].ready
      /\ b.pos = k /\ b.term = IF ends THEN n ELSE at[p].term
  BY <1>2, <1>4 DEF Places
<1>6. /\ Collected(at[p], thr[p], result)
      /\ \A m \in at[p].past : result[m] = "succeeded"
  BY <1>1, <1>2 DEF Walk
<1>7. /\ result[n] = status /\ status = thr[p][at[p].ready[at[p].pos]].res
      /\ n = at[p].ready[at[p].pos]
  BY <1>1, <1>2, <1>6 DEF Collected, Settling, ResultAt
<1>8. /\ status # "succeeded" => b.term # None
      /\ at[p].term # None => b.term # None
  BY <1>2, <1>5, StoreAssumption DEF Written
<1>. HIDE DEF b, n, status, ends
<1>9. ASSUME NEW i \in 1..Len(at[p].ready), i < k
      PROVE  IF thr[p][at[p].ready[i]].res = "succeeded"
               THEN result[at[p].ready[i]] = "succeeded" ELSE b.term # None
  <2>1. CASE i < at[p].pos
    BY <1>6, <1>8, <2>1 DEF Collected
  <2>2. CASE i = at[p].pos
    BY <1>7, <1>8, <2>2
  <2>3. i < at[p].pos \/ i = at[p].pos
    BY <1>2, <1>3, <1>4, <1>9
  <2>. QED
    BY <2>1, <2>2, <2>3
<1>10. \A i \in 1..Len(at[p].ready) :
         i > k \/ i = k => result[at[p].ready[i]] = "none"
  <2>1. \A i \in 1..Len(at[p].ready) : i > k \/ i = k => i > at[p].pos
    BY <1>2, <1>3, <1>4
  <2>. QED
    BY <1>6, <2>1 DEF Collected
<1>11. Collected(b, thr[p], result)
  <2>1. \A m \in Layer(b.past) : Covered(m, b, result)
    BY <1>5, <1>6 DEF Collected, Covered
  <2>2. /\ Distinct(b.ready)
        /\ \A i \in 1..Len(b.ready) : thr[p][b.ready[i]].pc # "done" =>
             \E j \in 1..Len(b.ready) : /\ j < i /\ thr[p][b.ready[j]].pc = "done"
                                        /\ thr[p][b.ready[j]].res # "succeeded"
    BY <1>5, <1>6 DEF Collected
  <2>. QED
    BY <1>5, <1>9, <1>10, <2>1, <2>2 DEF Collected
<1>12. b.pc \notin Scanning /\ b.pc \notin Replaying
  BY <1>5 DEF Scanning, AtGate, Replaying
<1>13. Walk(b, thr[p], result)
  BY <1>5, <1>6, <1>11, <1>12 DEF Walk
<1>14. Walk(Raise(p, Answer(Recording(n, status), key)), thr[p], result)
  BY <1>2, WalkRaise
<1>15. at[p].pc \notin {"idle", "load"}
  BY <1>1
<1>. HIDE DEF key
<1>. QED
  BY <1>1, <1>2, <1>7, <1>13, <1>14, <1>15, FilesRecording

(* A layer without a failed or skipped node is on file as a whole. *)
LEMMA SettledFiles ==
  ASSUME Solo, NativeInv, FilesInv, NEW p \in Procs, Settled(p) PROVE FilesInv'
<1>. DEFINE past == at[p].past \cup Layer(at[p].past)
            c    == [at[p] EXCEPT !.pc = "layer", !.past = past]
            d    == [at[p] EXCEPT !.pc = "sweep", !.got = thr[p][at[p].term].res]
            b    == IF at[p].term = None THEN c ELSE d
<1>0. at[p] \in Places /\ Walk(at[p], thr[p], result) /\ at[p].pos \in Nat
  BY Here, WalkHere DEF Places
<1>1. /\ at' = [at EXCEPT ![p] = b] /\ at[p].pc = "write" /\ ~Unsettled(p)
      /\ run' = run /\ result' = result
  <2>1. c = [at[p] EXCEPT !.pc = "layer", !.past = @ \cup Layer(@)]
    BY <1>0 DEF Places
  <2>. QED
    BY <2>1 DEF Settled, Files
<1>2. /\ c.pc = "layer" /\ c.past = past /\ d.pc = "sweep" /\ d.past = at[p].past
  <2>. HIDE DEF past
  <2>. QED
    BY <1>0 DEF Places
<1>. HIDE DEF c, d
<1>3. /\ Collected(at[p], thr[p], result)
      /\ \A m \in at[p].past : result[m] = "succeeded"
  BY <1>0, <1>1 DEF Walk, Settles
<1>4. Len(at[p].ready) \in Nat
  BY <1>0, ReadyNodes
<1>5. Walk(d, thr'[p], result)
  BY <1>2, <1>3, FreeSteps, WalkFree
<1>6. ASSUME at[p].term = None PROVE Walk(c, thr'[p], result)
  <2>1. at[p].pos > Len(at[p].ready)
    <3>1. SUFFICES ASSUME at[p].pos <= Len(at[p].ready) PROVE FALSE
      BY <1>0, <1>4
    <3>2. at[p].pos \in 1..Len(at[p].ready)
      BY <1>0, <1>4, <3>1, Here DEF PlaceOK
    <3>3. thr[p][at[p].ready[at[p].pos]].pc # "done"
      BY <1>1, <3>1 DEF Unsettled, Finished
    <3>4. PICK j \in 1..Len(at[p].ready) : /\ j < at[p].pos
                                           /\ thr[p][at[p].ready[j]].res # "succeeded"
      BY <1>3, <3>2, <3>3 DEF Collected
    <3>. QED
      BY <1>3, <1>6, <3>4 DEF Collected
  <2>2. \A i \in 1..Len(at[p].ready) : i < at[p].pos
    BY <1>0, <1>4, <2>1
  <2>3. \A i \in 1..Len(at[p].ready) : result[at[p].ready[i]] = "succeeded"
    BY <1>3, <1>6, <2>2 DEF Collected
  <2>4. \A m \in Layer(at[p].past) : result[m] = "succeeded"
    BY <1>3, <2>3 DEF Collected, Covered
  <2>5. \A m \in c.past : result[m] = "succeeded"
    BY <1>2, <1>3, <2>4
  <2>. QED
    BY <1>2, <2>5, FreeSteps, WalkFree
<1>7. Walk(b, thr'[p], result)
  BY <1>5, <1>6
<1>. HIDE DEF b
<1>. QED
  BY <1>1, <1>7, FilesLocal

(* The run is ended. *)
LEMMA SweepLoadFiles ==
  ASSUME Solo, NativeInv, FilesInv, NEW p \in Procs, SweepLoad(p) PROVE FilesInv'
<1>. DEFINE b == [at[p] EXCEPT !.pc = "sweeping", !.cur = StatesOf(run),
                               !.past = {}, !.pos = 1]
<1>1. /\ at' = [at EXCEPT ![p] = b] /\ run' = run /\ result' = result
      /\ at[p].pc = "sweep"
  BY DEF SweepLoad, Rest, Files
<1>2. b.pc = "sweeping"
  BY Here DEF Places
<1>. HIDE DEF b
<1>3. Walk(b, thr'[p], result)
  BY <1>2, FreeSteps, WalkFree
<1>. QED
  BY <1>1, <1>3, FilesLocal

(* Sweep keeps FilesInv.  (_cancel_unfinished_nodes) *)
LEMMA SweepFiles ==
  ASSUME Solo, NativeInv, FilesInv, NEW p \in Procs, Sweep(p) PROVE FilesInv'
<1>. DEFINE n     == Node(p)
            cmd   == NodeTo(n, "cancelled", at[p].term)
            key   == <<n, "cancel-unfinished">>
            next  == Onward(p)
            taken == [next EXCEPT !.cur = StatesOf(RunAfter(cmd, key, 0))]
            other == Raise(p, Answer(cmd, key))
<1>1. /\ at[p].pc = "sweeping" /\ UNCHANGED Rest /\ Layer(at[p].past) # {}
      /\ \/ at' = [at EXCEPT ![p] = next] /\ run' = run
         \/ Call(p, cmd, key, taken, other)
  BY DEF Sweep
<1>2. /\ PlaceOK(at[p], run) /\ at[p] \in Places
      /\ at[p].term \in Nodes /\ at[p].term \in Reasons
  BY <1>1, Here, StoreAssumption DEF PlaceOK
<1>3. n \in Nodes
  <2>1. \E m \in Nodes : TRUE
    BY <1>1 DEF Layer
  <2>2. 1 <= Len(Order)
    BY <2>1, GraphAssumption, OrderNodes
  <2>3. at[p].pos <= Len(Order)
    BY <1>1, <1>2, <2>2 DEF PlaceOK
  <2>. QED
    BY <1>2, <2>3, NodeHere
<1>4. next \in Places /\ next.pc = "sweeping"
  BY <1>1, <1>2, OnwardFacts
<1>5. cmd \in Commands /\ Innocent(cmd)
  BY <1>2, <1>3, NodeToType, NodeToInnocent
<1>6. result' = result /\ thr' = thr
  BY <1>1 DEF Rest, Files
<1>. HIDE DEF next, cmd, key
<1>7. taken.pc = "sweeping"
  BY <1>4 DEF Places
<1>. HIDE DEF taken
<1>8. Walk(next, thr[p], result) /\ Walk(taken, thr[p], result)
  BY <1>4, <1>7, FreeSteps, WalkFree
<1>9. Walk(other, thr[p], result)
  BY <1>2, WalkRaise
<1>. HIDE DEF other
<1>10. CASE at' = [at EXCEPT ![p] = next] /\ run' = run
  <2>1. Walk(next, thr'[p], result)
    BY <1>6, <1>8
  <2>. QED
    BY <1>1, <1>6, <1>10, <2>1, FilesLocal
<1>11. CASE Call(p, cmd, key, taken, other)
  BY <1>1, <1>5, <1>8, <1>9, <1>11, FilesCall
<1>. QED
  BY <1>1, <1>10, <1>11

(* EndRun keeps FilesInv.  (execute (cancel or fail)) *)
LEMMA EndRunFiles ==
  ASSUME Solo, NativeInv, FilesInv, NEW p \in Procs, EndRun(p) PROVE FilesInv'
<1>. DEFINE skip  == at[p].got = "skipped"
            state == IF skip THEN "cancelled" ELSE "failed"
            key   == <<"runtime", IF skip THEN "cancel" ELSE "fail">>
<1>1. /\ CallAt("sweeping", p, RunTo(state, at[p].term), key, Return(state))
      /\ at[p].pc = "sweeping"
  BY DEF EndRun, CallAt
<1>2. at[p].term \in Reasons
  BY <1>1, Here, StoreAssumption DEF PlaceOK
<1>3. state \in {"cancelled", "failed"}
  OBVIOUS
<1>. HIDE DEF state, key
<1>4. RunTo(state, at[p].term) \in Commands /\ Innocent(RunTo(state, at[p].term))
  BY <1>2, <1>3, RunToType, RunToInnocent
<1>. QED
  BY <1>1, <1>4, WalkReturn, CallAtFiles

(* No layer is left: all nodes are past, and on file as succeeded. *)
LEMMA CompleteFiles ==
  ASSUME Solo, NativeInv, FilesInv, NEW p \in Procs, Complete(p) PROVE FilesInv'
<1>. DEFINE cmd == RunTo("completed", "none")
            key == <<"runtime", "complete">>
            a   == IF Taken(cmd, key) THEN Return("completed")
                                      ELSE Raise(p, Answer(cmd, key))
<1>1. /\ at[p].pc = "complete" /\ run' = RunAfter(cmd, key, 0)
      /\ at' = [at EXCEPT ![p] = a] /\ result' = result /\ thr' = thr
  BY DEF Complete, CallAt, Call, Rest, Files
<1>2. at[p] \in Places /\ Walk(at[p], thr[p], result) /\ Confirmed(run, result)
  BY Here, WalkHere
<1>3. /\ Layer(at[p].past) = {} /\ at[p].past \in SUBSET Nodes
      /\ \A n \in at[p].past : result[n] = "succeeded"
  BY <1>1, <1>2 DEF Walk, Places
<1>4. at[p].past = Nodes
  BY <1>3, GraphAssumption
<1>5. Confirmed(run', result')
  BY <1>1, <1>3, <1>4 DEF Confirmed
<1>6. Walk(a, thr'[p], result')
  BY <1>2, WalkReturn, WalkRaise
<1>7. run'.state = "completed" => a.pc = "idle"
  <2>1. CASE Taken(cmd, key)
    BY <2>1 DEF Return, Idle
  <2>2. CASE ~Taken(cmd, key)
    <3>1. run' = run
      BY <1>1, <2>2 DEF Taken, RunAfter
    <3>2. run.state # "completed"
      BY <1>1 DEF FilesInv
    <3>. QED
      BY <3>1, <3>2
  <2>. QED
    BY <2>1, <2>2
<1>. HIDE DEF a
<1>. QED
  BY <1>1, <1>5, <1>6, <1>7, FilesStep

(* FailLoad keeps FilesInv.  (_fail_running_node) *)
LEMMA FailLoadFiles ==
  ASSUME Solo, NativeInv, FilesInv, NEW p \in Procs, FailLoad(p) PROVE FilesInv'
<1>. DEFINE b == [at[p] EXCEPT !.pc = "failing", !.cur = StatesOf(run), !.pos = 1]
            a == IF run.state # "running" THEN Return("failed") ELSE b
<1>1. /\ at[p].pc = "error" /\ at' = [at EXCEPT ![p] = a] /\ run' = run
      /\ result' = result
  BY DEF FailLoad, Files
<1>2. b.pc = "failing"
  BY Here DEF Places
<1>. HIDE DEF b
<1>3. Walk(b, thr'[p], result)
  BY <1>2, FreeSteps, WalkFree
<1>4. Walk(a, thr'[p], result)
  BY <1>3, WalkReturn
<1>. HIDE DEF a
<1>. QED
  BY <1>1, <1>4, FilesLocal

(* FailNode keeps FilesInv.  (_fail_running_node (nodes)) *)
LEMMA FailNodeFiles ==
  ASSUME Solo, NativeInv, FilesInv, NEW p \in Procs, FailNode(p) PROVE FilesInv'
<1>. DEFINE n     == Order[at[p].pos]
            cmd   == NodeTo(n, "failed", at[p].why)
            key   == <<n, "exception">>
            other == Return(IF Answer(cmd, key) = "refused" THEN "failed"
                                                            ELSE "raised")
<1>0. at[p] \in Places /\ PlaceOK(at[p], run) /\ at[p].pos \in Nat
  BY Here DEF Places
<1>1. PICK k \in Nat : k = at[p].pos + 1
  BY <1>0
<1>. DEFINE next == [at[p] EXCEPT !.pos = k]
<1>2. /\ at[p].pc = "failing" /\ at[p].pos <= Len(Order) /\ UNCHANGED Rest
      /\ \/ at' = [at EXCEPT ![p] = next] /\ run' = run
         \/ Call(p, cmd, key, next, other)
  <2>1. next = [at[p] EXCEPT !.pos = @ + 1]
    BY <1>1
  <2>2. [at EXCEPT ![p].pos = @ + 1] = [at EXCEPT ![p] = next]
    BY <1>1
  <2>. QED
    BY <2>1, <2>2 DEF FailNode
<1>3. n \in Nodes /\ at[p].why \in Reasons
  BY <1>0, <1>2, NodeHere DEF Places, Node
<1>4. cmd \in Commands /\ Innocent(cmd)
  BY <1>3, NodeToType, NodeToInnocent
<1>5. next.pc = "failing"
  BY <1>0, <1>2 DEF Places
<1>6. result' = result /\ thr' = thr
  BY <1>2 DEF Rest, Files
<1>. HIDE DEF next, cmd, key
<1>7. Walk(next, thr[p], result)
  BY <1>5, FreeSteps, WalkFree
<1>8. Walk(other, thr[p], result)
  BY WalkReturn
<1>. HIDE DEF other
<1>9. CASE at' = [at EXCEPT ![p] = next] /\ run' = run
  <2>1. Walk(next, thr'[p], result)
    BY <1>6, <1>7
  <2>. QED
    BY <1>2, <1>6, <1>9, <2>1, FilesLocal
<1>10. CASE Call(p, cmd, key, next, other)
  BY <1>2, <1>4, <1>7, <1>8, <1>10, FilesCall
<1>. QED
  BY <1>2, <1>9, <1>10

(* FailRun keeps FilesInv.  (_fail_running_node (run)) *)
LEMMA FailRunFiles ==
  ASSUME Solo, NativeInv, FilesInv, NEW p \in Procs, FailRun(p) PROVE FilesInv'
<1>. DEFINE cmd   == RunTo("failed", at[p].why)
            key   == <<"runtime", "exception">>
            other == Return(IF Answer(cmd, key) = "refused" THEN "failed"
                                                            ELSE "raised")
<1>1. /\ Call(p, cmd, key, Return("failed"), other) /\ UNCHANGED Rest
      /\ at[p].pc = "failing"
  BY DEF FailRun
<1>2. at[p].why \in Reasons
  BY Here DEF Places
<1>3. cmd \in Commands /\ Innocent(cmd)
  BY <1>2, RunToType, RunToInnocent
<1>. HIDE DEF cmd, key
<1>4. Walk(other, thr[p], result) /\ Walk(Return("failed"), thr[p], result)
  BY WalkReturn
<1>. HIDE DEF other
<1>. QED
  BY <1>1, <1>3, <1>4, FilesCall

(* Crash keeps FilesInv.  (death of the process) *)
LEMMA CrashFiles ==
  ASSUME Solo, NativeInv, FilesInv, NEW p \in Procs, Crash(p) PROVE FilesInv'
<1>1. /\ at[p].pc # "idle" /\ at' = [at EXCEPT ![p] = Idle] /\ run' = run
      /\ result' = result
  BY DEF Crash, Files
<1>2. Idle = Return("none") /\ Idle.pc = "idle"
  BY IdleReturn DEF Idle
<1>3. Walk(Idle, thr'[p], result')
  BY <1>2, WalkReturn
<1>4. Confirmed(run', result')
  BY <1>1 DEF FilesInv
<1>. QED
  BY <1>1, <1>2, <1>3, <1>4, FilesStep

(* The operator cannot make a node succeed or complete the run. *)
LEMMA OperatorFiles ==
  ASSUME NativeInv, FilesInv, NEW cmd \in Commanded, NEW k, Operator(cmd, k)
  PROVE  FilesInv'
<1>1. /\ run' = RunAfter(cmd, <<"operator", k>>, 0) /\ at' = at /\ thr' = thr
      /\ result' = result
  BY DEF Operator, Rest, Files
<1>2. Innocent(cmd)
  <2>1. CASE \E s \in OperatorMoves \ {"approve"} : cmd = RunTo(s, "none")
    <3>1. PICK s \in OperatorMoves \ {"approve"} : cmd = RunTo(s, "none")
      BY <2>1
    <3>2. s # "completed"
      BY NativeAssumption
    <3>. QED
      BY <3>1, <3>2, RunToInnocent
  <2>2. CASE \E n \in NeedApproval : cmd = ApproveNode(n)
    BY <2>2 DEF ApproveNode, NodeTo, Innocent
  <2>3. CASE cmd = ApproveRun
    BY <2>3 DEF ApproveRun, RunTo, Innocent
  <2>. QED
    BY <2>1, <2>2, <2>3 DEF Commanded
<1>3. cmd \in Commands /\ run \in Snapshots
  BY CommandedType DEF NativeInv, RunOK
<1>4. /\ \A n \in Nodes : run'.nodes[n].state = "succeeded" =>
                            run.nodes[n].state = "succeeded"
      /\ run'.state = "completed" => run.state = "completed"
  BY <1>1, <1>2, <1>3, CallEffect DEF Innocent
<1>5. Confirmed(run', result')
  BY <1>1, <1>4 DEF FilesInv, Confirmed
<1>. QED
  BY <1>1, <1>4, <1>5 DEF FilesInv

(* FilesInv holds at first. *)
LEMMA FilesInit == Init => FilesInv
<1>. SUFFICES ASSUME Init PROVE FilesInv
  OBVIOUS
<1>1. run = NoRun /\ at = [p \in Procs |-> Idle]
  BY DEF Init
<1>2. /\ \A n \in Nodes : run.nodes[n].state = "pending"
      /\ run.state # "completed"
  BY <1>1, NoneAssumption DEF NoRun, RunStates
<1>3. Idle = Return("none") /\ Idle.pc = "idle"
  BY IdleReturn DEF Idle
<1>4. \A p \in Procs : at[p] = Idle /\ Walk(at[p], thr[p], result)
  BY <1>1, <1>3, WalkReturn
<1>5. Confirmed(run, result)
  BY <1>2 DEF Confirmed
<1>. QED
  BY <1>3, <1>4, <1>5 DEF FilesInv

(* Every step keeps FilesInv: one lemma per action. *)
LEMMA FilesNext ==
  ASSUME Solo, NativeInv, FilesInv, [Next]_vars PROVE FilesInv'
<1>1. CASE UNCHANGED vars
  BY <1>1 DEF vars, FilesInv
<1>2. ASSUME NEW p \in Procs, NEW resume \in BOOLEAN, Execute(p, resume)
      PROVE  FilesInv'
  BY <1>2, ExecuteFiles
<1>3. ASSUME NEW p \in Procs, Step(p) PROVE FilesInv'
  <2>1. CASE Load(p) \/ Create(p) \/ OpenManifest(p) \/ FillManifest(p) \/ Start(p)
    BY <2>1, LoadFiles, CreateFiles, OpenManifestFiles, FillManifestFiles, StartFiles
  <2>2. CASE EnterLayer(p) \/ Scan(p) \/ Begin(p) \/ Gate(p) \/ AskNode(p) \/ AskRun(p)
    BY <2>2, EnterLayerFiles, ScanFiles, BeginFiles, GateFiles, AskNodeFiles,
       AskRunFiles
  <2>3. CASE \/ ReplayLoad(p) \/ ReplayLease(p) \/ ReplayResume(p) \/ ReplayStart(p)
             \/ ReplayApply(p) \/ ReplayFail(p)
    BY <2>3, ReplayLoadFiles, ReplayLeaseFiles, ReplayResumeFiles, ReplayStartFiles,
       ReplayApplyFiles, ReplayFailFiles
  <2>4. CASE \/ StartWork(p) \/ Join(p)
             \/ OpenResult(p) \/ FillResult(p) \/ Record(p) \/ Settled(p)
    BY <2>4, StartWorkFiles, JoinFiles, OpenResultFiles, FillResultFiles,
       RecordFiles, SettledFiles
  <2>5. CASE \/ SweepLoad(p) \/ Sweep(p) \/ EndRun(p) \/ Complete(p)
             \/ FailLoad(p) \/ FailNode(p) \/ FailRun(p)
    BY <2>5, SweepLoadFiles, SweepFiles, EndRunFiles, CompleteFiles, FailLoadFiles,
       FailNodeFiles, FailRunFiles
  <2>. QED
    BY <1>3, <2>1, <2>2, <2>3, <2>4, <2>5 DEF Step
<1>4. ASSUME NEW p \in Procs, NEW n \in Nodes, ThreadStep(p, n) PROVE FilesInv'
  BY <1>4, ThreadStepFiles
<1>5. ASSUME NEW p \in Procs, Crash(p) PROVE FilesInv'
  BY <1>5, CrashFiles
<1>6. ASSUME NEW cmd \in Commanded, NEW k \in 1..MaxMoves, Operator(cmd, k)
      PROVE  FilesInv'
  BY <1>6, OperatorFiles
<1>7. CASE Tick
  BY <1>7 DEF Tick, Files, FilesInv
<1>. QED
  BY <1>1, <1>2, <1>3, <1>4, <1>5, <1>6, <1>7 DEF Next

(* With one process at a time the agreement of files, store and position   *)
(* holds in every reachable state, whatever deaths interrupt it.           *)
THEOREM FilesInvHolds ==
  ASSUME Solo PROVE Spec => []FilesInv
<1>1. Init => FilesInv
  BY FilesInit
<1>2. NativeInv /\ FilesInv /\ [Next]_vars => FilesInv'
  BY FilesNext
<1>. QED
  BY <1>1, <1>2, NativeInvHolds, PTL DEF Spec

(* One process at a time: what the store calls succeeded or completed is   *)
(* on file as a readable success, in every graph, over any number of       *)
(* deaths between a file and its event.                                    *)
THEOREM CompletedSoundHolds ==
  ASSUME Solo PROVE Spec => []CompletedSound
<1>1. FilesInv => CompletedSound
  BY DEF FilesInv, Confirmed, CompletedSound
<1>. QED
  BY <1>1, FilesInvHolds, PTL

(* One process at a time: a handler starts only while its node has no      *)
(* result on file, so nothing that was paid for is done again.             *)
THEOREM NeverRerunHolds ==
  ASSUME Solo PROVE Spec => NeverRerun
<1>. DEFINE P == \A p \in Procs, n \in Nodes :
                   HandlerStarts(p, n) => result[n] \notin Written
<1>1. ASSUME NativeInv, FilesInv, [Next]_vars PROVE [P]_vars
  <2>1. SUFFICES ASSUME Next, NEW p \in Procs, NEW n \in Nodes, HandlerStarts(p, n)
                 PROVE  result[n] \notin Written
    BY <1>1
  <2>2. Turn(p, n)
    BY <1>1, <2>1, StartsTurn
  <2>3. PICK i \in 1..Len(at[p].ready) : at[p].ready[i] = n /\ at[p].pc = "work"
    BY <2>2 DEF Turn
  <2>4. Scanned(at[p], result)
    BY <1>1, <2>3, WalkHere DEF Walk, Scanning
  <2>5. result[n] = "none"
    BY <2>3, <2>4 DEF Scanned
  <2>. QED
    BY <2>5 DEF Written
<1>2. NativeInv /\ FilesInv /\ [Next]_vars => [P]_vars
  BY <1>1
<1>3. Spec => [][P]_vars
  BY <1>2, NativeInvHolds, FilesInvHolds, PTL DEF Spec
<1>. QED
  BY <1>3 DEF NeverRerun
=============================================================================
