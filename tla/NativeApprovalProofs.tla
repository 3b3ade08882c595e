------------------------- MODULE NativeApprovalProofs -------------------------
(***************************************************************************)
(* Approvals come before handlers, for every graph, any deaths and any     *)
(* moves of the operator, while one process at a time executes the run.    *)
(*                                                                         *)
(* The gate alone does not show it: a resumed process trusts the states it *)
(* loaded, and only a node it saw running is asked about.  What carries    *)
(* the claim is that a node nobody approved is never failed, paused or     *)
(* succeeded, which needs that the except clause finds it running at no    *)
(* time; and that depends on the layers: while a node lacks its approval,  *)
(* no node of its layer or of a later one has a result file.               *)
(***************************************************************************)
EXTENDS NativeBackendProofs

-----------------------------------------------------------------------------
(* Layers. *)

(* The sets of nodes that finished layers make up. *)
Prefixes ==
  {S \in SUBSET Nodes : \A F \in SUBSET SUBSET Nodes :
     ({} \in F /\ \A T \in F : T \cup Layer(T) \in F) => S \in F}

(* The empty prefix, and the next one. *)
LEMMA PrefixesClosed ==
  /\ {} \in Prefixes
  /\ \A T \in Prefixes : T \cup Layer(T) \in Prefixes
<1>1. {} \in Prefixes
  BY DEF Prefixes
<1>2. ASSUME NEW T \in Prefixes PROVE T \cup Layer(T) \in Prefixes
  <2>1. T \cup Layer(T) \in SUBSET Nodes
    BY DEF Prefixes, Layer
  <2>2. ASSUME NEW F \in SUBSET SUBSET Nodes,
               {} \in F, \A R \in F : R \cup Layer(R) \in F
        PROVE  T \cup Layer(T) \in F
    BY <2>2 DEF Prefixes
  <2>. QED
    BY <2>1, <2>2 DEF Prefixes
<1>. QED
  BY <1>1, <1>2

(* Induction along the layers. *)
LEMMA PrefixInduction ==
  ASSUME NEW F, {} \in F, \A T \in Prefixes : T \in F => T \cup Layer(T) \in F
  PROVE  Prefixes \subseteq F
<1>. DEFINE G == Prefixes \cap F
<1>1. G \in SUBSET SUBSET Nodes
  BY DEF Prefixes
<1>2. {} \in G /\ \A T \in G : T \cup Layer(T) \in G
  BY PrefixesClosed
<1>3. \A S \in Prefixes : S \in G
  BY <1>1, <1>2 DEF Prefixes
<1>. QED
  BY <1>3

(* More finished nodes, more that follow. *)
LEMMA LayerMonotone ==
  ASSUME NEW S, NEW T, S \subseteq T
  PROVE  S \cup Layer(S) \subseteq T \cup Layer(T)
  BY DEF Layer

(* Of two prefixes one begins with the other. *)
LEMMA PrefixChain ==
  ASSUME NEW S \in Prefixes, NEW T \in Prefixes
  PROVE  S \subseteq T \/ T \cup Layer(T) \subseteq S
<1>. DEFINE Ahead(R) == {Q \in Prefixes : Q \subseteq R \/ R \cup Layer(R) \subseteq Q}
            F == {R \in Prefixes : Prefixes \subseteq Ahead(R)}
<1>1. {} \in F
  <2>1. {} \in Ahead({})
    BY PrefixesClosed
  <2>2. ASSUME NEW Q \in Prefixes, Q \in Ahead({})
        PROVE  Q \cup Layer(Q) \in Ahead({})
    <3>1. CASE Q = {}
      BY <3>1, PrefixesClosed
    <3>2. CASE {} \cup Layer({}) \subseteq Q
      BY <3>2, PrefixesClosed
    <3>. QED
      BY <2>2, <3>1, <3>2
  <2>. HIDE DEF Ahead
  <2>3. Prefixes \subseteq Ahead({})
    BY <2>1, <2>2, PrefixInduction
  <2>. QED
    BY <2>3, PrefixesClosed
<1>2. ASSUME NEW R \in Prefixes, R \in F PROVE R \cup Layer(R) \in F
  <2>. DEFINE Rn == R \cup Layer(R)
  <2>1. Rn \in Prefixes
    BY PrefixesClosed
  <2>2. {} \in Ahead(Rn)
    BY PrefixesClosed
  <2>3. ASSUME NEW Q \in Prefixes, Q \in Ahead(Rn)
        PROVE  Q \cup Layer(Q) \in Ahead(Rn)
    <3>1. Q \cup Layer(Q) \in Prefixes
      BY PrefixesClosed
    <3>2. CASE Rn \cup Layer(Rn) \subseteq Q
      BY <3>1, <3>2
    <3>3. CASE Q \subseteq Rn
      <4>1. Q \subseteq R \/ Rn \subseteq Q
        BY <1>2
      <4>2. CASE Q \subseteq R
        BY <3>1, <4>2, LayerMonotone
      <4>3. CASE Rn \subseteq Q
        <5>1. Q = Rn
          BY <3>3, <4>3
        <5>. QED
          BY <3>1, <5>1
      <4>. QED
        BY <4>1, <4>2, <4>3
    <3>. QED
      BY <2>3, <3>2, <3>3
  <2>. HIDE DEF Ahead, Rn
  <2>4. Prefixes \subseteq Ahead(Rn)
    BY <2>2, <2>3, PrefixInduction
  <2>5. QED
    BY <2>1, <2>4 DEF Rn
<1>. HIDE DEF F
<1>3. Prefixes \subseteq F
  BY <1>1, <1>2, PrefixInduction
<1>. QED
  BY <1>3 DEF F

(* A node of a layer that does not lie behind another node is of the same  *)
(* layer or of an earlier one.                                             *)
LEMMA SameOrEarlier ==
  ASSUME NEW S \in Prefixes, NEW T \in Prefixes,
         NEW n \in Layer(S), NEW m \in Layer(T), m \notin S
  PROVE  S = T \/ n \in T
<1>1. S \subseteq T
  BY PrefixChain
<1>2. T \subseteq S \/ S \cup Layer(S) \subseteq T
  BY PrefixChain
<1>. QED
  BY <1>1, <1>2

-----------------------------------------------------------------------------
(* The invariant. *)

(* Somebody approved the node. *)
ApprovedIn(r, n) == \E k \in Keys : r.idem[k] = ApproveNode(n)
(* The node needs an approval and has none. *)
Barred(r, n) == n \in NeedApproval /\ ~ApprovedIn(r, n)
(* It was begun all the same and waits for its gate. *)
Open(r, n) == Barred(r, n) /\ r.nodes[n].state = "running"
(* No node does. *)
NoneOpen(r) == \A n \in Nodes : ~Open(r, n)

(* The node was begun when its dependencies had succeeded. *)
Cleared(r, m) ==
  /\ r.nodes[m].state # "pending"
  /\ \A d \in Deps[m] : r.nodes[d].state = "succeeded"

(* The states of a node without its approval. *)
Waits == {"pending", "running", "awaiting_approval", "cancelled"}

(* Keys that belong to one command. *)
OwnKeys(r) ==
  /\ r.idem[<<"runtime", "resume">>] \in {None, RunTo("running", "none")}
  /\ \A n \in Nodes :
       /\ r.idem[<<n, "start">>] \in {None, NodeTo(n, "running", "none")}
       /\ r.idem[<<n, "resume">>] \in {None, NodeTo(n, "running", "none")}
       /\ r.idem[<<n, "complete">>] \in {None, NodeTo(n, "succeeded", "none")}
       /\ r.idem[<<n, "approval-request">>] \in {None, NodeTo(n, "awaiting_approval", n)}

(* Finished layers have their files; the layer's nodes before n have gone  *)
(* through their gates.                                                    *)
Preceded(S, r, res, n) ==
  /\ S \in Prefixes /\ n \in Layer(S)
  /\ \A m \in S : res[m] = "succeeded"
  /\ \A i, j \in 1..Len(Order) :
       Order[j] = n /\ i < j /\ Order[i] \in Layer(S) =>
         Cleared(r, Order[i]) /\ ~Barred(r, Order[i])

(* What holds of a node while nobody approved it. *)
NodeGuarded(r, res, n) ==
  /\ r.idem[<<n, "release-replay">>] # None =>
       r.nodes[n].lease = None /\ res[n] # "none"
  /\ r.idem[<<n, "start">>] # None => r.nodes[n].state # "pending"
  /\ Barred(r, n) =>
       /\ r.nodes[n].state \in Waits
       /\ r.idem[<<n, "approval-request">>] # None =>
            r.nodes[n].state \notin {"pending", "running"}
       /\ \A S \in Prefixes : n \in Layer(S) => \A m \in Nodes \ S : res[m] = "none"
  /\ Open(r, n) => Cleared(r, n) /\ \E S \in Prefixes : Preceded(S, r, res, n)

(* The run and the files. *)
GuardedRun(r, res) ==
  /\ OwnKeys(r)
  /\ r.state = None => \A n \in Nodes : r.nodes[n].state = "pending"
  /\ r.state = "cancelled" => \A n \in Nodes : r.nodes[n].state \in NodeTerminal
  /\ \A n \in Nodes : NodeGuarded(r, res, n)

(* Steps that may lead to _fail_running_node. *)
Quiet(a) ==
  \/ a.pc \in {"ask-run", "sweep", "sweeping", "error", "failing", "complete"}
  \/ a.pc \in {"work"} \cup Settles /\ a.ready # <<>>

(* What the process remembers of the nodes' states. *)
Recalled(a, r) ==
  \A n \in Nodes :
    /\ Barred(r, n) => a.cur[n] \in Waits
    /\ a.cur[n] # "pending" => r.nodes[n].state # "pending"

(* The layer under scan: the nodes passed have gone through their gates,   *)
(* the others are as the process remembers them.                           *)
Passing(a, r, res) ==
  /\ \A d \in a.past : r.nodes[d].state = "succeeded" => a.cur[d] = "succeeded"
  /\ \A k \in 1..Len(Order) :
       /\ k < a.pos /\ Order[k] \in Layer(a.past) /\ res[Order[k]] = "none" =>
            Cleared(r, Order[k]) /\ ~Barred(r, Order[k])
       /\ (k > a.pos \/ (k = a.pos /\ a.pc \in {"scan", "begin"}))
            /\ a.cur[Order[k]] = "pending" =>
            r.nodes[Order[k]].state = "pending" \/ r.state = "cancelled"

(* The node at hand. *)
Facing(a, r) ==
  /\ a.pc \in AtGate \cup Replaying => Order[a.pos] \in Layer(a.past)
  /\ a.pc = "begin" => a.cur[Order[a.pos]] = "pending"
  /\ a.pc = "gate" =>
       a.cur[Order[a.pos]] \notin {"pending", "succeeded", "cancelled",
                                   "awaiting_approval"}
  /\ a.pc = "ask" => \A n \in Nodes : Open(r, n) => n = Order[a.pos]
  /\ a.pc = "replay-fail" => a.got = "failed"

(* The layer's nodes at work, and what ended it. *)
Working(a, r, res) ==
  /\ a.pc \in Scanning \cup Settles =>
       \A i \in 1..Len(a.ready) : a.ready[i] \in Layer(a.past)
  /\ a.pc \in {"work"} \cup Settles => \A n \in Layer(a.past) : ~Barred(r, n)
  /\ a.pc \in Settles /\ a.term # None => res[a.term] \in {"failed", "skipped"}

(* The process. *)
GuardedAt(a, r, res) ==
  /\ a.past \in Prefixes
  /\ Recalled(a, r)
  /\ Quiet(a) => NoneOpen(r)
  /\ a.pc \in Scanning => Passing(a, r, res)
  /\ Facing(a, r)
  /\ Working(a, r, res)
  /\ a.pc = "failing" => \A n \in Nodes : Barred(r, n) => a.cur[n] # "running"

(* The inductive invariant for one process at a time. *)
ApprovalInv ==
  /\ GuardedRun(run, result)
  /\ \A p \in Procs : GuardedAt(at[p], run, result)

-----------------------------------------------------------------------------
(* What one call writes. *)

(* The command is recorded. *)
Recorded(cmd, key) == Answer(cmd, key) = "new"

(* Keys: only the call's own, and only once. *)
LEMMA CallKeys ==
  ASSUME run \in Snapshots, NEW cmd \in Commands, NEW key \in Keys, NEW token
  PROVE  LET s == RunAfter(cmd, key, token) IN
         /\ \A k \in Keys : s.idem[k] = IF Recorded(cmd, key) /\ k = key
                                          THEN cmd ELSE run.idem[k]
         /\ Recorded(cmd, key) => run.idem[key] = None
<1>. DEFINE s == RunAfter(cmd, key, token)
            e == EventOf(run, cmd, key, now)
<1>1. CASE ~Recorded(cmd, key)
  BY <1>1 DEF RunAfter, Recorded
<1>2. CASE Recorded(cmd, key)
  <2>1. s = Apply(run, e, token)
    BY <1>2 DEF RunAfter, Recorded
  <2>2. e.cmd = cmd /\ e.key = key
    BY DEF EventOf
  <2>3. s.idem = [run.idem EXCEPT ![key] = cmd]
    BY <2>1, <2>2 DEF Apply
  <2>4. run.idem \in [Keys -> Commands \cup {None}]
    BY DEF Snapshots
  <2>5. run.idem[key] = None
    BY <1>2 DEF Recorded, Answer
  <2>. HIDE DEF s
  <2>6. \A k \in Keys : s.idem[k] = IF k = key THEN cmd ELSE run.idem[k]
    BY <2>3, <2>4
  <2>. QED
    BY <1>2, <2>5, <2>6 DEF s
<1>. QED
  BY <1>1, <1>2

(* The run's state. *)
LEMMA CallState ==
  ASSUME run \in Snapshots, NEW cmd \in Commands, NEW key \in Keys, NEW token
  PROVE  LET s == RunAfter(cmd, key, token) IN
         \/ s.state = run.state
         \/ Recorded(cmd, key) /\ cmd.type = "run_created" /\ s.state = "created"
              /\ run.state = None
         \/ Recorded(cmd, key) /\ cmd.type = "run_transition" /\ s.state = cmd.to
              /\ <<run.state, cmd.to>> \in RunEdges
<1>. DEFINE s == RunAfter(cmd, key, token)
            e == EventOf(run, cmd, key, now)
<1>1. CASE ~Recorded(cmd, key)
  BY <1>1 DEF RunAfter, Recorded
<1>2. CASE Recorded(cmd, key)
  <2>1. s = Apply(run, e, token)
    BY <1>2 DEF RunAfter, Recorded
  <2>2. e.cmd = cmd
    BY DEF EventOf
  <2>3. s.state = StateAfter(run, e)
    BY <2>1 DEF Apply
  <2>4. Permits(run, cmd, now)
    BY <1>2 DEF Recorded, Answer
  <2>. HIDE DEF s
  <2>5. CASE cmd.type = "run_created"
    BY <1>2, <2>2, <2>3, <2>4, <2>5 DEF StateAfter, Permits, s
  <2>6. CASE cmd.type = "run_transition"
    BY <1>2, <2>2, <2>3, <2>4, <2>6 DEF StateAfter, Permits, RunMove, s
  <2>7. CASE cmd.type \notin {"run_created", "run_transition"}
    BY <2>2, <2>3, <2>7 DEF StateAfter, s
  <2>. QED
    BY <2>5, <2>6, <2>7
<1>. QED
  BY <1>1, <1>2

(* The nodes' states: one of them, or all with the run. *)
LEMMA CallNodes ==
  ASSUME run \in Snapshots, NEW cmd \in Commands, NEW key \in Keys, NEW token,
         NEW n \in Nodes
  PROVE  LET s == RunAfter(cmd, key, token) IN
         \/ s.nodes[n].state = run.nodes[n].state
         \/ /\ Recorded(cmd, key) /\ cmd.type = "node_transition" /\ cmd.node = n
            /\ s.nodes[n].state = cmd.to /\ run.state # None
            /\ <<run.nodes[n].state, cmd.to>> \in NodeEdges
            /\ cmd.approved => run.nodes[n].state = "awaiting_approval"
         \/ /\ Recorded(cmd, key) /\ cmd.type = "run_transition"
            /\ s.state = "cancelled" /\ s.nodes[n].state = "cancelled"
            /\ run.nodes[n].state \notin NodeTerminal
<1>. DEFINE s == RunAfter(cmd, key, token)
            e == EventOf(run, cmd, key, now)
<1>1. CASE ~Recorded(cmd, key)
  BY <1>1 DEF RunAfter, Recorded
<1>2. CASE Recorded(cmd, key)
  <2>1. s = Apply(run, e, token)
    BY <1>2 DEF RunAfter, Recorded
  <2>2. e.cmd = cmd
    BY DEF EventOf
  <2>3. s.nodes = NodesAfter(run, e, token) /\ s.state = StateAfter(run, e)
    BY <2>1 DEF Apply
  <2>4. Permits(run, cmd, now)
    BY <1>2 DEF Recorded, Answer
  <2>5. run.nodes \in [Nodes -> NodeSnapshots]
    BY DEF Snapshots
  <2>. HIDE DEF s
  <2>6. CASE cmd.type = "run_transition" /\ cmd.to = "cancelled"
    <3>1. s.nodes[n] = CancelNode(run.nodes[n])
      BY <2>2, <2>3, <2>6 DEF NodesAfter
    <3>2. s.state = "cancelled"
      BY <2>2, <2>3, <2>6 DEF StateAfter
    <3>. QED
      BY <1>2, <2>5, <2>6, <3>1, <3>2 DEF CancelNode, NodeSnapshots, s
  <2>7. CASE cmd.type = "node_transition"
    <3>1. s.nodes = [run.nodes EXCEPT ![cmd.node].state = cmd.to]
      BY <2>2, <2>3, <2>7 DEF NodesAfter
    <3>2. CASE cmd.node = n
      <4>1. s.nodes[n].state = cmd.to
        BY <2>5, <3>1, <3>2 DEF NodeSnapshots
      <4>2. NodeMove(run, cmd)
        BY <2>4, <2>7 DEF Permits
      <4>. QED
        BY <1>2, <2>7, <3>2, <4>1, <4>2 DEF NodeMove, s
    <3>3. CASE cmd.node # n
      BY <2>5, <3>1, <3>3 DEF s
    <3>. QED
      BY <3>2, <3>3
  <2>8. CASE /\ ~(cmd.type = "run_transition" /\ cmd.to = "cancelled")
             /\ cmd.type # "node_transition"
    <3>1. s.nodes[n].state = run.nodes[n].state
      BY <2>2, <2>3, <2>5, <2>8, CommandFields DEF NodesAfter, NodeSnapshots
    <3>. QED
      BY <3>1 DEF s
  <2>. QED
    BY <2>6, <2>7, <2>8
<1>. QED
  BY <1>1, <1>2

(* The leases: granted, or gone. *)
LEMMA CallLeases ==
  ASSUME run \in Snapshots, NEW cmd \in Commands, NEW key \in Keys, NEW token,
         NEW n \in Nodes, cmd.type # "lease_heartbeat"
  PROVE  LET s == RunAfter(cmd, key, token) IN
         /\ s.nodes[n].lease = run.nodes[n].lease \/ s.nodes[n].lease = None
              \/ (cmd.type = "lease_acquired" /\ cmd.node = n)
         /\ Recorded(cmd, key) /\ cmd.type = "lease_released" /\ cmd.node = n =>
              s.nodes[n].lease = None
<1>. DEFINE s == RunAfter(cmd, key, token)
            e == EventOf(run, cmd, key, now)
<1>1. CASE ~Recorded(cmd, key)
  BY <1>1 DEF RunAfter, Recorded
<1>2. CASE Recorded(cmd, key)
  <2>1. s = Apply(run, e, token)
    BY <1>2 DEF RunAfter, Recorded
  <2>2. e.cmd = cmd
    BY DEF EventOf
  <2>3. s.nodes = NodesAfter(run, e, token)
    BY <2>1 DEF Apply
  <2>5. run.nodes \in [Nodes -> NodeSnapshots]
    BY DEF Snapshots
  <2>. HIDE DEF s
  <2>6. CASE cmd.type = "run_transition" /\ cmd.to = "cancelled"
    <3>1. s.nodes[n] = CancelNode(run.nodes[n])
      BY <2>2, <2>3, <2>6 DEF NodesAfter
    <3>. QED
      BY <2>5, <2>6, <3>1 DEF CancelNode, NodeSnapshots, s
  <2>7. CASE cmd.type = "node_transition"
    <3>1. s.nodes = [run.nodes EXCEPT ![cmd.node].state = cmd.to]
      BY <2>2, <2>3, <2>7 DEF NodesAfter
    <3>. QED
      BY <2>5, <2>7, <3>1 DEF NodeSnapshots, s
  <2>8. CASE cmd.type \in {"lease_acquired", "lease_released"}
    BY SMTT(30), <2>2, <2>3, <2>5, <2>8, CommandFields DEF NodesAfter, NodeSnapshots, s
  <2>9. CASE /\ ~(cmd.type = "run_transition" /\ cmd.to = "cancelled")
             /\ cmd.type \notin {"node_transition", "lease_acquired", "lease_released"}
    <3>1. s.nodes[n].lease \in {run.nodes[n].lease, None}
      BY <2>2, <2>3, <2>5, <2>9, CommandFields DEF NodesAfter, NodeSnapshots
    <3>. QED
      BY <2>9, <3>1 DEF s
  <2>. QED
    BY <2>6, <2>7, <2>8, <2>9
<1>. QED
  BY <1>1, <1>2

(* A recorded transition is made. *)
LEMMA CallMoved ==
  ASSUME run \in Snapshots, NEW cmd \in Commands, NEW key \in Keys, NEW token,
         Recorded(cmd, key), cmd.type = "node_transition"
  PROVE  RunAfter(cmd, key, token).nodes[cmd.node].state = cmd.to
<1>. DEFINE s == RunAfter(cmd, key, token)
            e == EventOf(run, cmd, key, now)
<1>1. s = Apply(run, e, token)
  BY DEF RunAfter, Recorded
<1>2. e.cmd = cmd
  BY DEF EventOf
<1>3. s.nodes = NodesAfter(run, e, token)
  BY <1>1 DEF Apply
<1>4. run.nodes \in [Nodes -> NodeSnapshots] /\ cmd.node \in Nodes
  BY CommandFields DEF Snapshots
<1>. HIDE DEF s
<1>5. s.nodes = [run.nodes EXCEPT ![cmd.node].state = cmd.to]
  BY <1>2, <1>3 DEF NodesAfter
<1>6. s.nodes[cmd.node].state = cmd.to
  BY <1>4, <1>5 DEF NodeSnapshots
<1>. QED
  BY <1>6 DEF s

(* What never goes back. *)
Moves(r, s) ==
  /\ r.state = "cancelled" => s.state = "cancelled"
  /\ \A n \in Nodes :
       /\ r.nodes[n].state # "pending" => s.nodes[n].state # "pending"
       /\ r.nodes[n].state = "succeeded" => s.nodes[n].state = "succeeded"
       /\ ApprovedIn(r, n) => ApprovedIn(s, n)

(* Every call moves the run on. *)
LEMMA CallMoves ==
  ASSUME run \in Snapshots, NEW cmd \in Commands, NEW key \in Keys, NEW token
  PROVE  Moves(run, RunAfter(cmd, key, token))
<1>. DEFINE s == RunAfter(cmd, key, token)
<1>1. run.state = "cancelled" => s.state = "cancelled"
  BY CallState, NoneAssumption DEF RunEdges, RunStates
<1>2. ASSUME NEW n \in Nodes
      PROVE  /\ run.nodes[n].state # "pending" => s.nodes[n].state # "pending"
             /\ run.nodes[n].state = "succeeded" => s.nodes[n].state = "succeeded"
  <2>1. \/ s.nodes[n].state = run.nodes[n].state
        \/ <<run.nodes[n].state, s.nodes[n].state>> \in NodeEdges
        \/ s.nodes[n].state = "cancelled" /\ run.nodes[n].state \notin NodeTerminal
    BY CallNodes
  <2>. HIDE DEF s
  <2>. QED
    BY <2>1 DEF NodeEdges, NodeTerminal
<1>3. ASSUME NEW n \in Nodes, ApprovedIn(run, n) PROVE ApprovedIn(s, n)
  <2>1. PICK k \in Keys : run.idem[k] = ApproveNode(n)
    BY <1>3 DEF ApprovedIn
  <2>2. ApproveNode(n) # None
    BY ApproveType, NoneAssumption
  <2>3. s.idem[k] = run.idem[k]
    BY <2>1, <2>2, CallKeys
  <2>. QED
    BY <2>1, <2>3 DEF ApprovedIn
<1>. HIDE DEF s
<1>4. Moves(run, s)
  BY <1>1, <1>2, <1>3 DEF Moves
<1>. QED
  BY <1>4 DEF s

(* An approval is not withdrawn. *)
LEMMA BarredBefore ==
  ASSUME NEW r, NEW s, Moves(r, s), NEW n \in Nodes, Barred(s, n)
  PROVE  Barred(r, n)
  BY DEF Moves, Barred

(* What was cleared stays so. *)
LEMMA ClearedAfter ==
  ASSUME NEW r, NEW s, Moves(r, s), NEW n \in Nodes, Cleared(r, n)
  PROVE  Cleared(s, n)
<1>1. Deps[n] \subseteq Nodes
  BY GraphAssumption
<1>. QED
  BY <1>1 DEF Moves, Cleared

(* So does what went before a node. *)
LEMMA PrecededAfter ==
  ASSUME NEW r, NEW s, Moves(r, s), NEW n \in Nodes, NEW res, NEW S,
         Preceded(S, r, res, n)
  PROVE  Preceded(S, s, res, n)
<1>1. ASSUME NEW i \in 1..Len(Order), NEW j \in 1..Len(Order),
             Order[j] = n, i < j, Order[i] \in Layer(S)
      PROVE  Cleared(s, Order[i]) /\ ~Barred(s, Order[i])
  <2>1. Order[i] \in Nodes
    BY OrderNodes
  <2>2. Cleared(r, Order[i]) /\ ~Barred(r, Order[i])
    BY <1>1 DEF Preceded
  <2>. QED
    BY <2>1, <2>2, ClearedAfter, BarredBefore
<1>. QED
  BY <1>1 DEF Preceded

-----------------------------------------------------------------------------
(* Calls keep the run's part of the invariant. *)

(* The command is the key's. *)
Own(cmd, key, res) ==
  /\ key = <<"runtime", "resume">> => cmd = RunTo("running", "none")
  /\ \A n \in Nodes :
       /\ key = <<n, "start">> => cmd = NodeTo(n, "running", "none")
       /\ key = <<n, "resume">> => cmd = NodeTo(n, "running", "none")
       /\ key = <<n, "complete">> => cmd = NodeTo(n, "succeeded", "none")
       /\ key = <<n, "approval-request">> => cmd = NodeTo(n, "awaiting_approval", n)
       /\ key = <<n, "release-replay">> =>
            cmd.type = "lease_released" /\ cmd.node = n /\ res[n] # "none"

(* A node that nobody approved is begun after those before it, and does    *)
(* not end; leases are taken for nodes without a result.                   *)
Lawful(cmd, res) ==
  /\ cmd.type # "lease_heartbeat"
  /\ cmd.type = "lease_acquired" => res[cmd.node] = "none"
  /\ cmd.type = "node_transition" =>
       \/ cmd = ApproveNode(cmd.node)
       \/ /\ ~cmd.approved
          /\ Barred(run, cmd.node) =>
               /\ cmd.to \in Waits
               /\ cmd.to = "running" =>
                    /\ run.nodes[cmd.node].state \in {"pending", "cancelled"}
                    /\ \A d \in Deps[cmd.node] : run.nodes[d].state = "succeeded"
                    /\ \E S \in Prefixes : Preceded(S, run, res, cmd.node)

(* The keys are the commands' after the call, too. *)
LEMMA CallOwnKeys ==
  ASSUME run \in Snapshots, NEW cmd \in Commands, NEW key \in Keys, NEW token, NEW res,
         Own(cmd, key, res), OwnKeys(run)
  PROVE  OwnKeys(RunAfter(cmd, key, token))
<1>. DEFINE s == RunAfter(cmd, key, token)
<1>1. \A k \in Keys : s.idem[k] = run.idem[k] \/ (k = key /\ s.idem[k] = cmd)
  BY CallKeys
<1>. HIDE DEF s
<1>2. s.idem[<<"runtime", "resume">>] \in {None, RunTo("running", "none")}
  <2>1. <<"runtime", "resume">> \in Keys
    BY RuntimeKeys
  <2>2. <<"runtime", "resume">> = key => cmd = RunTo("running", "none")
    BY DEF Own
  <2>3. run.idem[<<"runtime", "resume">>] \in {None, RunTo("running", "none")}
    BY DEF OwnKeys
  <2>. QED
    BY <1>1, <2>1, <2>2, <2>3
<1>3. ASSUME NEW n \in Nodes
      PROVE  /\ s.idem[<<n, "start">>] \in {None, NodeTo(n, "running", "none")}
             /\ s.idem[<<n, "resume">>] \in {None, NodeTo(n, "running", "none")}
             /\ s.idem[<<n, "complete">>] \in {None, NodeTo(n, "succeeded", "none")}
             /\ s.idem[<<n, "approval-request">>] \in {None, NodeTo(n, "awaiting_approval", n)}
  <2>. DEFINE Kept(w) == s.idem[<<n, w>>] = run.idem[<<n, w>>]
                           \/ (<<n, w>> = key /\ s.idem[<<n, w>>] = cmd)
  <2>1. Kept("start") /\ Kept("resume") /\ Kept("complete") /\ Kept("approval-request")
    BY <1>1, NodeKeys
  <2>2. /\ <<n, "start">> = key => cmd = NodeTo(n, "running", "none")
        /\ <<n, "resume">> = key => cmd = NodeTo(n, "running", "none")
        /\ <<n, "complete">> = key => cmd = NodeTo(n, "succeeded", "none")
        /\ <<n, "approval-request">> = key => cmd = NodeTo(n, "awaiting_approval", n)
    BY DEF Own
  <2>3. /\ run.idem[<<n, "start">>] \in {None, NodeTo(n, "running", "none")}
        /\ run.idem[<<n, "resume">>] \in {None, NodeTo(n, "running", "none")}
        /\ run.idem[<<n, "complete">>] \in {None, NodeTo(n, "succeeded", "none")}
        /\ run.idem[<<n, "approval-request">>] \in {None, NodeTo(n, "awaiting_approval", n)}
    BY DEF OwnKeys
  <2>. QED
    BY <2>1, <2>2, <2>3
<1>4. OwnKeys(s)
  BY <1>2, <1>3 DEF OwnKeys
<1>. QED
  BY <1>4 DEF s

(* A run that is cancelled takes its nodes along. *)
LEMMA CancelAll ==
  ASSUME run \in Snapshots, NEW cmd \in Commands, NEW key \in Keys, NEW token,
         Recorded(cmd, key), cmd.type = "run_transition", cmd.to = "cancelled",
         NEW n \in Nodes
  PROVE  RunAfter(cmd, key, token).nodes[n].state \in NodeTerminal
<1>. DEFINE s == RunAfter(cmd, key, token)
            e == EventOf(run, cmd, key, now)
<1>1. s = Apply(run, e, token)
  BY DEF RunAfter, Recorded
<1>2. e.cmd = cmd
  BY DEF EventOf
<1>3. s.nodes = NodesAfter(run, e, token)
  BY <1>1 DEF Apply
<1>4. run.nodes \in [Nodes -> NodeSnapshots]
  BY DEF Snapshots
<1>. HIDE DEF s
<1>5. s.nodes[n] = CancelNode(run.nodes[n])
  BY <1>2, <1>3 DEF NodesAfter
<1>6. s.nodes[n].state \in NodeTerminal
  BY <1>4, <1>5 DEF CancelNode, NodeSnapshots, NodeTerminal
<1>. QED
  BY <1>6 DEF s

(* The node's lease, keys and state after the call. *)
LEMMA CallNodeGuarded ==
  ASSUME run \in Snapshots, NEW cmd \in Commands, NEW key \in Keys, NEW token, NEW res,
         Own(cmd, key, res), Lawful(cmd, res), NEW n \in Nodes, NodeGuarded(run, res, n)
  PROVE  NodeGuarded(RunAfter(cmd, key, token), res, n)
<1>. DEFINE s == RunAfter(cmd, key, token)
            new == Recorded(cmd, key)
            rk == <<n, "release-replay">>
            sk == <<n, "start">>
            ak == <<n, "approval-request">>
<1>1. \A k \in Keys : s.idem[k] = IF new /\ k = key THEN cmd ELSE run.idem[k]
  BY CallKeys
<1>2. rk \in Keys /\ sk \in Keys /\ ak \in Keys
  BY NodeKeys
<1>3. Moves(run, s)
  BY CallMoves
<1>4. \/ s.nodes[n].state = run.nodes[n].state
      \/ /\ new /\ cmd.type = "node_transition" /\ cmd.node = n
         /\ s.nodes[n].state = cmd.to
         /\ <<run.nodes[n].state, cmd.to>> \in NodeEdges
      \/ s.nodes[n].state = "cancelled"
  BY CallNodes
<1>5. /\ s.nodes[n].lease = run.nodes[n].lease \/ s.nodes[n].lease = None
              \/ (cmd.type = "lease_acquired" /\ cmd.node = n)
      /\ new /\ cmd.type = "lease_released" /\ cmd.node = n =>
              s.nodes[n].lease = None
  BY CallLeases DEF Lawful
<1>6. new /\ cmd.type = "node_transition" /\ cmd.node = n => s.nodes[n].state = cmd.to
  BY CallMoved
<1>7. new /\ cmd = ApproveNode(n) => ApprovedIn(s, n)
  BY <1>1 DEF ApprovedIn
<1>8. /\ key = rk => cmd.type = "lease_released" /\ cmd.node = n /\ res[n] # "none"
      /\ key = sk => cmd = NodeTo(n, "running", "none")
      /\ key = ak => cmd = NodeTo(n, "awaiting_approval", n)
  BY DEF Own
<1>9. /\ run.idem[rk] # None => run.nodes[n].lease = None /\ res[n] # "none"
      /\ run.idem[sk] # None => run.nodes[n].state # "pending"
  BY DEF NodeGuarded
<1>10. Barred(run, n) =>
       /\ run.nodes[n].state \in Waits
       /\ run.idem[ak] # None => run.nodes[n].state \notin {"pending", "running"}
       /\ \A S \in Prefixes : n \in Layer(S) => \A m \in Nodes \ S : res[m] = "none"
  BY DEF NodeGuarded
<1>. HIDE DEF s, new, rk, sk, ak
<1>11. s.idem[rk] # None => s.nodes[n].lease = None /\ res[n] # "none"
  <2>. SUFFICES ASSUME s.idem[rk] # None
                PROVE  s.nodes[n].lease = None /\ res[n] # "none"
    OBVIOUS
  <2>1. CASE new /\ rk = key
    BY <1>5, <1>8, <2>1
  <2>2. CASE ~(new /\ rk = key)
    <3>1. run.nodes[n].lease = None /\ res[n] # "none"
      BY <1>1, <1>2, <1>9, <2>2
    <3>. QED
      BY <1>5, <3>1 DEF Lawful
  <2>. QED
    BY <2>1, <2>2
<1>12. s.idem[sk] # None => s.nodes[n].state # "pending"
  <2>. SUFFICES ASSUME s.idem[sk] # None PROVE s.nodes[n].state # "pending"
    OBVIOUS
  <2>1. CASE new /\ sk = key
    <3>1. cmd.type = "node_transition" /\ cmd.node = n /\ cmd.to = "running"
      BY <1>8, <2>1 DEF NodeTo
    <3>. QED
      BY <1>6, <2>1, <3>1
  <2>2. CASE ~(new /\ sk = key)
    BY <1>1, <1>2, <1>3, <1>9, <2>2 DEF Moves
  <2>. QED
    BY <2>1, <2>2
<1>13. ASSUME Barred(s, n)
       PROVE  /\ s.nodes[n].state \in Waits
              /\ s.idem[ak] # None => s.nodes[n].state \notin {"pending", "running"}
              /\ Barred(run, n)
              /\ s.nodes[n].state = "running" /\ run.nodes[n].state # "running" =>
                   /\ \A d \in Deps[n] : run.nodes[d].state = "succeeded"
                   /\ \E S \in Prefixes : Preceded(S, run, res, n)
  <2>1. Barred(run, n)
    BY <1>3, <1>13, BarredBefore
  <2>2. ~(new /\ cmd = ApproveNode(n))
    BY <1>7, <1>13 DEF Barred
  <2>3. CASE s.nodes[n].state = run.nodes[n].state
    <3>1. s.idem[ak] # None => s.nodes[n].state \notin {"pending", "running"}
      <4>1. CASE new /\ ak = key
        <5>1. cmd.type = "node_transition" /\ cmd.node = n /\ cmd.to = "awaiting_approval"
          BY <1>8, <4>1 DEF NodeTo
        <5>. QED
          BY <1>6, <4>1, <5>1
      <4>2. CASE ~(new /\ ak = key)
        BY <1>1, <1>2, <1>10, <2>1, <2>3, <4>2
      <4>. QED
        BY <4>1, <4>2
    <3>. QED
      BY <1>10, <2>1, <2>3, <3>1
  <2>4. CASE s.nodes[n].state = "cancelled"
    BY <2>1, <2>4 DEF Waits
  <2>5. CASE /\ new /\ cmd.type = "node_transition" /\ cmd.node = n
             /\ s.nodes[n].state = cmd.to
             /\ <<run.nodes[n].state, cmd.to>> \in NodeEdges
    <3>1. /\ cmd.to \in Waits
          /\ cmd.to = "running" =>
               /\ run.nodes[n].state \in {"pending", "cancelled"}
               /\ \A d \in Deps[n] : run.nodes[d].state = "succeeded"
               /\ \E S \in Prefixes : Preceded(S, run, res, n)
      BY <2>1, <2>2, <2>5 DEF Lawful
    <3>2. cmd.to # "pending"
      BY <2>5 DEF NodeEdges
    <3>3. cmd.to = "running" => run.nodes[n].state = "pending"
      BY <2>5, <3>1 DEF NodeEdges
    <3>4. s.idem[ak] # None => s.nodes[n].state \notin {"pending", "running"}
      <4>1. CASE new /\ ak = key
        <5>1. cmd.to = "awaiting_approval"
          BY <1>8, <4>1 DEF NodeTo
        <5>. QED
          BY <2>5, <5>1
      <4>2. CASE ~(new /\ ak = key)
        BY <1>1, <1>2, <1>10, <2>1, <2>5, <3>2, <3>3, <4>2
      <4>. QED
        BY <4>1, <4>2
    <3>. QED
      BY <2>1, <2>5, <3>1, <3>4
  <2>. QED
    BY <1>4, <2>3, <2>4, <2>5
<1>14. ASSUME Open(s, n)
       PROVE  Cleared(s, n) /\ \E S \in Prefixes : Preceded(S, s, res, n)
  <2>1. Barred(s, n) /\ s.nodes[n].state = "running"
    BY <1>14 DEF Open
  <2>2. Barred(run, n)
    BY <1>13, <2>1
  <2>3. \E S \in Prefixes : Preceded(S, run, res, n)
    <3>1. CASE run.nodes[n].state = "running"
      BY <2>2, <3>1 DEF NodeGuarded, Open
    <3>2. CASE run.nodes[n].state # "running"
      BY <1>13, <2>1, <3>2
    <3>. QED
      BY <3>1, <3>2
  <2>4. \A d \in Deps[n] : run.nodes[d].state = "succeeded"
    <3>1. CASE run.nodes[n].state = "running"
      BY <2>2, <3>1 DEF NodeGuarded, Open, Cleared
    <3>2. CASE run.nodes[n].state # "running"
      BY <1>13, <2>1, <3>2
    <3>. QED
      BY <3>1, <3>2
  <2>5. Deps[n] \subseteq Nodes
    BY GraphAssumption
  <2>6. Cleared(s, n)
    BY <1>3, <2>1, <2>4, <2>5 DEF Cleared, Moves
  <2>. QED
    BY <1>3, <2>3, <2>6, PrecededAfter
<1>15. NodeGuarded(s, res, n)
  BY <1>10, <1>11, <1>12, <1>13, <1>14 DEF NodeGuarded, rk, sk, ak
<1>. QED
  BY <1>15 DEF s

(* A call keeps what the invariant says of the run. *)
LEMMA CallGuarded ==
  ASSUME run \in Snapshots, NEW cmd \in Commands, NEW key \in Keys, NEW token, NEW res,
         Own(cmd, key, res), Lawful(cmd, res), GuardedRun(run, res)
  PROVE  GuardedRun(RunAfter(cmd, key, token), res)
<1>. DEFINE s == RunAfter(cmd, key, token)
<1>1. OwnKeys(s)
  BY CallOwnKeys DEF GuardedRun
<1>2. \A n \in Nodes : NodeGuarded(s, res, n)
  BY CallNodeGuarded DEF GuardedRun
<1>3. ASSUME s.state = None, NEW n \in Nodes PROVE s.nodes[n].state = "pending"
  <2>1. s.state = run.state \/ s.state = "created" \/ <<run.state, s.state>> \in RunEdges
    BY CallState
  <2>2. s.nodes[n].state = run.nodes[n].state \/ run.state # None \/ s.state = "cancelled"
    BY CallNodes
  <2>. HIDE DEF s
  <2>3. run.state = None
    BY <1>3, <2>1, NoneAssumption DEF RunEdges, RunStates
  <2>4. run.nodes[n].state = "pending"
    BY <2>3 DEF GuardedRun
  <2>5. s.state # "cancelled"
    BY <1>3, NoneAssumption DEF RunStates
  <2>. QED
    BY <2>2, <2>3, <2>4, <2>5
<1>4. ASSUME s.state = "cancelled", NEW n \in Nodes
      PROVE  s.nodes[n].state \in NodeTerminal
  <2>1. CASE run.state = "cancelled"
    <3>1. run.nodes[n].state \in NodeTerminal
      BY <2>1 DEF GuardedRun
    <3>. QED
      BY <3>1, CallNodes DEF NodeTerminal, NodeEdges
  <2>2. CASE run.state # "cancelled"
    <3>1. /\ Recorded(cmd, key) /\ cmd.type = "run_transition" /\ cmd.to = "cancelled"
      BY <1>4, <2>2, CallState
    <3>. QED
      BY <3>1, CancelAll
  <2>. QED
    BY <2>1, <2>2
<1>. HIDE DEF s
<1>5. GuardedRun(s, res)
  BY <1>1, <1>2, <1>3, <1>4 DEF GuardedRun
<1>. QED
  BY <1>5 DEF s

-----------------------------------------------------------------------------
(* What a call leaves alone. *)

(* But for the nodes of M nothing begins, succeeds or opens; a run that is *)
(* cancelled takes its nodes along.                                        *)
Still(r, s, M) ==
  /\ Moves(r, s)
  /\ \A n \in Nodes \ M :
       /\ s.nodes[n].state = "succeeded" => r.nodes[n].state = "succeeded"
       /\ r.nodes[n].state = "pending" =>
            s.nodes[n].state = "pending" \/ s.state = "cancelled"
       /\ Open(s, n) => Open(r, n)

(* An approval is for a node that waits for it. *)
LEMMA CallApproved ==
  ASSUME run \in Snapshots, NEW key, NEW n \in Nodes, Recorded(ApproveNode(n), key)
  PROVE  ApproveNode(n).to = "running" /\ run.nodes[n].state = "awaiting_approval"
<1>. DEFINE cmd == ApproveNode(n)
<1>1. /\ cmd.type = "node_transition" /\ cmd.node = n /\ cmd.to = "running"
      /\ cmd.approved = TRUE
  BY DEF ApproveNode, NodeTo
<1>2. Permits(run, cmd, now)
  BY DEF Recorded, Answer
<1>. HIDE DEF cmd
<1>3. NodeMove(run, cmd)
  BY <1>1, <1>2 DEF Permits
<1>4. run.nodes[n].state = "awaiting_approval"
  BY <1>1, <1>3 DEF NodeMove
<1>. QED
  BY <1>1, <1>4 DEF cmd

(* A command moves its own node only. *)
LEMMA CallStill ==
  ASSUME run \in Snapshots, NEW cmd \in Commands, NEW key \in Keys, NEW token, NEW M,
         cmd.type = "node_transition" => cmd.node \in M \/ cmd = ApproveNode(cmd.node)
  PROVE  Still(run, RunAfter(cmd, key, token), M)
<1>. DEFINE s == RunAfter(cmd, key, token)
<1>1. Moves(run, s)
  BY CallMoves
<1>2. ASSUME NEW n \in Nodes \ M
      PROVE  /\ s.nodes[n].state = "succeeded" => run.nodes[n].state = "succeeded"
             /\ run.nodes[n].state = "pending" =>
                  s.nodes[n].state = "pending" \/ s.state = "cancelled"
             /\ Open(s, n) => Open(run, n)
  <2>0. n \in Nodes
    OBVIOUS
  <2>1. \/ s.nodes[n].state = run.nodes[n].state
        \/ /\ Recorded(cmd, key) /\ cmd.type = "node_transition" /\ cmd.node = n
           /\ s.nodes[n].state = cmd.to
        \/ s.state = "cancelled" /\ s.nodes[n].state = "cancelled"
    BY ZenonT(40), <2>0, CallNodes
  <2>2. Barred(s, n) => Barred(run, n)
    BY <1>1, <2>0, BarredBefore
  <2>3. \A k \in Keys : s.idem[k] = IF Recorded(cmd, key) /\ k = key
                                      THEN cmd ELSE run.idem[k]
    BY CallKeys
  <2>. HIDE DEF s
  <2>4. CASE s.nodes[n].state = run.nodes[n].state
    BY <2>2, <2>4 DEF Open
  <2>5. CASE s.state = "cancelled" /\ s.nodes[n].state = "cancelled"
    BY <2>5 DEF Open
  <2>6. CASE /\ Recorded(cmd, key) /\ cmd.type = "node_transition" /\ cmd.node = n
             /\ s.nodes[n].state = cmd.to
    <3>1. cmd = ApproveNode(n)
      BY <1>2, <2>6
    <3>2. cmd.to = "running" /\ run.nodes[n].state = "awaiting_approval"
      BY <2>0, <2>6, <3>1, CallApproved
    <3>3. s.idem[key] = cmd
      BY <2>3, <2>6
    <3>4. ApprovedIn(s, n)
      BY <3>1, <3>3 DEF ApprovedIn
    <3>. QED
      BY <2>6, <3>2, <3>4 DEF Open, Barred
  <2>. QED
    BY <2>1, <2>4, <2>5, <2>6
<1>. HIDE DEF s
<1>3. Still(run, s, M)
  BY <1>1, <1>2 DEF Still
<1>. QED
  BY <1>3 DEF s

(* Only a node's start opens one. *)
LEMMA CallOpens ==
  ASSUME run \in Snapshots, NEW cmd \in Commands, NEW key \in Keys, NEW token, NEW n \in Nodes,
         cmd.type = "node_transition" => cmd.to # "running", Open(RunAfter(cmd, key, token), n)
  PROVE  Open(run, n)
<1>. DEFINE s == RunAfter(cmd, key, token)
<1>1. Moves(run, s)
  BY CallMoves
<1>2. \/ s.nodes[n].state = run.nodes[n].state
      \/ cmd.type = "node_transition" /\ s.nodes[n].state = cmd.to
      \/ s.nodes[n].state = "cancelled"
  BY CallNodes
<1>3. Open(s, n)
  OBVIOUS
<1>. HIDE DEF s
<1>4. Barred(run, n)
  BY <1>1, <1>3, BarredBefore DEF Open
<1>. QED
  BY <1>2, <1>3, <1>4 DEF Open

(* Nothing moves. *)
LEMMA StillRefl == ASSUME NEW r, NEW M PROVE Still(r, r, M)
  BY DEF Still, Moves

(* Calls that open nothing. *)
LEMMA CallNoneOpen ==
  ASSUME run \in Snapshots, NEW cmd \in Commands, NEW key \in Keys, NEW token,
         cmd.type = "node_transition" => cmd.to # "running", NoneOpen(run)
  PROVE  NoneOpen(RunAfter(cmd, key, token))
  BY CallOpens DEF NoneOpen

-----------------------------------------------------------------------------
(* When no node is open. *)

(* A file other than a success lies in the way of every open node. *)
LEMMA FileBars ==
  ASSUME NEW r, NEW res, GuardedRun(r, res), NEW m \in Nodes, res[m] \notin {"none", "succeeded"}
  PROVE  NoneOpen(r)
<1>. SUFFICES ASSUME NEW n \in Nodes, Open(r, n) PROVE FALSE
  BY DEF NoneOpen
<1>1. NodeGuarded(r, res, n) /\ Barred(r, n)
  BY DEF GuardedRun, Open
<1>2. PICK S \in Prefixes : Preceded(S, r, res, n)
  BY <1>1 DEF NodeGuarded
<1>3. n \in Layer(S) /\ \A d \in S : res[d] = "succeeded"
  BY <1>2 DEF Preceded
<1>4. \A d \in Nodes \ S : res[d] = "none"
  BY <1>1, <1>3 DEF NodeGuarded
<1>. QED
  BY <1>3, <1>4

(* An open node belongs to the first layer without its files. *)
LEMMA OpenLayer ==
  ASSUME NEW r, NEW res, GuardedRun(r, res), NEW past \in Prefixes,
         \A d \in past : res[d] = "succeeded",
         NEW m \in Layer(past), res[m] # "succeeded", NEW n \in Nodes, Open(r, n)
  PROVE  n \in Layer(past) /\ Preceded(past, r, res, n) /\ Cleared(r, n) /\ res[n] = "none"
<1>1. NodeGuarded(r, res, n) /\ Barred(r, n)
  BY DEF GuardedRun, Open
<1>2. PICK S \in Prefixes : Preceded(S, r, res, n)
  BY <1>1 DEF NodeGuarded
<1>3. n \in Layer(S) /\ \A d \in S : res[d] = "succeeded"
  BY <1>2 DEF Preceded
<1>4. res[n] = "none"
  BY <1>1, <1>3 DEF NodeGuarded, Layer
<1>5. S = past
  BY <1>3, <1>4, SameOrEarlier
<1>. QED
  BY <1>1, <1>2, <1>3, <1>4, <1>5 DEF NodeGuarded

(* Files of a layer that is barred do not exist. *)
LEMMA BarredNoFile ==
  ASSUME NEW r, NEW res, GuardedRun(r, res), NEW past \in Prefixes,
         NEW n \in Layer(past), Barred(r, n), NEW m \in Nodes \ past
  PROVE  res[m] = "none"
<1>1. n \in Nodes
  BY DEF Layer
<1>. QED
  BY <1>1 DEF GuardedRun, NodeGuarded

(* When the process stands at a node without a result: that node has been  *)
(* begun, and is the open one or free to go on.                            *)
LEMMA OpenHere ==
  ASSUME NEW r, NEW res, GuardedRun(r, res), NEW a, a.past \in Prefixes, Passing(a, r, res),
         \A d \in a.past : res[d] = "succeeded",
         a.pos \in 1..Len(Order), Order[a.pos] \in Layer(a.past),
         res[Order[a.pos]] # "succeeded", NEW n \in Nodes, Open(r, n)
  PROVE  Cleared(r, Order[a.pos]) /\ (n = Order[a.pos] \/ ~Barred(r, Order[a.pos]))
<1>1. n \in Layer(a.past) /\ Preceded(a.past, r, res, n) /\ Cleared(r, n) /\ res[n] = "none"
  BY OpenLayer
<1>2. PICK k \in 1..Len(Order) : Order[k] = n
  BY GraphAssumption
<1>3. CASE k < a.pos
  <2>1. ~Barred(r, n)
    BY <1>1, <1>2, <1>3 DEF Passing
  <2>. QED
    BY <2>1 DEF Open
<1>4. CASE k = a.pos
  BY <1>1, <1>2, <1>4
<1>5. CASE a.pos < k
  BY <1>1, <1>2, <1>5 DEF Preceded
<1>6. Len(Order) \in Nat
  BY OrderNodes
<1>. QED
  BY <1>3, <1>4, <1>5, <1>6

-----------------------------------------------------------------------------
(* Places. *)

(* What the process remembers stays good. *)
LEMMA RecalledAfter ==
  ASSUME NEW a, NEW r, NEW s, Moves(r, s), Recalled(a, r), NEW b, b.cur = a.cur
  PROVE  Recalled(b, s)
<1>1. \A n \in Nodes : Barred(s, n) => Barred(r, n)
  BY BarredBefore
<1>. QED
  BY <1>1 DEF Recalled, Moves

(* What it just read is good. *)
LEMMA RecalledRead ==
  ASSUME NEW r, NEW res, GuardedRun(r, res), NEW b, b.cur = StatesOf(r)
  PROVE  Recalled(b, r)
<1>1. \A n \in Nodes : b.cur[n] = r.nodes[n].state
  BY DEF StatesOf
<1>2. \A n \in Nodes : Barred(r, n) => r.nodes[n].state \in Waits
  BY DEF GuardedRun, NodeGuarded
<1>. QED
  BY <1>1, <1>2 DEF Recalled

(* Steps outside the layers. *)
Outside == {"idle", "load", "create", "manifest", "manifest-end", "start", "layer"}

(* Outside the layers it is enough that past and memory are right. *)
LEMMA AtOutside ==
  ASSUME NEW b, NEW r, NEW res, b.pc \in Outside, b.past \in Prefixes, Recalled(b, r)
  PROVE  GuardedAt(b, r, res)
<1>1. /\ b.pc \notin Scanning \cup Settles \cup AtGate \cup Replaying
      /\ ~Quiet(b) /\ b.pc # "failing"
  BY DEF Outside, Scanning, Settles, AtGate, Replaying, Quiet
<1>2. Facing(b, r) /\ Working(b, r, res)
  BY <1>1 DEF Facing, Working, Scanning, AtGate, Replaying
<1>. QED
  BY <1>1, <1>2 DEF GuardedAt

(* When no node is open execute may end anywhere. *)
LEMMA AtEnd ==
  ASSUME NEW b, NEW r, NEW res, b.pc \in {"sweep", "sweeping", "error", "complete"},
         b.past \in Prefixes, Recalled(b, r), NoneOpen(r)
  PROVE  GuardedAt(b, r, res)
<1>1. b.pc \notin Scanning \cup Settles \cup AtGate \cup Replaying /\ b.pc # "failing"
  BY DEF Scanning, Settles, AtGate, Replaying
<1>2. Facing(b, r) /\ Working(b, r, res)
  BY <1>1 DEF Facing, Working, Scanning, AtGate, Replaying
<1>. QED
  BY <1>1, <1>2 DEF GuardedAt

(* A process that has returned. *)
LEMMA AtReturn ==
  ASSUME NEW answer, NEW r, NEW res PROVE GuardedAt(Return(answer), r, res)
<1>. DEFINE b == Return(answer)
<1>1. b.pc = "idle" /\ b.past = {} /\ b.cur = StatesOf(NoRun)
  BY DEF Return, Idle
<1>. HIDE DEF b
<1>2. \A n \in Nodes : b.cur[n] = "pending"
  BY <1>1 DEF StatesOf, NoRun
<1>3. Recalled(b, r)
  BY <1>2 DEF Recalled, Waits
<1>4. b.pc \in Outside /\ b.past \in Prefixes
  BY <1>1, PrefixesClosed DEF Outside
<1>5. GuardedAt(b, r, res)
  BY <1>3, <1>4, AtOutside
<1>. QED
  BY <1>5 DEF b

(* A process in the except clause. *)
LEMMA AtRaise ==
  ASSUME NEW p, at[p] \in Places, NEW cause, NEW r, NEW res, GuardedAt(at[p], r, res), NoneOpen(r)
  PROVE  GuardedAt(Raise(p, cause), r, res)
<1>. DEFINE b == Raise(p, cause)
<1>1. b.pc = "error" /\ b.past = at[p].past /\ b.cur = at[p].cur
  BY DEF Raise, Places
<1>2. Moves(r, r)
  BY DEF Moves
<1>. HIDE DEF b
<1>3. Recalled(b, r)
  BY <1>1, <1>2, RecalledAfter DEF GuardedAt
<1>4. GuardedAt(b, r, res)
  BY <1>1, <1>3, AtEnd DEF GuardedAt
<1>. QED
  BY <1>4 DEF b

(* A process that goes on outside the layers. *)
LEMMA AtGoto ==
  ASSUME NEW p, at[p] \in Places, NEW r, NEW s, Moves(r, s), NEW res, NEW res2,
         GuardedAt(at[p], r, res), NEW step \in Outside
  PROVE  GuardedAt(Goto(p, step), s, res2)
<1>. DEFINE b == Goto(p, step)
<1>1. b.pc = step /\ b.past = at[p].past /\ b.cur = at[p].cur
  BY DEF Goto, Places
<1>. HIDE DEF b
<1>2. Recalled(b, s)
  BY <1>1, RecalledAfter DEF GuardedAt
<1>3. GuardedAt(b, s, res2)
  BY <1>1, <1>2, AtOutside DEF GuardedAt
<1>. QED
  BY <1>3 DEF b

(* A node of the layer under scan. *)
LEMMA AtScan ==
  ASSUME NEW b, NEW r, NEW res, b.pc \in {"scan", "begin", "gate", "ask"} \cup Replaying,
         b.past \in Prefixes, Recalled(b, r), Passing(b, r, res), Facing(b, r),
         \A i \in 1..Len(b.ready) : b.ready[i] \in Layer(b.past)
  PROVE  GuardedAt(b, r, res)
<1>1. b.pc \notin Settles \cup {"work", "failing"} /\ ~Quiet(b)
  BY DEF Settles, Replaying, Quiet
<1>2. Working(b, r, res)
  BY <1>1 DEF Working
<1>. QED
  BY <1>1, <1>2 DEF GuardedAt

(* The layer under scan, while the node at hand moves. *)
LEMMA PassingAfter ==
  ASSUME NEW a, NEW b, NEW r, NEW s, NEW res, Passing(a, r, res),
         a.pos \in 1..Len(Order), Order[a.pos] \in Layer(a.past), a.past \in SUBSET Nodes,
         Still(r, s, {Order[a.pos]}), b.past = a.past, b.pos = a.pos,
         \A n \in Nodes : n # Order[a.pos] => b.cur[n] = a.cur[n],
         b.pc \notin {"scan", "begin"}
  PROVE  Passing(b, s, res)
<1>0. Moves(r, s)
  BY DEF Still
<1>1. ASSUME NEW d \in b.past, s.nodes[d].state = "succeeded"
      PROVE  b.cur[d] = "succeeded"
  <2>1. d \in Nodes /\ d # Order[a.pos]
    BY <1>1 DEF Layer
  <2>2. r.nodes[d].state = "succeeded"
    BY <1>1, <2>1 DEF Still
  <2>3. a.cur[d] = "succeeded"
    BY <1>1, <2>2 DEF Passing
  <2>. QED
    BY <2>1, <2>3
<1>2. ASSUME NEW k \in 1..Len(Order), k < b.pos, Order[k] \in Layer(b.past),
             res[Order[k]] = "none"
      PROVE  Cleared(s, Order[k]) /\ ~Barred(s, Order[k])
  <2>1. Order[k] \in Nodes
    BY OrderNodes
  <2>2. Cleared(r, Order[k]) /\ ~Barred(r, Order[k])
    BY <1>2 DEF Passing
  <2>. QED
    BY <1>0, <2>1, <2>2, ClearedAfter, BarredBefore
<1>3. ASSUME NEW k \in 1..Len(Order), k > b.pos, b.cur[Order[k]] = "pending"
      PROVE  s.nodes[Order[k]].state = "pending" \/ s.state = "cancelled"
  <2>1. Order[k] \in Nodes
    BY OrderNodes
  <2>0. k # a.pos
    BY <1>3
  <2>2. Order[k] # Order[a.pos]
    BY <2>0, GraphAssumption
  <2>3. r.nodes[Order[k]].state = "pending" \/ r.state = "cancelled"
    BY <1>3, <2>1, <2>2 DEF Passing
  <2>4. r.state = "cancelled" => s.state = "cancelled"
    BY <1>0 DEF Moves
  <2>. QED
    BY <2>1, <2>2, <2>3, <2>4 DEF Still
<1>. QED
  BY <1>1, <1>2, <1>3 DEF Passing

(* The next node, once the one at hand is of another layer, has a result   *)
(* or went through its gate.                                               *)
LEMMA PassingNext ==
  ASSUME NEW a, NEW b, NEW r, NEW res, Passing(a, r, res), a.pos \in Nat,
         b.past = a.past, b.cur = a.cur, b.pos = a.pos + 1,
         Order[a.pos] \in Layer(a.past) /\ res[Order[a.pos]] = "none" =>
           Cleared(r, Order[a.pos]) /\ ~Barred(r, Order[a.pos])
  PROVE  Passing(b, r, res)
<1>0. Len(Order) \in Nat
  BY OrderNodes
<1>1. ASSUME NEW k \in 1..Len(Order), k < b.pos, Order[k] \in Layer(b.past),
             res[Order[k]] = "none"
      PROVE  Cleared(r, Order[k]) /\ ~Barred(r, Order[k])
  <2>1. k < a.pos \/ k = a.pos
    BY <1>0, <1>1
  <2>. QED
    BY <1>1, <2>1 DEF Passing
<1>2. ASSUME NEW k \in 1..Len(Order), k > b.pos \/ k = b.pos, b.cur[Order[k]] = "pending"
      PROVE  r.nodes[Order[k]].state = "pending" \/ r.state = "cancelled"
  <2>1. k > a.pos
    BY <1>0, <1>2
  <2>. QED
    BY <1>2, <2>1 DEF Passing
<1>3. \A d \in b.past : r.nodes[d].state = "succeeded" => b.cur[d] = "succeeded"
  BY DEF Passing
<1>. QED
  BY <1>1, <1>2, <1>3 DEF Passing

(* On to the next node. *)
LEMMA AtNext ==
  ASSUME NEW p, at[p] \in Places, NEW r, NEW res, at[p].past \in Prefixes,
         Recalled(at[p], r), Passing(at[p], r, res),
         \A i \in 1..Len(at[p].ready) : at[p].ready[i] \in Layer(at[p].past),
         Node(p) \in Layer(at[p].past) /\ res[Node(p)] = "none" =>
           Cleared(r, Node(p)) /\ ~Barred(r, Node(p))
  PROVE  GuardedAt(NextNode(p), r, res)
<1>. DEFINE b == NextNode(p)
<1>1. /\ b.pc = "scan" /\ b.past = at[p].past /\ b.cur = at[p].cur
      /\ b.ready = at[p].ready /\ b.pos = at[p].pos + 1 /\ at[p].pos \in Nat
  BY DEF NextNode, Places
<1>. HIDE DEF b
<1>2. Moves(r, r)
  BY DEF Moves
<1>3. Recalled(b, r)
  BY <1>1, <1>2, RecalledAfter
<1>4. Passing(b, r, res)
  BY <1>1, PassingNext DEF Node
<1>5. Facing(b, r)
  BY <1>1 DEF Facing, AtGate, Replaying
<1>6. GuardedAt(b, r, res)
  BY <1>1, <1>3, <1>4, <1>5, AtScan
<1>. QED
  BY <1>6 DEF b

(* Wherever the process is, others' calls do not disturb it. *)
LEMMA AtStill ==
  ASSUME NEW a, a \in Places, NEW r, NEW s, NEW res, GuardedAt(a, r, res), Still(r, s, {})
  PROVE  GuardedAt(a, s, res)
<1>0. Moves(r, s) /\ \A n \in Nodes : Barred(s, n) => Barred(r, n)
  BY BarredBefore DEF Still
<1>1. Recalled(a, s)
  BY <1>0, RecalledAfter DEF GuardedAt
<1>2. \A n \in Nodes : Open(s, n) => Open(r, n)
  BY DEF Still
<1>3. Quiet(a) => NoneOpen(s)
  BY <1>2 DEF GuardedAt, NoneOpen
<1>4. ASSUME Passing(a, r, res) PROVE Passing(a, s, res)
  <2>1. \A d \in a.past : s.nodes[d].state = "succeeded" => a.cur[d] = "succeeded"
    <3>1. a.past \subseteq Nodes
      BY DEF Places
    <3>. QED
      BY <1>4, <3>1 DEF Still, Passing
  <2>2. ASSUME NEW k \in 1..Len(Order), k < a.pos, Order[k] \in Layer(a.past),
               res[Order[k]] = "none"
        PROVE  Cleared(s, Order[k]) /\ ~Barred(s, Order[k])
    <3>1. Order[k] \in Nodes
      BY OrderNodes
    <3>2. Cleared(r, Order[k]) /\ ~Barred(r, Order[k])
      BY <1>4, <2>2 DEF Passing
    <3>. QED
      BY <1>0, <3>1, <3>2, ClearedAfter
  <2>3. ASSUME NEW k \in 1..Len(Order),
               k > a.pos \/ (k = a.pos /\ a.pc \in {"scan", "begin"}),
               a.cur[Order[k]] = "pending"
        PROVE  s.nodes[Order[k]].state = "pending" \/ s.state = "cancelled"
    <3>1. Order[k] \in Nodes
      BY OrderNodes
    <3>2. r.nodes[Order[k]].state = "pending" \/ r.state = "cancelled"
      BY <1>4, <2>3 DEF Passing
    <3>. QED
      BY <1>0, <3>1, <3>2 DEF Still, Moves
  <2>. QED
    BY <2>1, <2>2, <2>3 DEF Passing
<1>5. a.pc \in Scanning => Passing(a, s, res)
  BY <1>4 DEF GuardedAt
<1>6. Facing(a, s)
  BY <1>2 DEF GuardedAt, Facing
<1>7. Working(a, s, res)
  <2>1. Layer(a.past) \subseteq Nodes
    BY DEF Layer
  <2>. QED
    BY <1>0, <2>1 DEF GuardedAt, Working
<1>8. a.pc = "failing" => \A n \in Nodes : Barred(s, n) => a.cur[n] # "running"
  BY <1>0 DEF GuardedAt
<1>. QED
  BY <1>1, <1>3, <1>5, <1>6, <1>7, <1>8 DEF GuardedAt

-----------------------------------------------------------------------------
(* Steps. *)

(* What the invariants say of one process. *)
LEMMA GuardHere ==
  ASSUME NativeInv, FilesInv, ApprovalInv, NEW p \in Procs
  PROVE  /\ run \in Snapshots /\ at[p] \in Places /\ PlaceOK(at[p], run)
         /\ Walk(at[p], thr[p], result)
         /\ GuardedRun(run, result) /\ GuardedAt(at[p], run, result)
         /\ at[p].past \in Prefixes /\ Recalled(at[p], run)
  BY Here, WalkHere DEF ApprovalInv, GuardedAt

(* A step of the only process. *)
LEMMA GuardStep ==
  ASSUME Solo, NativeInv, NEW p \in Procs, NEW a, at' = [at EXCEPT ![p] = a],
         GuardedRun(run', result'), GuardedAt(a, run', result')
  PROVE  ApprovalInv'
<1>1. at'[p] = a
  BY DEF NativeInv, Globals
<1>2. ApprovalInv' = (/\ GuardedRun(run', result')
                      /\ \A q \in Procs : GuardedAt(at'[q], run', result'))
  BY DEF ApprovalInv
<1>. QED
  BY <1>1, <1>2 DEF Solo

(* A step that leaves the run and the files. *)
LEMMA GuardLocal ==
  ASSUME Solo, NativeInv, ApprovalInv, NEW p \in Procs, NEW a,
         at' = [at EXCEPT ![p] = a], run' = run, result' = result,
         GuardedAt(a, run, result)
  PROVE  ApprovalInv'
<1>1. GuardedRun(run', result') /\ GuardedAt(a, run', result')
  BY DEF ApprovalInv
<1>. QED
  BY <1>1, GuardStep

(* A step with one call. *)
LEMMA GuardCall ==
  ASSUME Solo, NativeInv, ApprovalInv, NEW p \in Procs, NEW cmd \in Commands,
         NEW key \in Keys, NEW taken, NEW refused, Call(p, cmd, key, taken, refused),
         UNCHANGED Rest, Own(cmd, key, result), Lawful(cmd, result),
         Taken(cmd, key) => GuardedAt(taken, RunAfter(cmd, key, 0), result),
         ~Taken(cmd, key) => GuardedAt(refused, run, result)
  PROVE  ApprovalInv'
<1>. DEFINE a == IF Taken(cmd, key) THEN taken ELSE refused
            s == RunAfter(cmd, key, 0)
<1>1. run' = s /\ at' = [at EXCEPT ![p] = a] /\ result' = result
  BY DEF Call, Rest, Files
<1>2. run \in Snapshots /\ GuardedRun(run, result)
  BY Here DEF ApprovalInv
<1>3. GuardedRun(s, result)
  BY <1>2, CallGuarded
<1>4. ~Taken(cmd, key) => s = run
  BY DEF Taken, RunAfter
<1>5. GuardedAt(a, s, result)
  <2>1. CASE Taken(cmd, key)
    BY <2>1
  <2>2. CASE ~Taken(cmd, key)
    BY <1>4, <2>2
  <2>. QED
    BY <2>1, <2>2
<1>. HIDE DEF a, s
<1>6. GuardedRun(run', result') /\ GuardedAt(a, run', result')
  BY <1>1, <1>3, <1>5
<1>. QED
  BY <1>1, <1>6, GuardStep

(* The same in the try block. *)
LEMMA GuardCallAt ==
  ASSUME Solo, NativeInv, ApprovalInv, NEW p \in Procs, NEW cmd \in Commands,
         NEW key \in Keys, NEW taken, NEW step, CallAt(step, p, cmd, key, taken),
         Own(cmd, key, result), Lawful(cmd, result),
         Taken(cmd, key) => GuardedAt(taken, RunAfter(cmd, key, 0), result),
         ~Taken(cmd, key) => NoneOpen(run)
  PROVE  ApprovalInv'
<1>1. /\ Call(p, cmd, key, taken, Raise(p, Answer(cmd, key)))
      /\ UNCHANGED Rest
  BY DEF CallAt
<1>2. ~Taken(cmd, key) => GuardedAt(Raise(p, Answer(cmd, key)), run, result)
  BY Here, AtRaise DEF ApprovalInv
<1>. QED
  BY <1>1, <1>2, GuardCall

(* The run's keys belong to no node. *)
LEMMA RuntimeOwn ==
  ASSUME NEW cmd, NEW res, NEW w, w = "resume" => cmd = RunTo("running", "none")
  PROVE  Own(cmd, <<"runtime", w>>, res)
  BY NamesAssumption DEF Own

(* Nor do the operator's. *)
LEMMA OperatorOwn ==
  ASSUME NEW cmd, NEW res, NEW k PROVE Own(cmd, <<"operator", k>>, res)
  BY NamesAssumption DEF Own

(* A node's keys belong to that node. *)
LEMMA NodeOwn ==
  ASSUME NEW cmd, NEW res, NEW n \in Nodes, NEW w,
         w \in {"start", "resume"} => cmd = NodeTo(n, "running", "none"),
         w = "complete" => cmd = NodeTo(n, "succeeded", "none"),
         w = "approval-request" => cmd = NodeTo(n, "awaiting_approval", n),
         w = "release-replay" =>
            cmd.type = "lease_released" /\ cmd.node = n /\ res[n] # "none"
  PROVE  Own(cmd, <<n, w>>, res)
<1>1. n # "runtime"
  BY NamesAssumption
<1>2. \A m, v : <<n, w>> = <<m, v>> => m = n /\ v = w
  OBVIOUS
<1>. QED
  BY <1>1, <1>2 DEF Own

(* Keys of three parts are none of these. *)
LEMMA TripleOwn ==
  ASSUME NEW cmd, NEW res, NEW n, NEW w, NEW k
  PROVE  Own(cmd, <<n, w, k>>, res)
<1>1. \A m, v : <<n, w, k>> # <<m, v>>
  OBVIOUS
<1>. QED
  BY <1>1 DEF Own

(* Calls that speak of no node's state are lawful, *)
LEMMA OtherLawful ==
  ASSUME NEW cmd, NEW res,
         cmd.type \notin {"lease_heartbeat", "lease_acquired", "node_transition"}
  PROVE  Lawful(cmd, res)
  BY DEF Lawful

(* the parts of a run transition *)
LEMMA RunToFields ==
  ASSUME NEW state, NEW reason
  PROVE  RunTo(state, reason).type = "run_transition" /\ RunTo(state, reason).to = state
  BY DEF RunTo

(* and of a node's, *)
LEMMA NodeToFields ==
  ASSUME NEW n, NEW state, NEW reason
  PROVE  LET cmd == NodeTo(n, state, reason) IN
         /\ cmd.type = "node_transition" /\ cmd.node = n /\ cmd.to = state
         /\ cmd.approved = FALSE
  BY DEF NodeTo

(* run transitions, *)
LEMMA RunToLawful ==
  ASSUME NEW state, NEW reason, NEW res PROVE Lawful(RunTo(state, reason), res)
  BY RunToFields, OtherLawful

(* and what ends a node that is not barred or keeps it waiting. *)
LEMMA NodeToLawful ==
  ASSUME NEW n \in Nodes, NEW state, NEW reason, NEW res,
         Barred(run, n) => state \in Waits /\ state # "running"
  PROVE  Lawful(NodeTo(n, state, reason), res)
<1>. DEFINE cmd == NodeTo(n, state, reason)
<1>1. /\ cmd.type = "node_transition" /\ cmd.node = n /\ cmd.to = state
      /\ cmd.approved = FALSE
  BY DEF NodeTo
<1>. HIDE DEF cmd
<1>2. Lawful(cmd, res)
  BY <1>1 DEF Lawful
<1>. QED
  BY <1>2 DEF cmd

(* Execute keeps the invariant.  (execute) *)
LEMMA ExecuteGuard ==
  ASSUME Solo, NativeInv, FilesInv, ApprovalInv, NEW p \in Procs, NEW resume,
         Execute(p, resume)
  PROVE  ApprovalInv'
<1>. DEFINE b == [Idle EXCEPT !.pc = "load", !.resume = resume]
            c == Return("none")
<1>1. /\ at' = [at EXCEPT ![p] = b] /\ run' = run /\ result' = result
  BY DEF Execute, Rest, Files
<1>2. b.pc = "load" /\ b.past = {} /\ b.cur = c.cur
  BY DEF Return, Idle
<1>3. GuardedAt(c, run, result)
  BY AtReturn
<1>. HIDE DEF b, c
<1>4. b.pc \in Outside /\ b.past \in Prefixes
  BY <1>2, PrefixesClosed DEF Outside
<1>5. Moves(run, run) /\ Recalled(c, run)
  BY <1>3 DEF Moves, GuardedAt
<1>6. Recalled(b, run)
  BY <1>2, <1>5, RecalledAfter
<1>7. GuardedAt(b, run, result)
  BY <1>4, <1>6, AtOutside
<1>. QED
  BY <1>1, <1>7, GuardLocal

(* Where execute goes from the run's state. *)
LEMMA AtDispatch ==
  ASSUME NEW p, at[p] \in Places, NEW r, NEW res, GuardedAt(at[p], r, res), NEW state
  PROVE  GuardedAt(Dispatch(p, state), r, res)
<1>0. Moves(r, r) /\ "layer" \in Outside /\ "start" \in Outside
  BY DEF Moves, Outside
<1>1. GuardedAt(Goto(p, "layer"), r, res) /\ GuardedAt(Goto(p, "start"), r, res)
  BY <1>0, AtGoto
<1>2. \A answer : GuardedAt(Return(answer), r, res)
  BY AtReturn
<1>3. CASE state = "completed"
  <2>1. \E answer : Dispatch(p, state) = Return(answer)
    BY <1>3 DEF Dispatch
  <2>. QED
    BY <1>2, <2>1
<1>4. CASE state = "awaiting_approval"
  BY <1>2, <1>4 DEF Dispatch
<1>5. CASE state = "cancelled"
  BY <1>2, <1>5 DEF Dispatch
<1>6. CASE state = "running"
  BY <1>1, <1>6 DEF Dispatch
<1>7. CASE state \notin {"completed", "awaiting_approval", "cancelled", "running"}
  BY <1>1, <1>7 DEF Dispatch
<1>. QED
  BY <1>3, <1>4, <1>5, <1>6, <1>7

(* Load keeps the invariant.  (_load_or_create) *)
LEMMA LoadGuard ==
  ASSUME Solo, NativeInv, FilesInv, ApprovalInv, NEW p \in Procs, Load(p)
  PROVE  ApprovalInv'
<1>. DEFINE b == IF run.state = None
                   THEN IF at[p].resume THEN Return("raised") ELSE Goto(p, "create")
                   ELSE IF manifest = "ok" THEN Dispatch(p, run.state)
                                           ELSE Return("raised")
<1>1. at' = [at EXCEPT ![p] = b] /\ run' = run /\ result' = result
  BY DEF Load, Rest, Files
<1>2. at[p] \in Places /\ GuardedAt(at[p], run, result)
  BY GuardHere
<1>3. Moves(run, run) /\ "create" \in Outside
  BY DEF Moves, Outside
<1>4. GuardedAt(Return("raised"), run, result) /\ GuardedAt(Goto(p, "create"), run, result)
  BY <1>2, <1>3, AtReturn, AtGoto
<1>5. GuardedAt(Dispatch(p, run.state), run, result)
  BY <1>2, AtDispatch
<1>6. GuardedAt(b, run, result)
  BY <1>4, <1>5
<1>. HIDE DEF b
<1>. QED
  BY <1>1, <1>6, GuardLocal

(* Create keeps the invariant.  (_load_or_create) *)
LEMMA CreateGuard ==
  ASSUME Solo, NativeInv, FilesInv, ApprovalInv, NEW p \in Procs, Create(p)
  PROVE  ApprovalInv'
<1>. DEFINE cmd == [type |-> "run_created"]
            key == <<"runtime", "create">>
            s   == RunAfter(cmd, key, 0)
            b   == [at[p] EXCEPT !.pc = "manifest", !.st = RunAfter(cmd, key, 0).state]
<1>1. Call(p, cmd, key, b, Return("raised")) /\ UNCHANGED Rest
  BY DEF Create
<1>2. at[p] \in Places /\ GuardedAt(at[p], run, result) /\ run \in Snapshots
  BY GuardHere
<1>3. cmd \in Commands /\ key \in Keys /\ cmd.type = "run_created"
  BY RuntimeKeys DEF Commands, CommandsWith, CreateCmds
<1>4. Own(cmd, key, result)
  BY RuntimeOwn
<1>5. b.pc = "manifest" /\ b.past = at[p].past /\ b.cur = at[p].cur
  BY <1>2 DEF Places
<1>. HIDE DEF cmd, key, b
<1>6. Moves(run, s)
  BY <1>2, <1>3, CallMoves
<1>. HIDE DEF s
<1>7. Recalled(b, s)
  BY <1>2, <1>5, <1>6, RecalledAfter DEF GuardedAt
<1>8. b.pc \in Outside /\ b.past \in Prefixes
  BY <1>2, <1>5 DEF Outside, GuardedAt
<1>9. GuardedAt(b, s, result)
  BY <1>7, <1>8, AtOutside
<1>10. Lawful(cmd, result)
  BY <1>3, OtherLawful
<1>. QED
  BY <1>1, <1>3, <1>4, <1>9, <1>10, AtReturn, GuardCall DEF s

(* OpenManifest keeps the invariant.  (_write_spec_manifest) *)
LEMMA OpenManifestGuard ==
  ASSUME Solo, NativeInv, FilesInv, ApprovalInv, NEW p \in Procs, OpenManifest(p)
  PROVE  ApprovalInv'
<1>1. Moves(run, run) /\ "manifest-end" \in Outside
  BY DEF Moves, Outside
<1>2. GuardedAt(Goto(p, "manifest-end"), run, result)
  BY <1>1, GuardHere, AtGoto
<1>3. /\ at' = [at EXCEPT ![p] = Goto(p, "manifest-end")] /\ run' = run
      /\ result' = result
  BY DEF OpenManifest
<1>. QED
  BY <1>2, <1>3, GuardLocal

(* FillManifest keeps the invariant.  (_write_spec_manifest) *)
LEMMA FillManifestGuard ==
  ASSUME Solo, NativeInv, FilesInv, ApprovalInv, NEW p \in Procs, FillManifest(p)
  PROVE  ApprovalInv'
<1>1. GuardedAt(Dispatch(p, at[p].st), run, result)
  BY GuardHere, AtDispatch
<1>2. /\ at' = [at EXCEPT ![p] = Dispatch(p, at[p].st)] /\ run' = run
      /\ result' = result
  BY DEF FillManifest
<1>. QED
  BY <1>1, <1>2, GuardLocal

(* Start keeps the invariant.  (execute: store.start) *)
LEMMA StartGuard ==
  ASSUME Solo, NativeInv, FilesInv, ApprovalInv, NEW p \in Procs, Start(p)
  PROVE  ApprovalInv'
<1>. DEFINE cmd == RunTo("running", "none")
            key == <<"runtime", "start">>
<1>1. /\ Call(p, cmd, key, Goto(p, "layer"), Return("raised")) /\ UNCHANGED Rest
  BY DEF Start
<1>2. at[p] \in Places /\ GuardedAt(at[p], run, result) /\ run \in Snapshots
  BY GuardHere
<1>3. /\ cmd \in Commands /\ key \in Keys /\ Own(cmd, key, result)
      /\ Lawful(cmd, result)
  BY NoneReason, RunToType, RuntimeKeys, RuntimeOwn, RunToLawful
<1>. HIDE DEF cmd, key
<1>4. Moves(run, RunAfter(cmd, key, 0))
  BY <1>2, <1>3, CallMoves
<1>5. "layer" \in Outside
  BY DEF Outside
<1>6. GuardedAt(Goto(p, "layer"), RunAfter(cmd, key, 0), result)
  BY <1>2, <1>4, <1>5, AtGoto
<1>. QED
  BY <1>1, <1>3, <1>6, AtReturn, GuardCall

(* EnterLayer keeps the invariant.  (execute: the layers) *)
LEMMA EnterLayerGuard ==
  ASSUME Solo, NativeInv, FilesInv, ApprovalInv, NEW p \in Procs, EnterLayer(p)
  PROVE  ApprovalInv'
<1>. DEFINE b == [at[p] EXCEPT !.pc = "scan", !.cur = StatesOf(run), !.pos = 1,
                               !.ready = <<>>, !.term = None]
            c == Goto(p, "complete")
            a == IF Layer(at[p].past) = {} THEN c ELSE b
<1>1. /\ at[p].pc = "layer" /\ at' = [at EXCEPT ![p] = a]
      /\ run' = run /\ result' = result
  BY DEF EnterLayer, Rest, Files
<1>2. /\ at[p] \in Places /\ Walk(at[p], thr[p], result) /\ GuardedRun(run, result)
      /\ at[p].past \in Prefixes /\ Recalled(at[p], run)
  BY GuardHere
<1>3. \A n \in at[p].past : result[n] = "succeeded"
  BY <1>1, <1>2 DEF Walk
<1>4. /\ b.pc = "scan" /\ b.past = at[p].past /\ b.ready = <<>> /\ b.pos = 1
      /\ b.cur = StatesOf(run)
      /\ c.pc = "complete" /\ c.past = at[p].past /\ c.cur = at[p].cur
  BY <1>2 DEF Goto, Places
<1>. HIDE DEF b, c
<1>5. GuardedAt(b, run, result)
  <2>1. Recalled(b, run)
    BY <1>2, <1>4, RecalledRead
  <2>2. Passing(b, run, result)
    <3>1. \A n \in Nodes : b.cur[n] = run.nodes[n].state
      BY <1>4 DEF StatesOf
    <3>2. \A k \in 1..Len(Order) : Order[k] \in Nodes /\ ~(k < b.pos)
      BY <1>4, OrderNodes
    <3>3. b.past \subseteq Nodes
      BY <1>2, <1>4 DEF Places
    <3>. QED
      BY <3>1, <3>2, <3>3 DEF Passing
  <2>3. Facing(b, run)
    BY <1>4 DEF Facing, AtGate, Replaying
  <2>4. \A i \in 1..Len(b.ready) : b.ready[i] \in Layer(b.past)
    BY <1>4
  <2>. QED
    BY <1>2, <1>4, <2>1, <2>2, <2>3, <2>4, AtScan
<1>6. ASSUME Layer(at[p].past) = {} PROVE GuardedAt(c, run, result)
  <2>1. at[p].past = Nodes
    BY <1>2, <1>6, GraphAssumption DEF Places
  <2>2. NoneOpen(run)
    <3>. SUFFICES ASSUME NEW n \in Nodes, Open(run, n) PROVE FALSE
      BY DEF NoneOpen
    <3>1. NodeGuarded(run, result, n) /\ Barred(run, n)
      BY <1>2 DEF GuardedRun, Open
    <3>2. PICK S \in Prefixes : Preceded(S, run, result, n)
      BY <3>1 DEF NodeGuarded
    <3>3. n \in Layer(S)
      BY <3>2 DEF Preceded
    <3>4. result[n] = "none"
      BY <3>1, <3>3 DEF NodeGuarded, Layer
    <3>. QED
      BY <1>3, <2>1, <3>4
  <2>3. Moves(run, run)
    BY DEF Moves
  <2>4. Recalled(c, run)
    BY <1>2, <1>4, <2>3, RecalledAfter
  <2>. QED
    BY <1>2, <1>4, <2>2, <2>4, AtEnd
<1>7. GuardedAt(a, run, result)
  BY <1>5, <1>6
<1>. HIDE DEF a
<1>. QED
  BY <1>1, <1>7, GuardLocal

(* The process at a node of its layer. *)
LEMMA ScanHere ==
  ASSUME NativeInv, FilesInv, ApprovalInv, NEW p \in Procs,
         at[p].pc \in AtGate \cup Replaying \/ (at[p].pc = "scan" /\ at[p].pos <= Len(Order))
  PROVE  /\ at[p].pos \in 1..Len(Order) /\ Node(p) \in Nodes /\ Node(p) = Order[at[p].pos]
         /\ Passing(at[p], run, result) /\ at[p].past \in SUBSET Nodes
         /\ \A d \in at[p].past : result[d] = "succeeded"
         /\ \A i \in 1..Len(at[p].ready) : at[p].ready[i] \in Layer(at[p].past)
         /\ at[p].pc # "scan" => Node(p) \in Layer(at[p].past)
<1>1. /\ at[p] \in Places /\ PlaceOK(at[p], run) /\ Walk(at[p], thr[p], result)
      /\ GuardedAt(at[p], run, result)
  BY GuardHere
<1>2. Node(p) \in Nodes /\ at[p].pos <= Len(Order)
  BY <1>1, NodeHere
<1>3. at[p].pos \in 1..Len(Order)
  BY <1>1, <1>2, OrderNodes DEF PlaceOK, Places
<1>4. at[p].pc \in Scanning
  BY DEF Scanning
<1>5. at[p].pc \notin {"sweeping", "error", "failing"}
  BY <1>4 DEF Scanning, AtGate, Replaying
<1>6. at[p].pc # "scan" => at[p].pc \in AtGate \cup Replaying
  OBVIOUS
<1>7. at[p].past \in SUBSET Nodes
  BY <1>1 DEF Places
<1>8. /\ Passing(at[p], run, result) /\ Facing(at[p], run) /\ Working(at[p], run, result)
  BY <1>1, <1>4 DEF GuardedAt
<1>9. at[p].pc # "scan" => Node(p) \in Layer(at[p].past)
  BY <1>6, <1>8 DEF Facing, Node
<1>10. \A i \in 1..Len(at[p].ready) : at[p].ready[i] \in Layer(at[p].past)
  BY <1>4, <1>8 DEF Working
<1>. QED
  BY <1>1, <1>2, <1>3, <1>5, <1>7, <1>8, <1>9, <1>10 DEF Walk, Node

(* From the scan of a node to one of its steps. *)
LEMMA AtNode ==
  ASSUME NativeInv, FilesInv, ApprovalInv, NEW p \in Procs,
         at[p].pc = "scan", at[p].pos <= Len(Order), Node(p) \in Layer(at[p].past),
         NEW b, b.pc \in {"begin", "gate", "replay"}, b.past = at[p].past,
         b.cur = at[p].cur, b.pos = at[p].pos, b.ready = at[p].ready,
         b.pc = "begin" => at[p].cur[Node(p)] = "pending",
         b.pc = "gate" => at[p].cur[Node(p)] \notin {"pending", "succeeded", "cancelled",
                                                     "awaiting_approval"}
  PROVE  GuardedAt(b, run, result)
<1>1. /\ at[p].past \in Prefixes /\ Recalled(at[p], run) /\ Passing(at[p], run, result)
      /\ \A i \in 1..Len(at[p].ready) : at[p].ready[i] \in Layer(at[p].past)
  BY GuardHere, ScanHere
<1>2. Moves(run, run)
  BY DEF Moves
<1>3. Recalled(b, run)
  BY <1>1, <1>2, RecalledAfter
<1>4. Passing(b, run, result)
  BY <1>1 DEF Passing
<1>5. Facing(b, run)
  BY DEF Facing, Node
<1>6. b.pc \in {"scan", "begin", "gate", "ask"} \cup Replaying
  BY DEF Replaying
<1>. QED
  BY <1>1, <1>3, <1>4, <1>5, <1>6, AtScan

(* Scan keeps the invariant.  (execute: the nodes of a layer) *)
LEMMA ScanGuard ==
  ASSUME Solo, NativeInv, FilesInv, ApprovalInv, NEW p \in Procs, Scan(p)
  PROVE  ApprovalInv'
<1>. DEFINE state == at[p].cur[Node(p)]
            file  == result[Node(p)]
            late  == \E d \in Deps[Node(p)] : at[p].cur[d] # "succeeded"
            b     == [at[p] EXCEPT !.pc = "replay", !.got = file]
            c(step) == Goto(p, step)
            a     == IF Node(p) \in Layer(at[p].past) THEN ScanStep(p) ELSE NextNode(p)
<1>1. /\ at[p].pc = "scan" /\ at' = [at EXCEPT ![p] = a]
      /\ run' = run /\ result' = result
      /\ at[p].pos <= Len(Order)
  BY DEF Scan, Rest, Files
<1>2. /\ at[p] \in Places /\ PlaceOK(at[p], run) /\ GuardedRun(run, result)
      /\ GuardedAt(at[p], run, result) /\ at[p].past \in Prefixes
      /\ Recalled(at[p], run) /\ Confirmed(run, result)
  BY GuardHere, WalkHere
<1>3. /\ at[p].pos \in 1..Len(Order) /\ Node(p) \in Nodes /\ Node(p) = Order[at[p].pos]
      /\ Passing(at[p], run, result) /\ at[p].past \in SUBSET Nodes
      /\ \A d \in at[p].past : result[d] = "succeeded"
      /\ \A i \in 1..Len(at[p].ready) : at[p].ready[i] \in Layer(at[p].past)
  BY <1>1, ScanHere
<1>4. Node(p) \notin Layer(at[p].past) => GuardedAt(NextNode(p), run, result)
  BY <1>2, <1>3, AtNext
<1>5. SUFFICES ASSUME Node(p) \in Layer(at[p].past) PROVE GuardedAt(ScanStep(p), run, result)
  <2>1. Node(p) \in Layer(at[p].past) => GuardedAt(ScanStep(p), run, result)
    BY <1>5
  <2>2. GuardedAt(a, run, result)
    BY <1>4, <2>1
  <2>. HIDE DEF a
  <2>. QED
    BY <1>1, <2>2, GuardLocal
<1>6. ASSUME state = "succeeded" PROVE GuardedAt(NextNode(p), run, result)
  <2>1. run.nodes[Node(p)].state = "succeeded"
    BY <1>2, <1>3, <1>6 DEF PlaceOK
  <2>2. result[Node(p)] = "succeeded"
    BY <1>2, <1>3, <2>1 DEF Confirmed
  <2>. QED
    BY <1>2, <1>3, <2>2, AtNext
<1>7. ASSUME file = "torn" PROVE GuardedAt(Raise(p, "torn"), run, result)
  <2>1. NoneOpen(run)
    BY <1>2, <1>3, <1>7, FileBars
  <2>. QED
    BY <1>2, <2>1, AtRaise
<1>8. ASSUME file = "none", late PROVE GuardedAt(Raise(p, "deps"), run, result)
  <2>1. PICK d \in Deps[Node(p)] : at[p].cur[d] # "succeeded"
    BY <1>8
  <2>2. d \in at[p].past
    BY <1>5 DEF Layer
  <2>3. run.nodes[d].state # "succeeded"
    BY <1>3, <2>1, <2>2 DEF Passing
  <2>4. ASSUME NEW n \in Nodes, Open(run, n) PROVE FALSE
    <3>1. Cleared(run, Order[at[p].pos])
      BY <1>2, <1>3, <1>5, <1>8, <2>4, OpenHere
    <3>. QED
      BY <1>3, <2>1, <2>3, <3>1 DEF Cleared
  <2>5. NoneOpen(run)
    BY <2>4 DEF NoneOpen
  <2>. QED
    BY <1>2, <2>5, AtRaise
<1>9. GuardedAt(b, run, result)
  <2>1. /\ b.pc = "replay" /\ b.past = at[p].past
        /\ b.ready = at[p].ready /\ b.pos = at[p].pos /\ b.cur = at[p].cur
    BY <1>2 DEF Places
  <2>. HIDE DEF b
  <2>. QED
    BY <1>1, <1>5, <2>1, AtNode
<1>10. ASSUME NEW step \in {"begin", "gate"}, step = "begin" => state = "pending",
              step = "gate" => state \notin {"pending", "succeeded", "cancelled",
                                             "awaiting_approval"}
       PROVE  GuardedAt(c(step), run, result)
  <2>1. /\ c(step).pc = step /\ c(step).past = at[p].past /\ c(step).cur = at[p].cur
        /\ c(step).ready = at[p].ready /\ c(step).pos = at[p].pos
    BY <1>2 DEF Goto, Places
  <2>. HIDE DEF c
  <2>. QED
    BY <1>1, <1>5, <1>10, <2>1, AtNode
<1>11. /\ GuardedAt(Return("cancelled"), run, result)
       /\ GuardedAt(Return("interrupted"), run, result)
  BY AtReturn
<1>12. ScanStep(p) =
        IF state = "succeeded" THEN
          IF file = "torn" THEN Raise(p, "torn") ELSE NextNode(p)
        ELSE IF state = "cancelled" THEN Return("cancelled")
        ELSE IF state = "awaiting_approval" THEN Return("interrupted")
        ELSE IF file = "torn" THEN Raise(p, "torn")
        ELSE IF file # "none" THEN b
        ELSE IF late THEN Raise(p, "deps")
        ELSE c(IF state = "pending" THEN "begin" ELSE "gate")
  BY DEF ScanStep
<1>13. late \in BOOLEAN
  OBVIOUS
<1>. HIDE DEF b, file, state, c, late
<1>. QED
  BY <1>6, <1>7, <1>8, <1>9, <1>10, <1>11, <1>12, <1>13

(* The nodes before a barred one have gone through their gates: none has a *)
(* result yet.                                                             *)
LEMMA PrecededHere ==
  ASSUME NEW r, NEW res, GuardedRun(r, res), NEW a, a.past \in Prefixes, Passing(a, r, res),
         \A d \in a.past : res[d] = "succeeded",
         a.pos \in 1..Len(Order), Order[a.pos] \in Layer(a.past), Barred(r, Order[a.pos])
  PROVE  Preceded(a.past, r, res, Order[a.pos])
<1>1. ASSUME NEW i \in 1..Len(Order), NEW j \in 1..Len(Order),
             Order[j] = Order[a.pos], i < j, Order[i] \in Layer(a.past)
      PROVE  Cleared(r, Order[i]) /\ ~Barred(r, Order[i])
  <2>1. j = a.pos
    BY <1>1, GraphAssumption
  <2>2. Order[i] \in Nodes \ a.past
    BY <1>1 DEF Layer
  <2>3. res[Order[i]] = "none"
    BY <2>2, BarredNoFile
  <2>. QED
    BY <1>1, <2>1, <2>3 DEF Passing
<1>. QED
  BY <1>1 DEF Preceded

(* A node about to begin is pending, or the run is cancelled and with it   *)
(* the node.                                                               *)
LEMMA BeginHere ==
  ASSUME NativeInv, FilesInv, ApprovalInv, NEW p \in Procs, at[p].pc = "begin"
  PROVE  run.nodes[Node(p)].state = "pending" \/
           (run.state = "cancelled" /\ \A n \in Nodes : run.nodes[n].state \in NodeTerminal)
<1>1. /\ GuardedRun(run, result) /\ GuardedAt(at[p], run, result)
  BY GuardHere
<1>2. at[p].pos \in 1..Len(Order) /\ Passing(at[p], run, result)
  BY ScanHere DEF AtGate
<1>3. at[p].cur[Order[at[p].pos]] = "pending"
  BY <1>1 DEF GuardedAt, Facing
<1>4. run.nodes[Order[at[p].pos]].state = "pending" \/ run.state = "cancelled"
  BY <1>2, <1>3 DEF Passing
<1>. QED
  BY <1>1, <1>4 DEF GuardedRun, Node

(* Begin keeps the invariant.  (execute: start_node) *)
LEMMA BeginGuard ==
  ASSUME Solo, NativeInv, FilesInv, ApprovalInv, NEW p \in Procs, Begin(p)
  PROVE  ApprovalInv'
<1>. DEFINE n   == Node(p)
            cmd == NodeTo(n, "running", "none")
            key == <<n, "start">>
            s   == RunAfter(cmd, key, 0)
            b   == [at[p] EXCEPT !.pc = "gate", !.cur[Node(p)] = "running"]
<1>1. CallAt("begin", p, cmd, key, b) /\ at[p].pc = "begin" /\ at[p].pc \in AtGate
  BY DEF Begin, CallAt, AtGate
<1>2. /\ run \in Snapshots /\ at[p] \in Places /\ PlaceOK(at[p], run)
      /\ GuardedRun(run, result) /\ at[p].past \in Prefixes /\ Recalled(at[p], run)
      /\ Walk(at[p], thr[p], result)
  BY GuardHere
<1>3. /\ at[p].pos \in 1..Len(Order) /\ n \in Nodes /\ n = Order[at[p].pos]
      /\ Passing(at[p], run, result) /\ at[p].past \in SUBSET Nodes
      /\ \A d \in at[p].past : result[d] = "succeeded"
      /\ \A i \in 1..Len(at[p].ready) : at[p].ready[i] \in Layer(at[p].past)
      /\ n \in Layer(at[p].past)
  BY <1>1, ScanHere
<1>4. result[n] = "none" /\ \A d \in Deps[n] : run.nodes[d].state = "succeeded"
  BY <1>1, <1>2, <1>3 DEF Walk, PlaceOK
<1>5. run.nodes[n].state = "pending" \/
           (run.state = "cancelled" /\ \A m \in Nodes : run.nodes[m].state \in NodeTerminal)
  BY <1>1, BeginHere
<1>6. cmd \in Commands /\ key \in Keys
  BY <1>3, NoneReason, NodeToType, NodeKeys
<1>7. /\ cmd.type = "node_transition" /\ cmd.node = n /\ cmd.to = "running"
      /\ cmd.approved = FALSE
  BY DEF NodeTo
<1>8. Own(cmd, key, result)
  BY <1>3, NodeOwn
<1>9. /\ b.pc = "gate" /\ b.pos = at[p].pos /\ b.ready = at[p].ready
      /\ b.past = at[p].past /\ b.cur = [at[p].cur EXCEPT ![n] = "running"]
  BY <1>2 DEF Places
<1>10. run.idem[key] \in {None, cmd}
  BY <1>2, <1>3 DEF GuardedRun, OwnKeys
<1>11. \A q \in Keys : s.idem[q] = IF Recorded(cmd, key) /\ q = key THEN cmd ELSE run.idem[q]
  BY <1>2, <1>6, CallKeys
<1>12. at[p].cur \in [Nodes -> NodeStates]
  BY <1>2 DEF Places
<1>13. cmd # None
  BY <1>6, NoneAssumption
<1>. HIDE DEF cmd, b
<1>14. Lawful(cmd, result)
  <2>1. ASSUME Barred(run, n)
        PROVE  /\ run.nodes[n].state \in {"pending", "cancelled"}
               /\ \E S \in Prefixes : Preceded(S, run, result, n)
    <3>1. run.nodes[n].state \in Waits
      BY <1>2, <1>3, <2>1 DEF GuardedRun, NodeGuarded
    <3>2. run.nodes[n].state \in {"pending", "cancelled"}
      BY <1>3, <1>5, <3>1 DEF Waits, NodeTerminal
    <3>3. Preceded(at[p].past, run, result, n)
      BY <1>2, <1>3, <2>1, PrecededHere
    <3>. QED
      BY <1>2, <3>2, <3>3
  <2>. QED
    BY <1>4, <1>7, <2>1 DEF Lawful, Waits
<1>15. ~Taken(cmd, key) => NoneOpen(run)
  <2>. SUFFICES ASSUME ~Taken(cmd, key), NEW m \in Nodes, Open(run, m) PROVE FALSE
    BY DEF NoneOpen
  <2>1. run.nodes[n].state # "pending"
    BY <1>2, <1>3, <1>4, OpenHere DEF Cleared
  <2>2. run.nodes[m].state \in NodeTerminal
    BY <1>5, <2>1
  <2>. QED
    BY <2>2 DEF Open, NodeTerminal
<1>16. ASSUME Taken(cmd, key) PROVE GuardedAt(b, s, result)
  <2>1. GuardedRun(s, result)
    BY <1>2, <1>6, <1>8, <1>14, CallGuarded
  <2>2. Still(run, s, {n})
    BY <1>2, <1>6, <1>7, CallStill
  <2>3. s.idem[key] # None
    <3>1. CASE Recorded(cmd, key)
      BY <1>6, <1>11, <1>13, <3>1
    <3>2. CASE ~Recorded(cmd, key)
      <4>1. run.idem[key] = cmd
        BY <1>16, <3>2 DEF Taken, Recorded, Answer
      <4>. QED
        BY <1>6, <1>11, <1>13, <3>2, <4>1
    <3>. QED
      BY <3>1, <3>2
  <2>. HIDE DEF s, n
  <2>4. s.nodes[n].state # "pending"
    BY <1>3, <2>1, <2>3 DEF GuardedRun, NodeGuarded
  <2>5. Passing(b, s, result)
    <3>1. \A m \in Nodes : m # Order[at[p].pos] => b.cur[m] = at[p].cur[m]
      BY <1>3, <1>9, <1>12
    <3>2. b.pc \notin {"scan", "begin"}
      BY <1>9
    <3>3. Still(run, s, {Order[at[p].pos]})
      BY <1>3, <2>2
    <3>. QED
      BY <1>3, <1>9, <3>1, <3>2, <3>3, PassingAfter
  <2>6. Recalled(b, s)
    <3>1. Moves(run, s)
      BY <2>2 DEF Still
    <3>2. Recalled(at[p], s)
      BY <1>2, <3>1, RecalledAfter
    <3>3. b.cur[n] = "running" /\ \A m \in Nodes : m # n => b.cur[m] = at[p].cur[m]
      BY <1>3, <1>9, <1>12
    <3>. QED
      BY <2>4, <3>2, <3>3 DEF Recalled, Waits
  <2>7. Facing(b, s)
    <3>1. b.cur[n] = "running"
      BY <1>3, <1>9, <1>12
    <3>. QED
      BY <1>3, <1>9, <3>1 DEF Facing
  <2>. QED
    BY <1>2, <1>3, <1>9, <2>5, <2>6, <2>7, AtScan
<1>. HIDE DEF key
<1>. QED
  BY <1>1, <1>6, <1>8, <1>14, <1>15, <1>16, GuardCallAt

(* Gate keeps the invariant.  (_node_has_approval) *)
LEMMA GateGuard ==
  ASSUME Solo, NativeInv, FilesInv, ApprovalInv, NEW p \in Procs, Gate(p)
  PROVE  ApprovalInv'
<1>. DEFINE n    == Node(p)
            asks == /\ n \in NeedApproval /\ at[p].cur[n] = "running" /\ ~Approved(n)
            b    == [NextNode(p) EXCEPT !.ready = Append(@, Node(p))]
            c    == Goto(p, "ask")
            a    == IF asks THEN c ELSE b
<1>1. /\ at[p].pc = "gate" /\ at' = [at EXCEPT ![p] = a]
      /\ run' = run /\ result' = result
  BY DEF Gate, Rest, Files
<1>2. /\ run \in Snapshots /\ at[p] \in Places /\ PlaceOK(at[p], run)
      /\ GuardedRun(run, result) /\ at[p].past \in Prefixes /\ Recalled(at[p], run)
      /\ Walk(at[p], thr[p], result) /\ GuardedAt(at[p], run, result)
  BY GuardHere
<1>3. /\ at[p].pos \in 1..Len(Order) /\ n \in Nodes /\ n = Order[at[p].pos]
      /\ Passing(at[p], run, result) /\ at[p].past \in SUBSET Nodes
      /\ \A d \in at[p].past : result[d] = "succeeded"
      /\ \A i \in 1..Len(at[p].ready) : at[p].ready[i] \in Layer(at[p].past)
      /\ n \in Layer(at[p].past)
  BY <1>1, ScanHere DEF AtGate
<1>4. /\ result[n] = "none" /\ \A d \in Deps[n] : run.nodes[d].state = "succeeded"
      /\ at[p].cur[n] \notin {"pending", "succeeded", "cancelled", "awaiting_approval"}
  BY <1>1, <1>2, <1>3 DEF Walk, PlaceOK, AtGate, GuardedAt, Facing
<1>5. Cleared(run, n)
  BY <1>2, <1>3, <1>4 DEF Cleared, Recalled
<1>6. asks \in BOOLEAN /\ (~asks => ~Barred(run, n))
  <2>1. ASSUME Barred(run, n) PROVE asks
    <3>1. at[p].cur[n] \in Waits
      BY <1>2, <1>3, <2>1 DEF Recalled
    <3>2. at[p].cur[n] = "running"
      BY <1>4, <3>1 DEF Waits
    <3>. QED
      BY <2>1, <3>2 DEF Barred, Approved, ApprovedIn
  <2>. QED
    BY <2>1
<1>7. asks => Barred(run, n)
  BY DEF Barred, Approved, ApprovedIn
<1>8. /\ c.pc = "ask" /\ c.past = at[p].past /\ c.cur = at[p].cur /\ c.pos = at[p].pos
      /\ c.ready = at[p].ready
  BY <1>2 DEF Goto, Places
<1>9. /\ b.pc = "scan" /\ b.past = at[p].past /\ b.cur = at[p].cur
      /\ b.pos = at[p].pos + 1 /\ at[p].pos \in Nat
      /\ b.ready = Append(at[p].ready, n)
  BY <1>2 DEF NextNode, Places
<1>10. at[p].ready \in Seq(Nodes) /\ Moves(run, run)
  BY <1>2 DEF Places, Moves
<1>11. Recalled(b, run) /\ Recalled(c, run)
  BY <1>2, <1>8, <1>9, <1>10, RecalledAfter
<1>. HIDE DEF b, c, asks, n
<1>12. ASSUME asks PROVE GuardedAt(c, run, result)
  <2>1. Passing(c, run, result)
    <3>1. Still(run, run, {Order[at[p].pos]}) /\ c.pc \notin {"scan", "begin"}
      BY <1>8, StillRefl
    <3>. QED
      BY <1>3, <1>8, <3>1, PassingAfter
  <2>2. \A m \in Nodes : Open(run, m) => m = n
    BY <1>2, <1>3, <1>4, <1>7, <1>12, OpenHere
  <2>3. Facing(c, run)
    BY <1>3, <1>8, <2>2 DEF Facing
  <2>. QED
    BY <1>2, <1>3, <1>8, <1>11, <2>1, <2>3, AtScan
<1>13. ASSUME ~asks PROVE GuardedAt(b, run, result)
  <2>1. Passing(b, run, result)
    BY <1>3, <1>5, <1>6, <1>9, <1>13, PassingNext
  <2>2. Facing(b, run)
    BY <1>9 DEF Facing, AtGate, Replaying
  <2>3. \A i \in 1..Len(b.ready) : b.ready[i] \in Layer(b.past)
    <3>1. /\ Len(b.ready) = Len(at[p].ready) + 1 /\ Len(at[p].ready) \in Nat
          /\ \A i \in 1..Len(b.ready) : i <= Len(at[p].ready) => b.ready[i] = at[p].ready[i]
          /\ b.ready[Len(at[p].ready) + 1] = n
      BY <1>3, <1>9, <1>10
    <3>2. ASSUME NEW i \in 1..Len(b.ready) PROVE b.ready[i] \in Layer(at[p].past)
      <4>1. i \in 1..Len(at[p].ready) \/ i = Len(at[p].ready) + 1
        BY <3>1
      <4>. QED
        BY <1>3, <3>1, <4>1
    <3>. QED
      BY <1>9, <3>2
  <2>. QED
    BY <1>2, <1>9, <1>11, <2>1, <2>2, <2>3, AtScan
<1>14. GuardedAt(a, run, result)
  BY <1>6, <1>12, <1>13
<1>. HIDE DEF a
<1>. QED
  BY <1>1, <1>14, GuardLocal

(* AskNode keeps the invariant: it is the open node that is asked for, and *)
(* the request is recorded.  (execute: request_approval of the node)       *)
LEMMA AskNodeGuard ==
  ASSUME Solo, NativeInv, FilesInv, ApprovalInv, NEW p \in Procs, AskNode(p)
  PROVE  ApprovalInv'
<1>. DEFINE n   == Node(p)
            cmd == NodeTo(n, "awaiting_approval", n)
            key == <<n, "approval-request">>
            s   == RunAfter(cmd, key, 0)
            b   == Goto(p, "ask-run")
<1>1. CallAt("ask", p, cmd, key, b) /\ at[p].pc = "ask" /\ at[p].pc \in AtGate
  BY DEF AskNode, CallAt, AtGate
<1>2. /\ run \in Snapshots /\ at[p] \in Places /\ GuardedAt(at[p], run, result)
      /\ GuardedRun(run, result) /\ at[p].past \in Prefixes /\ Recalled(at[p], run)
  BY GuardHere
<1>3. /\ at[p].pos \in 1..Len(Order) /\ n \in Nodes /\ n = Order[at[p].pos]
      /\ Passing(at[p], run, result) /\ at[p].past \in SUBSET Nodes
      /\ \A i \in 1..Len(at[p].ready) : at[p].ready[i] \in Layer(at[p].past)
      /\ n \in Layer(at[p].past)
  BY <1>1, ScanHere
<1>4. \A m \in Nodes : Open(run, m) => m = n
  BY <1>1, <1>2, <1>3 DEF GuardedAt, Facing
<1>5. n \in Reasons
  BY <1>3, StoreAssumption
<1>6. cmd \in Commands /\ key \in Keys
  BY <1>3, <1>5, NodeToType, NodeKeys
<1>7. cmd.type = "node_transition" /\ cmd.node = n /\ cmd.to = "awaiting_approval"
        /\ cmd.approved = FALSE
  BY DEF NodeTo
<1>8. Own(cmd, key, result)
  BY <1>3, NodeOwn
<1>9. Lawful(cmd, result)
  BY <1>3, NodeToLawful DEF Waits
<1>10. /\ b.pc = "ask-run" /\ b.pos = at[p].pos /\ b.ready = at[p].ready
       /\ b.past = at[p].past /\ b.cur = at[p].cur
  BY <1>2 DEF Goto, Places
<1>11. run.idem[key] \in {None, cmd}
  BY <1>2, <1>3 DEF GuardedRun, OwnKeys
<1>12. \A q \in Keys : s.idem[q] = IF Recorded(cmd, key) /\ q = key THEN cmd ELSE run.idem[q]
  BY <1>2, <1>6, CallKeys
<1>13. cmd # None
  BY <1>6, NoneAssumption
<1>. HIDE DEF cmd, b
<1>14. ~Taken(cmd, key) => NoneOpen(run)
  <2>. SUFFICES ASSUME ~Taken(cmd, key), NEW m \in Nodes, Open(run, m) PROVE FALSE
    BY DEF NoneOpen
  <2>1. run.nodes[n].state = "running"
    BY <1>4 DEF Open
  <2>2. run.state # None
    BY <1>2, <1>3, <2>1 DEF GuardedRun
  <2>3. NodeMove(run, cmd)
    BY <1>7, <2>1, <2>2 DEF NodeMove, NodeEdges
  <2>4. Permits(run, cmd, now)
    BY <1>7, <2>3 DEF Permits
  <2>. QED
    BY <1>11, <2>4 DEF Taken, Answer
<1>15. ASSUME Taken(cmd, key) PROVE GuardedAt(b, s, result)
  <2>1. GuardedRun(s, result)
    BY <1>2, <1>6, <1>8, <1>9, CallGuarded
  <2>2. Still(run, s, {n})
    BY <1>2, <1>6, <1>7, CallStill
  <2>3. s.idem[key] # None
    <3>1. CASE Recorded(cmd, key)
      BY <1>6, <1>12, <1>13, <3>1
    <3>2. CASE ~Recorded(cmd, key)
      <4>1. run.idem[key] = cmd
        BY <1>15, <3>2 DEF Taken, Recorded, Answer
      <4>. QED
        BY <1>6, <1>12, <1>13, <3>2, <4>1
    <3>. QED
      BY <3>1, <3>2
  <2>4. \A m \in Nodes : Open(s, m) => Open(run, m)
    BY <1>2, <1>6, <1>7, CallOpens
  <2>. HIDE DEF s, n
  <2>5. NoneOpen(s)
    <3>. SUFFICES ASSUME NEW m \in Nodes, Open(s, m) PROVE FALSE
      BY DEF NoneOpen
    <3>1. m = n
      BY <1>4, <2>4
    <3>2. s.nodes[n].state # "running"
      BY <1>3, <2>1, <2>3, <3>1 DEF GuardedRun, NodeGuarded, Open
    <3>. QED
      BY <3>1, <3>2 DEF Open
  <2>6. Passing(b, s, result)
    <3>1. Still(run, s, {Order[at[p].pos]}) /\ b.pc \notin {"scan", "begin"}
      BY <1>3, <1>10, <2>2
    <3>. QED
      BY <1>3, <1>10, <3>1, PassingAfter
  <2>7. Recalled(b, s)
    BY <1>2, <1>10, <2>2, RecalledAfter DEF Still
  <2>8. Facing(b, s)
    BY <1>3, <1>10 DEF Facing
  <2>9. Working(b, s, result)
    BY <1>3, <1>10 DEF Working, Settles
  <2>. QED
    BY <1>2, <1>10, <2>5, <2>6, <2>7, <2>8, <2>9 DEF GuardedAt
<1>. HIDE DEF key
<1>. QED
  BY <1>1, <1>6, <1>8, <1>9, <1>14, <1>15, GuardCallAt

(* Where the process may fail there is no open node. *)
LEMMA QuietHere ==
  ASSUME ApprovalInv, NEW p \in Procs, Quiet(at[p])
  PROVE  NoneOpen(run)
  BY DEF ApprovalInv, GuardedAt

(* A run transition in the try block, after which the process returns. *)
LEMMA EndGuard ==
  ASSUME Solo, NativeInv, FilesInv, ApprovalInv, NEW p \in Procs, NEW step, at[p].pc = step,
         Quiet(at[p]), NEW state \in {"awaiting_approval", "completed", "failed", "cancelled"},
         NEW reason \in Reasons, NEW key \in Keys, NEW answer,
         CallAt(step, p, RunTo(state, reason), key, Return(answer)),
         Own(RunTo(state, reason), key, result)
  PROVE  ApprovalInv'
<1>. DEFINE cmd == RunTo(state, reason)
<1>1. cmd \in Commands
  BY RunToType
<1>2. Lawful(cmd, result)
  BY RunToLawful
<1>3. NoneOpen(run)
  BY QuietHere
<1>4. CallAt(step, p, cmd, key, Return(answer)) /\ Own(cmd, key, result)
  OBVIOUS
<1>. HIDE DEF cmd
<1>. QED
  BY <1>1, <1>2, <1>3, <1>4, AtReturn, GuardCallAt

(* AskRun keeps the invariant.  (execute: request_approval of the run) *)
LEMMA AskRunGuard ==
  ASSUME Solo, NativeInv, FilesInv, ApprovalInv, NEW p \in Procs, AskRun(p)
  PROVE  ApprovalInv'
<1>. DEFINE key == <<Node(p), "run-approval-request">>
<1>1. /\ CallAt("ask-run", p, RunTo("awaiting_approval", Node(p)), key, Return("interrupted"))
      /\ at[p].pc = "ask-run"
  BY DEF AskRun, CallAt
<1>2. Node(p) \in Nodes
  BY <1>1, ScanHere DEF AtGate
<1>3. Node(p) \in Reasons /\ key \in Keys
  BY <1>2, StoreAssumption, NodeKeys
<1>4. Own(RunTo("awaiting_approval", Node(p)), key, result)
  BY <1>2, NodeOwn
<1>5. Quiet(at[p])
  BY <1>1 DEF Quiet
<1>. HIDE DEF key
<1>. QED
  BY <1>1, <1>3, <1>4, <1>5, EndGuard

(* EndRun keeps the invariant.  (execute: cancel or fail) *)
LEMMA EndRunGuard ==
  ASSUME Solo, NativeInv, FilesInv, ApprovalInv, NEW p \in Procs, EndRun(p)
  PROVE  ApprovalInv'
<1>. DEFINE skip  == at[p].got = "skipped"
            state == IF skip THEN "cancelled" ELSE "failed"
            w     == IF skip THEN "cancel" ELSE "fail"
            key   == <<"runtime", w>>
<1>1. /\ CallAt("sweeping", p, RunTo(state, at[p].term), key, Return(state))
      /\ at[p].pc = "sweeping"
  BY DEF EndRun, CallAt
<1>2. at[p].term \in Reasons
  BY <1>1, Here, StoreAssumption DEF PlaceOK
<1>3. state \in {"cancelled", "failed"} /\ w \in {"cancel", "fail"}
  OBVIOUS
<1>. HIDE DEF state, w
<1>4. key \in Keys
  BY <1>3, RuntimeKeys
<1>5. Own(RunTo(state, at[p].term), key, result)
  BY <1>3, RuntimeOwn
<1>6. Quiet(at[p])
  BY <1>1 DEF Quiet
<1>. HIDE DEF key
<1>. QED
  BY <1>1, <1>2, <1>3, <1>4, <1>5, <1>6, EndGuard

(* Complete keeps the invariant.  (execute: complete) *)
LEMMA CompleteGuard ==
  ASSUME Solo, NativeInv, FilesInv, ApprovalInv, NEW p \in Procs, Complete(p)
  PROVE  ApprovalInv'
<1>. DEFINE key == <<"runtime", "complete">>
<1>1. /\ CallAt("complete", p, RunTo("completed", "none"), key, Return("completed"))
      /\ at[p].pc = "complete"
  BY DEF Complete, CallAt
<1>2. key \in Keys /\ Own(RunTo("completed", "none"), key, result)
  BY RuntimeKeys, RuntimeOwn
<1>3. Quiet(at[p])
  BY <1>1 DEF Quiet
<1>. HIDE DEF key
<1>. QED
  BY <1>1, <1>2, <1>3, NoneReason, EndGuard

(* A node whose result is replayed is not barred. *)
LEMMA ReplayGuardHere ==
  ASSUME NativeInv, FilesInv, ApprovalInv, NEW p \in Procs, at[p].pc \in Replaying
  PROVE  /\ run \in Snapshots /\ at[p] \in Places /\ GuardedRun(run, result)
         /\ GuardedAt(at[p], run, result)
         /\ at[p].past \in Prefixes /\ Recalled(at[p], run)
         /\ at[p].pos \in 1..Len(Order) /\ Node(p) \in Nodes /\ Node(p) = Order[at[p].pos]
         /\ Passing(at[p], run, result) /\ at[p].past \in SUBSET Nodes
         /\ \A i \in 1..Len(at[p].ready) : at[p].ready[i] \in Layer(at[p].past)
         /\ Node(p) \in Layer(at[p].past)
         /\ result[Node(p)] = at[p].got /\ at[p].got \in Written
         /\ ~Barred(run, Node(p)) /\ at[p].pc \notin {"scan", "begin"}
<1>1. /\ run \in Snapshots /\ at[p] \in Places /\ GuardedRun(run, result)
      /\ GuardedAt(at[p], run, result)
      /\ at[p].past \in Prefixes /\ Recalled(at[p], run)
  BY GuardHere
<1>2. result[Node(p)] = at[p].got /\ at[p].got \in Written
  BY ReplayPlace
<1>3. at[p].pc \notin {"scan", "begin"}
  BY DEF Replaying
<1>4. /\ at[p].pos \in 1..Len(Order) /\ Node(p) \in Nodes /\ Node(p) = Order[at[p].pos]
      /\ Passing(at[p], run, result) /\ at[p].past \in SUBSET Nodes
      /\ \A i \in 1..Len(at[p].ready) : at[p].ready[i] \in Layer(at[p].past)
      /\ Node(p) \in Layer(at[p].past)
  BY <1>3, ScanHere
<1>5. ~Barred(run, Node(p))
  <2>1. Node(p) \in Nodes \ at[p].past
    BY <1>4 DEF Layer
  <2>. QED
    BY <1>1, <1>2, <1>4, <2>1, BarredNoFile DEF Written
<1>. QED
  BY <1>1, <1>2, <1>3, <1>4, <1>5

(* A replay goes from step to step, *)
LEMMA AtReplayGoto ==
  ASSUME NativeInv, FilesInv, ApprovalInv, NEW p \in Procs, at[p].pc \in Replaying,
         NEW s, Still(run, s, {Node(p)}), NEW step \in Replaying,
         step = "replay-fail" => at[p].got = "failed"
  PROVE  GuardedAt(Goto(p, step), s, result)
<1>. DEFINE b == Goto(p, step)
<1>1. /\ at[p] \in Places /\ at[p].past \in Prefixes /\ Recalled(at[p], run)
      /\ at[p].pos \in 1..Len(Order) /\ Node(p) = Order[at[p].pos]
      /\ Passing(at[p], run, result) /\ at[p].past \in SUBSET Nodes
      /\ \A i \in 1..Len(at[p].ready) : at[p].ready[i] \in Layer(at[p].past)
      /\ Node(p) \in Layer(at[p].past)
  BY ReplayGuardHere
<1>2. /\ b.pc = step /\ b.pos = at[p].pos /\ b.ready = at[p].ready /\ b.got = at[p].got
      /\ b.past = at[p].past /\ b.cur = at[p].cur
  BY <1>1 DEF Goto, Places
<1>. HIDE DEF b
<1>3. b.pc \notin {"scan", "begin", "gate", "ask"}
  BY <1>2 DEF Replaying
<1>4. Passing(b, s, result)
  BY <1>1, <1>2, <1>3, PassingAfter
<1>5. Recalled(b, s)
  BY <1>1, <1>2, RecalledAfter DEF Still
<1>6. Facing(b, s)
  BY <1>1, <1>2, <1>3 DEF Facing
<1>7. GuardedAt(b, s, result)
  BY <1>1, <1>2, <1>4, <1>5, <1>6, AtScan
<1>. QED
  BY <1>7 DEF b

(* to the next node, the sweep or the caller, *)
LEMMA AtReplayed ==
  ASSUME NativeInv, FilesInv, ApprovalInv, NEW p \in Procs, at[p].pc \in Replaying,
         NEW s, Still(run, s, {Node(p)}), GuardedRun(s, result)
  PROVE  GuardedAt(Replayed(p), s, result)
<1>1. /\ at[p] \in Places /\ at[p].past \in Prefixes /\ Recalled(at[p], run)
      /\ at[p].pos \in 1..Len(Order) /\ Node(p) = Order[at[p].pos] /\ Node(p) \in Nodes
      /\ Passing(at[p], run, result) /\ at[p].past \in SUBSET Nodes
      /\ \A i \in 1..Len(at[p].ready) : at[p].ready[i] \in Layer(at[p].past)
      /\ Node(p) \in Layer(at[p].past) /\ at[p].pc \notin {"scan", "begin"}
      /\ result[Node(p)] = at[p].got /\ at[p].got \in Written
  BY ReplayGuardHere
<1>2. Moves(run, s)
  BY DEF Still
<1>3. CASE at[p].got = "succeeded"
  <2>1. Passing(at[p], s, result)
    BY <1>1, PassingAfter
  <2>2. Recalled(at[p], s)
    BY <1>1, <1>2, RecalledAfter
  <2>3. result[Node(p)] # "none"
    BY <1>1, <1>3
  <2>4. GuardedAt(NextNode(p), s, result)
    BY <1>1, <2>1, <2>2, <2>3, AtNext
  <2>. QED
    BY <1>3, <2>4 DEF Replayed
<1>4. CASE at[p].got = "skipped"
  <2>. DEFINE b == [at[p] EXCEPT !.pc = "sweep", !.term = Node(p)]
  <2>1. b.pc = "sweep" /\ b.past = at[p].past /\ b.cur = at[p].cur
    BY <1>1 DEF Places
  <2>2. Replayed(p) = b
    BY <1>4 DEF Replayed
  <2>. HIDE DEF b
  <2>3. NoneOpen(s)
    BY <1>1, <1>4, FileBars
  <2>4. Recalled(b, s)
    BY <1>1, <1>2, <2>1, RecalledAfter
  <2>. QED
    BY <1>1, <2>1, <2>2, <2>3, <2>4, AtEnd
<1>5. CASE at[p].got = "failed"
  BY <1>5, AtReturn DEF Replayed
<1>. QED
  BY <1>1, <1>3, <1>4, <1>5 DEF Written

(* wherever its calls are refused. *)
LEMMA ReplayCall ==
  ASSUME Solo, NativeInv, FilesInv, ApprovalInv, NEW p \in Procs, at[p].pc \in Replaying,
         NEW cmd \in Commands, NEW key \in Keys, NEW taken,
         Call(p, cmd, key, taken, Swallow(p, cmd, key)), UNCHANGED Rest,
         Own(cmd, key, result), Lawful(cmd, result),
         cmd.type = "node_transition" => cmd.node = Node(p),
         run.idem[key] \in {None, cmd} \/ at[p].got # "succeeded",
         LET s == RunAfter(cmd, key, 0) IN
         Still(run, s, {Node(p)}) /\ GuardedRun(s, result) => GuardedAt(taken, s, result)
  PROVE  ApprovalInv'
<1>. DEFINE s == RunAfter(cmd, key, 0)
<1>1. /\ run \in Snapshots /\ at[p] \in Places /\ GuardedRun(run, result)
      /\ GuardedAt(at[p], run, result) /\ Node(p) \in Nodes
      /\ result[Node(p)] = at[p].got /\ at[p].got \in Written
  BY ReplayGuardHere
<1>2. Still(run, s, {Node(p)})
  BY <1>1, CallStill
<1>3. GuardedRun(s, result)
  BY <1>1, CallGuarded
<1>4. GuardedAt(taken, s, result)
  BY <1>2, <1>3
<1>5. Still(run, run, {Node(p)})
  BY StillRefl
<1>6. GuardedAt(Replayed(p), run, result)
  BY <1>1, <1>5, AtReplayed
<1>7. ASSUME ~Taken(cmd, key), Answer(cmd, key) # "refused" PROVE NoneOpen(run)
  <2>1. run.idem[key] \notin {None, cmd}
    BY <1>7 DEF Taken, Answer
  <2>2. result[Node(p)] \notin {"none", "succeeded"}
    BY <1>1, <2>1 DEF Written
  <2>. QED
    BY <1>1, <2>2, FileBars
<1>8. ASSUME ~Taken(cmd, key) PROVE GuardedAt(Swallow(p, cmd, key), run, result)
  <2>1. CASE Answer(cmd, key) = "refused"
    BY <1>6, <2>1 DEF Swallow
  <2>2. CASE Answer(cmd, key) # "refused"
    <3>1. GuardedAt(Raise(p, Answer(cmd, key)), run, result)
      BY <1>1, <1>7, <1>8, <2>2, AtRaise
    <3>. QED
      BY <2>2, <3>1 DEF Swallow
  <2>. QED
    BY <2>1, <2>2
<1>. QED
  BY <1>4, <1>8, GuardCall

(* ReplayLoad keeps the invariant.  (_apply_persisted_result) *)
LEMMA ReplayLoadGuard ==
  ASSUME Solo, NativeInv, FilesInv, ApprovalInv, NEW p \in Procs, ReplayLoad(p)
  PROVE  ApprovalInv'
<1>. DEFINE n == Node(p)
            b == [at[p] EXCEPT !.pc = "replay-lease", !.st = run.state,
                               !.cur[Node(p)] = run.nodes[Node(p)].state]
<1>1. /\ at' = [at EXCEPT ![p] = b] /\ run' = run /\ result' = result
      /\ at[p].pc \in Replaying
  BY DEF ReplayLoad, Replaying, Rest, Files
<1>2. /\ at[p] \in Places /\ at[p].past \in Prefixes /\ Recalled(at[p], run)
      /\ at[p].pos \in 1..Len(Order) /\ n = Order[at[p].pos] /\ n \in Nodes
      /\ Passing(at[p], run, result) /\ at[p].past \in SUBSET Nodes
      /\ \A i \in 1..Len(at[p].ready) : at[p].ready[i] \in Layer(at[p].past)
      /\ n \in Layer(at[p].past) /\ ~Barred(run, n)
  BY <1>1, ReplayGuardHere
<1>3. /\ b.pc = "replay-lease" /\ b.past = at[p].past /\ b.pos = at[p].pos
      /\ b.ready = at[p].ready /\ b.cur = [at[p].cur EXCEPT ![n] = run.nodes[n].state]
  BY <1>2 DEF Places
<1>4. at[p].cur \in [Nodes -> NodeStates]
  BY <1>2 DEF Places
<1>. HIDE DEF b, n
<1>5. b.cur[n] = run.nodes[n].state /\ \A m \in Nodes : m # n => b.cur[m] = at[p].cur[m]
  BY <1>2, <1>3, <1>4
<1>6. b.pc \in Replaying /\ b.pc \notin {"scan", "begin"}
  BY <1>3 DEF Replaying
<1>7. Passing(b, run, result)
  <2>1. Still(run, run, {Order[at[p].pos]})
    BY StillRefl
  <2>2. \A m \in Nodes : m # Order[at[p].pos] => b.cur[m] = at[p].cur[m]
    BY <1>2, <1>5
  <2>3. Order[at[p].pos] \in Layer(at[p].past)
    BY <1>2
  <2>. QED
    BY <1>2, <1>3, <1>6, <2>1, <2>2, <2>3, PassingAfter
<1>8. Recalled(b, run)
  BY <1>2, <1>5 DEF Recalled
<1>9. Facing(b, run)
  BY <1>2, <1>3 DEF Facing
<1>10. GuardedAt(b, run, result)
  BY <1>2, <1>3, <1>6, <1>7, <1>8, <1>9, AtScan
<1>. QED
  BY <1>1, <1>10, GuardLocal

(* ReplayLease keeps the invariant.  (_release_active_lease) *)
LEMMA ReplayLeaseGuard ==
  ASSUME Solo, NativeInv, FilesInv, ApprovalInv, NEW p \in Procs, ReplayLease(p)
  PROVE  ApprovalInv'
<1>. DEFINE n     == Node(p)
            lease == run.nodes[n].lease
            cmd   == [type |-> "lease_released", node |-> n, token |-> lease.token]
            key   == <<n, "release-replay">>
            s     == RunAfter(cmd, key, 0)
            next  == Goto(p, IF at[p].st = "running" THEN "replay-start"
                                                     ELSE "replay-resume")
            other == IF Answer(cmd, key) = "refused" THEN next
                                                     ELSE Raise(p, "conflict")
<1>1. /\ at[p].pc \in Replaying /\ UNCHANGED Rest
      /\ lease = None => at' = [at EXCEPT ![p] = next] /\ run' = run
      /\ lease # None => Call(p, cmd, key, next, other)
  BY DEF ReplayLease, Replaying
<1>2. /\ run \in Snapshots /\ n \in Nodes /\ GuardedRun(run, result)
      /\ result[n] = at[p].got /\ at[p].got \in Written
  BY <1>1, ReplayGuardHere
<1>3. {"replay-start", "replay-resume"} \subseteq Replaying
        /\ "replay-fail" \notin {"replay-start", "replay-resume"}
  BY DEF Replaying
<1>4. \A r : Still(run, r, {n}) => GuardedAt(next, r, result)
  BY <1>1, <1>3, AtReplayGoto
<1>5. GuardedAt(next, run, result)
  BY <1>4, StillRefl
<1>6. CASE lease = None
  <2>1. result' = result
    BY <1>1 DEF Rest, Files
  <2>. HIDE DEF next
  <2>. QED
    BY <1>1, <1>5, <1>6, <2>1, GuardLocal
<1>7. CASE lease # None
  <2>1. lease.token \in Nat
    BY <1>2, <1>7 DEF Snapshots, NodeSnapshots, Leases
  <2>2. cmd \in Commands /\ key \in Keys
    BY <1>2, <2>1, OtherCmdTypes, NodeKeys
  <2>3. cmd.type = "lease_released" /\ cmd.node = n
    OBVIOUS
  <2>4. Call(p, cmd, key, next, other)
    BY <1>1, <1>7
  <2>5. run.idem[key] = None
    BY <1>2, <1>7 DEF GuardedRun, NodeGuarded
  <2>. HIDE DEF cmd, next, lease
  <2>6. Own(cmd, key, result)
    BY <1>2, <2>3, NodeOwn DEF Written
  <2>7. Lawful(cmd, result)
    BY <2>3, OtherLawful
  <2>8. Still(run, s, {n})
    BY <1>2, <2>2, <2>3, CallStill
  <2>9. GuardedAt(next, s, result)
    BY <1>4, <2>8
  <2>10. ~Taken(cmd, key) => Answer(cmd, key) = "refused"
    BY <2>5 DEF Taken, Answer
  <2>11. ~Taken(cmd, key) => GuardedAt(other, run, result)
    BY <1>5, <2>10
  <2>. HIDE DEF other, key
  <2>. QED
    BY <1>1, <2>2, <2>4, <2>6, <2>7, <2>9, <2>11, GuardCall
<1>. QED
  BY <1>6, <1>7

(* ReplayResume keeps the invariant.  (_apply_persisted_result: resume) *)
LEMMA ReplayResumeGuard ==
  ASSUME Solo, NativeInv, FilesInv, ApprovalInv, NEW p \in Procs, ReplayResume(p)
  PROVE  ApprovalInv'
<1>. DEFINE cmd == RunTo("running", "none")
            key == <<"runtime", "resume">>
            s   == RunAfter(cmd, key, 0)
            next == Goto(p, "replay-start")
<1>1. /\ at[p].pc \in Replaying /\ UNCHANGED Rest
      /\ Call(p, cmd, key, next, Swallow(p, cmd, key))
  BY DEF ReplayResume, Replaying
<1>2. "replay-start" \in Replaying
  BY DEF Replaying
<1>3. Still(run, s, {Node(p)}) => GuardedAt(next, s, result)
  BY <1>1, <1>2, AtReplayGoto
<1>4. /\ cmd \in Commands /\ key \in Keys /\ Own(cmd, key, result)
      /\ Lawful(cmd, result) /\ cmd.type = "run_transition"
  BY NoneReason, RunToType, RuntimeKeys, RuntimeOwn, RunToLawful, RunToFields
<1>5. run.idem[key] \in {None, cmd}
  BY <1>1, ReplayGuardHere DEF GuardedRun, OwnKeys
<1>. HIDE DEF cmd, key, next
<1>. QED
  BY <1>1, <1>3, <1>4, <1>5, ReplayCall

(* ReplayStart keeps the invariant.  (_apply_persisted_result: start_node) *)
LEMMA ReplayStartGuard ==
  ASSUME Solo, NativeInv, FilesInv, ApprovalInv, NEW p \in Procs, ReplayStart(p)
  PROVE  ApprovalInv'
<1>. DEFINE n    == Node(p)
            w    == IF at[p].cur[n] = "pending" THEN "start" ELSE "resume"
            cmd  == NodeTo(n, "running", "none")
            key  == <<n, w>>
            s    == RunAfter(cmd, key, 0)
            next == Goto(p, "replay-apply")
<1>1. /\ at[p].pc \in Replaying /\ UNCHANGED Rest
      /\ \/ at' = [at EXCEPT ![p] = next] /\ run' = run
         \/ Call(p, cmd, key, next, Swallow(p, cmd, key))
  BY DEF ReplayStart, Replaying
<1>2. /\ n \in Nodes /\ GuardedRun(run, result) /\ ~Barred(run, n)
  BY <1>1, ReplayGuardHere
<1>3. "replay-apply" \in Replaying
  BY DEF Replaying
<1>4. \A r : Still(run, r, {n}) => GuardedAt(next, r, result)
  BY <1>1, <1>3, AtReplayGoto
<1>5. w \in {"start", "resume"}
  OBVIOUS
<1>6. cmd.type = "node_transition" /\ cmd.node = n
  BY DEF NodeTo
<1>7. Own(cmd, key, result)
  BY <1>2, <1>5, NodeOwn
<1>8. Lawful(cmd, result)
  BY <1>2, NodeToLawful
<1>. HIDE DEF w
<1>9. cmd \in Commands /\ key \in Keys
  BY <1>2, <1>5, NoneReason, NodeToType, NodeKeys
<1>10. run.idem[key] \in {None, cmd}
  BY <1>2, <1>5 DEF GuardedRun, OwnKeys
<1>11. result' = result
  BY <1>1 DEF Rest, Files
<1>. HIDE DEF cmd, key, next, n
<1>12. CASE at' = [at EXCEPT ![p] = next] /\ run' = run
  <2>1. GuardedAt(next, run, result)
    BY <1>4, StillRefl
  <2>. QED
    BY <1>11, <1>12, <2>1, GuardLocal
<1>13. CASE Call(p, cmd, key, next, Swallow(p, cmd, key))
  BY <1>1, <1>4, <1>6, <1>7, <1>8, <1>9, <1>10, <1>13, ReplayCall DEF n
<1>. QED
  BY <1>1, <1>12, <1>13

(* The parts of a recording. *)
LEMMA RecordingFields ==
  ASSUME NEW n, NEW status \in Written
  PROVE  \E state \in {"succeeded", "cancelled", "failed"},
            w \in {"complete", "skip", "fail"}, reason \in {"none", n} :
           /\ Recording(n, status) = NodeTo(n, state, reason)
           /\ RecordKey(n, status) = <<n, w>>
           /\ w = "complete" <=> status = "succeeded"
           /\ w = "complete" => Recording(n, status) = NodeTo(n, "succeeded", "none")
<1>1. CASE status = "succeeded"
  BY <1>1 DEF Recording, RecordKey
<1>2. CASE status = "skipped"
  BY <1>2 DEF Recording, RecordKey
<1>3. CASE status = "failed"
  BY <1>3 DEF Recording, RecordKey
<1>. QED
  BY <1>1, <1>2, <1>3 DEF Written

(* Recording the result of a node that is not barred is lawful. *)
LEMMA RecordingLawful ==
  ASSUME NEW n \in Nodes, NEW status \in Written, ~Barred(run, n), NEW res, OwnKeys(run)
  PROVE  LET cmd == Recording(n, status)
             key == RecordKey(n, status)
         IN  /\ Own(cmd, key, res) /\ Lawful(cmd, res)
             /\ cmd.type = "node_transition" /\ cmd.node = n /\ cmd.to # "running"
             /\ status = "succeeded" => run.idem[key] \in {None, cmd}
<1>. DEFINE cmd == Recording(n, status)
            key == RecordKey(n, status)
<1>1. PICK state \in {"succeeded", "cancelled", "failed"},
           w \in {"complete", "skip", "fail"}, reason \in {"none", n} :
        /\ cmd = NodeTo(n, state, reason)
        /\ key = <<n, w>>
        /\ w = "complete" <=> status = "succeeded"
        /\ w = "complete" => cmd = NodeTo(n, "succeeded", "none")
  BY RecordingFields
<1>. HIDE DEF cmd, key
<1>2. Lawful(cmd, res)
  BY <1>1, NodeToLawful
<1>3. Own(cmd, <<n, w>>, res)
  BY <1>1, NodeOwn
<1>4. status = "succeeded" => run.idem[key] \in {None, cmd}
  BY <1>1 DEF OwnKeys
<1>5. cmd.type = "node_transition" /\ cmd.node = n /\ cmd.to # "running"
  BY <1>1 DEF NodeTo
<1>6. Own(cmd, key, res)
  BY <1>1, <1>3
<1>. QED
  BY <1>2, <1>4, <1>5, <1>6 DEF cmd, key

(* ReplayApply keeps the invariant.  (_apply_persisted_result: record) *)
LEMMA ReplayApplyGuard ==
  ASSUME Solo, NativeInv, FilesInv, ApprovalInv, NEW p \in Procs, ReplayApply(p)
  PROVE  ApprovalInv'
<1>. DEFINE n      == Node(p)
            status == at[p].got
            cmd    == Recording(n, status)
            key    == RecordKey(n, status)
            s      == RunAfter(cmd, key, 0)
            next   == IF status = "failed" THEN Goto(p, "replay-fail")
                                           ELSE Replayed(p)
<1>1. /\ at[p].pc \in Replaying /\ UNCHANGED Rest
      /\ Call(p, cmd, key, next, Swallow(p, cmd, key))
  BY DEF ReplayApply, Replaying
<1>2. /\ n \in Nodes /\ GuardedRun(run, result) /\ ~Barred(run, n) /\ status \in Written
  BY <1>1, ReplayGuardHere
<1>3. "replay-fail" \in Replaying
  BY DEF Replaying
<1>4. /\ Own(cmd, key, result) /\ Lawful(cmd, result)
      /\ cmd.type = "node_transition" /\ cmd.node = n
      /\ status = "succeeded" => run.idem[key] \in {None, cmd}
  BY <1>2, RecordingLawful DEF GuardedRun
<1>5. cmd \in Commands /\ key \in Keys
  BY <1>2, RecordingType
<1>6. Still(run, s, {n}) /\ GuardedRun(s, result) => GuardedAt(next, s, result)
  <2>. HIDE DEF s
  <2>1. Still(run, s, {n}) /\ status = "failed" => GuardedAt(Goto(p, "replay-fail"), s, result)
    BY <1>1, <1>3, AtReplayGoto
  <2>2. Still(run, s, {n}) /\ GuardedRun(s, result) => GuardedAt(Replayed(p), s, result)
    BY <1>1, AtReplayed
  <2>. QED
    BY <2>1, <2>2
<1>. HIDE DEF cmd, key, next
<1>. QED
  BY <1>1, <1>4, <1>5, <1>6, ReplayCall

(* ReplayFail keeps the invariant.  (_apply_persisted_result: fail) *)
LEMMA ReplayFailGuard ==
  ASSUME Solo, NativeInv, FilesInv, ApprovalInv, NEW p \in Procs, ReplayFail(p)
  PROVE  ApprovalInv'
<1>. DEFINE cmd == RunTo("failed", Node(p))
            key == <<"runtime", "fail">>
<1>1. /\ at[p].pc = "replay-fail" /\ at[p].pc \in Replaying /\ UNCHANGED Rest
      /\ Call(p, cmd, key, Return("failed"), Swallow(p, cmd, key))
  BY DEF ReplayFail, Replaying
<1>2. /\ Node(p) \in Nodes /\ GuardedAt(at[p], run, result)
  BY <1>1, ReplayGuardHere
<1>3. at[p].got = "failed" /\ Node(p) \in Reasons
  BY <1>1, <1>2, StoreAssumption DEF GuardedAt, Facing
<1>4. /\ cmd \in Commands /\ key \in Keys /\ Own(cmd, key, result)
      /\ Lawful(cmd, result) /\ cmd.type = "run_transition"
  BY <1>3, RunToType, RuntimeKeys, RuntimeOwn, RunToLawful, RunToFields
<1>. HIDE DEF cmd, key
<1>. QED
  BY <1>1, <1>3, <1>4, AtReturn, ReplayCall

-----------------------------------------------------------------------------
(* The layer at work. *)

(* StartWork keeps the invariant.  (_run_ready_nodes) *)
LEMMA StartWorkGuard ==
  ASSUME Solo, NativeInv, FilesInv, ApprovalInv, NEW p \in Procs, StartWork(p)
  PROVE  ApprovalInv'
<1>. DEFINE b == Goto(p, "work")
<1>1. /\ at[p].pc = "scan" /\ at[p].pos > Len(Order) /\ at[p].pc \in Scanning
      /\ at' = [at EXCEPT ![p] = b] /\ run' = run /\ result' = result
  BY DEF StartWork, Files, Scanning
<1>2. /\ at[p] \in Places /\ PlaceOK(at[p], run) /\ GuardedRun(run, result)
      /\ GuardedAt(at[p], run, result) /\ Walk(at[p], thr[p], result)
      /\ at[p].past \in Prefixes /\ Recalled(at[p], run)
  BY GuardHere
<1>3. /\ b.pc = "work" /\ b.past = at[p].past /\ b.cur = at[p].cur /\ b.pos = at[p].pos
      /\ b.ready = at[p].ready
  BY <1>2 DEF Goto, Places
<1>. HIDE DEF b
<1>4. /\ Passing(at[p], run, result)
      /\ \A i \in 1..Len(at[p].ready) : at[p].ready[i] \in Layer(at[p].past)
  BY <1>1, <1>2 DEF GuardedAt, Working
<1>5. /\ \A d \in at[p].past : result[d] = "succeeded"
      /\ \A i \in 1..Len(at[p].ready) : result[at[p].ready[i]] = "none"
  BY <1>1, <1>2 DEF Walk, Scanned
<1>6. ASSUME NEW n \in Layer(at[p].past) PROVE ~Barred(run, n)
  <2>. SUFFICES ASSUME Barred(run, n) PROVE FALSE
    OBVIOUS
  <2>1. n \in Nodes \ at[p].past
    BY DEF Layer
  <2>2. result[n] = "none"
    BY <1>2, <2>1, BarredNoFile
  <2>3. PICK k \in 1..Len(Order) : Order[k] = n
    BY <2>1, GraphAssumption
  <2>4. k < at[p].pos
    BY <1>1, <1>2, OrderNodes DEF Places
  <2>. QED
    BY <1>4, <2>2, <2>3, <2>4 DEF Passing
<1>7. ASSUME at[p].ready # <<>>, NEW n \in Nodes, Open(run, n) PROVE FALSE
  <2>1. 1 \in 1..Len(at[p].ready)
    <3>1. at[p].ready \in Seq(Nodes)
      BY <1>2 DEF Places
    <3>. QED
      BY <1>7, <3>1
  <2>2. at[p].ready[1] \in Layer(at[p].past) /\ result[at[p].ready[1]] # "succeeded"
    BY <1>4, <1>5, <2>1
  <2>3. n \in Layer(at[p].past)
    BY <1>2, <1>5, <1>7, <2>2, OpenLayer
  <2>. QED
    BY <1>6, <1>7, <2>3 DEF Open
<1>8. Quiet(b) => NoneOpen(run)
  BY <1>3, <1>7 DEF Quiet, NoneOpen
<1>9. Moves(run, run)
  BY DEF Moves
<1>10. Recalled(b, run)
  BY <1>2, <1>3, <1>9, RecalledAfter
<1>11. Passing(b, run, result)
  BY <1>3, <1>4 DEF Passing
<1>12. Facing(b, run)
  BY <1>3 DEF Facing, AtGate, Replaying
<1>13. Working(b, run, result)
  BY <1>3, <1>4, <1>6 DEF Working, Settles
<1>14. GuardedAt(b, run, result)
  BY <1>2, <1>3, <1>8, <1>10, <1>11, <1>12, <1>13 DEF GuardedAt
<1>. QED
  BY <1>1, <1>14, GuardLocal

(* A thread's call leaves the process where it is. *)
LEMMA WorkGuard ==
  ASSUME Solo, NativeInv, FilesInv, ApprovalInv, NEW p \in Procs, at' = at, result' = result,
         \/ run' = run
         \/ \E cmd \in Commands : \E key \in Keys : \E token :
              /\ run' = RunAfter(cmd, key, token) /\ cmd.type # "node_transition"
              /\ Own(cmd, key, result) /\ Lawful(cmd, result)
  PROVE  ApprovalInv'
<1>1. at' = [at EXCEPT ![p] = at[p]]
  BY DEF NativeInv, Globals
<1>2. /\ run \in Snapshots /\ at[p] \in Places /\ GuardedRun(run, result)
      /\ GuardedAt(at[p], run, result)
  BY GuardHere
<1>3. CASE run' = run
  BY <1>1, <1>2, <1>3, GuardLocal
<1>4. CASE \E cmd \in Commands : \E key \in Keys : \E token :
              /\ run' = RunAfter(cmd, key, token) /\ cmd.type # "node_transition"
              /\ Own(cmd, key, result) /\ Lawful(cmd, result)
  <2>0. PICK cmd \in Commands, key \in Keys :
          \E token : /\ run' = RunAfter(cmd, key, token) /\ cmd.type # "node_transition"
                     /\ Own(cmd, key, result) /\ Lawful(cmd, result)
    BY <1>4
  <2>1. PICK token :
          /\ run' = RunAfter(cmd, key, token) /\ cmd.type # "node_transition"
          /\ Own(cmd, key, result) /\ Lawful(cmd, result)
    BY <2>0
  <2>. DEFINE s == RunAfter(cmd, key, token)
  <2>2. GuardedRun(s, result)
    BY <1>2, <2>1, CallGuarded
  <2>3. Still(run, s, {})
    BY <1>2, <2>1, CallStill
  <2>. HIDE DEF s
  <2>4. GuardedAt(at[p], s, result)
    BY <1>2, <2>3, AtStill
  <2>5. GuardedRun(run', result') /\ GuardedAt(at[p], run', result')
    BY <2>1, <2>2, <2>4 DEF s
  <2>. QED
    BY <1>1, <2>5, GuardStep
<1>. QED
  BY <1>3, <1>4

(* The node whose turn it is has no result yet. *)
LEMMA TurnHere ==
  ASSUME NativeInv, FilesInv, ApprovalInv, NEW p \in Procs, NEW n \in Nodes, Turn(p, n)
  PROVE  /\ at[p].pc = "work" /\ result[n] = "none"
         /\ n \in Layer(at[p].past) /\ ~Barred(run, n)
<1>1. PICK i \in 1..Len(at[p].ready) : at[p].ready[i] = n /\ at[p].pc = "work"
  BY DEF Turn
<1>2. GuardedAt(at[p], run, result) /\ Walk(at[p], thr[p], result)
  BY GuardHere
<1>3. Scanned(at[p], result)
  BY <1>1, <1>2 DEF Walk, Scanning
<1>4. Working(at[p], run, result) /\ at[p].pc \in Scanning
  BY <1>1, <1>2 DEF GuardedAt, Scanning
<1>. QED
  BY <1>1, <1>3, <1>4 DEF Scanned, Working

(* A thread's steps keep the invariant.  (_run_node_with_retries) *)
LEMMA ThreadStepGuard ==
  ASSUME Solo, NativeInv, FilesInv, ApprovalInv, NEW p \in Procs, NEW n \in Nodes,
         ThreadStep(p, n)
  PROVE  ApprovalInv'
<1>1. CASE LeaseLook(p, n)
  BY <1>1, WorkGuard DEF LeaseLook, Files
<1>2. CASE \E outcome \in Outcomes : HandlerEnds(p, n, outcome)
  BY <1>2, WorkGuard DEF HandlerEnds, Files
<1>3. CASE \E retryable \in BOOLEAN : Decide(p, n, retryable)
  BY <1>3, WorkGuard DEF Decide, Files
<1>4. CASE LeaseTake(p, n)
  <2>. DEFINE cmd == [type |-> "lease_acquired", node |-> n, owner |-> "native",
                      ttl |-> LeaseTtl]
              k   == thr[p][n].num
              key == <<n, "lease", k>>
  <2>1. /\ Turn(p, n) /\ thr[p][n].pc = "take" /\ at' = at /\ result' = result
        /\ run' = RunAfter(cmd, key, k)
    BY <1>4 DEF LeaseTake, Files
  <2>2. k \in 1..MaxLeases
    BY <2>1, Here DEF ThreadOK
  <2>3. cmd \in Commands /\ cmd.type = "lease_acquired" /\ cmd.node = n
    BY OtherCmdTypes
  <2>4. key \in Keys
    BY <2>2, StoreAssumption DEF NativeKeys
  <2>5. Own(cmd, key, result)
    BY TripleOwn
  <2>. HIDE DEF cmd, key
  <2>6. Lawful(cmd, result)
    BY <2>1, <2>3, TurnHere DEF Lawful
  <2>. QED
    BY <2>1, <2>3, <2>4, <2>5, <2>6, WorkGuard
<1>5. CASE Retry(p, n)
  <2>. DEFINE cmd == [type |-> "retry_recorded", node |-> n, class |-> "transient"]
              k   == thr[p][n].try
              key == <<n, "retry", k>>
  <2>1. /\ thr[p][n].pc = "retry" /\ at' = at /\ result' = result
        /\ run' = RunAfter(cmd, key, 0)
    BY <1>5 DEF Retry, Files
  <2>2. k \in Nat /\ 1 <= k /\ k < MaxTries
    BY <2>1, Here DEF ThreadOK, Threads
  <2>3. k \in 1..MaxTries
    BY <2>2, NativeAssumption
  <2>4. cmd \in Commands /\ cmd.type = "retry_recorded"
    BY OtherCmdTypes
  <2>5. key \in Keys
    BY <2>3, StoreAssumption DEF NativeKeys
  <2>6. Own(cmd, key, result)
    BY TripleOwn
  <2>. HIDE DEF cmd, key
  <2>7. Lawful(cmd, result)
    BY <2>4, OtherLawful
  <2>. QED
    BY <2>1, <2>4, <2>5, <2>6, <2>7, WorkGuard
<1>6. CASE Release(p, n)
  <2>. DEFINE k   == thr[p][n].num
              cmd == [type |-> "lease_released", node |-> n, token |-> k]
              key == <<n, "release", k>>
  <2>1. /\ thr[p][n].pc = "release" /\ at' = at /\ result' = result
        /\ run' = RunAfter(cmd, key, 0)
    BY <1>6 DEF Release, Files
  <2>2. k \in 1..MaxLeases /\ k \in Nat
    BY <2>1, Here DEF ThreadOK, Threads
  <2>3. cmd \in Commands /\ cmd.type = "lease_released"
    BY <2>2, OtherCmdTypes
  <2>4. key \in Keys
    BY <2>2, StoreAssumption DEF NativeKeys
  <2>5. Own(cmd, key, result)
    BY TripleOwn
  <2>. HIDE DEF cmd, key
  <2>6. Lawful(cmd, result)
    BY <2>3, OtherLawful
  <2>. QED
    BY <2>1, <2>3, <2>4, <2>5, <2>6, WorkGuard
<1>. QED
  BY <1>1, <1>2, <1>3, <1>4, <1>5, <1>6 DEF ThreadStep

-----------------------------------------------------------------------------
(* The layer's results. *)

(* What is needed while results are written. *)
LEMMA AtSettle ==
  ASSUME NEW b, NEW r, NEW res, b.pc \in Settles, b.past \in Prefixes, Recalled(b, r),
         b.ready # <<>> => NoneOpen(r),
         \A i \in 1..Len(b.ready) : b.ready[i] \in Layer(b.past),
         \A n \in Layer(b.past) : ~Barred(r, n),
         b.term # None => res[b.term] \in {"failed", "skipped"}
  PROVE  GuardedAt(b, r, res)
<1>1. b.pc \notin Scanning \cup AtGate \cup Replaying \cup {"begin", "gate", "ask",
                     "replay-fail", "failing"}
  BY DEF Settles, Scanning, AtGate, Replaying
<1>2. Quiet(b) => NoneOpen(r)
  BY DEF Quiet, Settles
<1>3. Facing(b, r)
  BY <1>1 DEF Facing
<1>4. Working(b, r, res)
  BY <1>1 DEF Working
<1>. QED
  BY <1>1, <1>2, <1>3, <1>4 DEF GuardedAt

(* Join keeps the invariant.  (_run_ready_nodes) *)
LEMMA JoinGuard ==
  ASSUME Solo, NativeInv, FilesInv, ApprovalInv, NEW p \in Procs, Join(p)
  PROVE  ApprovalInv'
<1>. DEFINE b == [at[p] EXCEPT !.pc = "write", !.pos = 1]
<1>1. /\ at[p].pc = "work" /\ at[p].pc \in Scanning /\ run' = run /\ result' = result
  BY DEF Join, Rest, Files, Scanning
<1>2. /\ at[p] \in Places /\ PlaceOK(at[p], run) /\ GuardedAt(at[p], run, result)
      /\ at[p].past \in Prefixes /\ Recalled(at[p], run)
  BY GuardHere
<1>3. Len(at[p].ready) \in Nat /\ at[p].ready \in Seq(Nodes)
  BY <1>2, ReadyNodes DEF Places
<1>4. at[p].ready # <<>> => NoneOpen(run)
  BY <1>1, QuietHere DEF Quiet
<1>5. CASE \E i \in Raising(p) : at' = [at EXCEPT ![p] = Raise(p, ResultAt(p, i))]
  <2>1. PICK i \in Raising(p) : at' = [at EXCEPT ![p] = Raise(p, ResultAt(p, i))]
    BY <1>5
  <2>2. i \in 1..Len(at[p].ready)
    BY DEF Raising
  <2>3. at[p].ready # <<>>
    BY <1>3, <2>2
  <2>4. GuardedAt(Raise(p, ResultAt(p, i)), run, result)
    BY <1>2, <1>4, <2>3, AtRaise
  <2>. QED
    BY <1>1, <2>1, <2>4, GuardLocal
<1>6. CASE at' = [at EXCEPT ![p] = b]
  <2>1. /\ b.pc = "write" /\ b.past = at[p].past /\ b.ready = at[p].ready
        /\ b.cur = at[p].cur /\ b.term = at[p].term
    BY <1>2 DEF Places
  <2>. HIDE DEF b
  <2>2. b.term = None
    BY <1>1, <1>2, <2>1 DEF PlaceOK
  <2>3. /\ \A i \in 1..Len(at[p].ready) : at[p].ready[i] \in Layer(at[p].past)
        /\ \A n \in Layer(at[p].past) : ~Barred(run, n)
    BY <1>1, <1>2 DEF GuardedAt, Working
  <2>4. Recalled(b, run)
    BY <1>2, <2>1 DEF Recalled
  <2>5. b.pc \in Settles
    BY <2>1 DEF Settles
  <2>6. GuardedAt(b, run, result)
    BY <1>2, <1>4, <2>1, <2>2, <2>3, <2>4, <2>5, AtSettle
  <2>. QED
    BY <1>1, <1>6, <2>6, GuardLocal
<1>. QED
  BY <1>5, <1>6 DEF Join

(* What holds while results are written. *)
LEMMA SettleGuardHere ==
  ASSUME NativeInv, FilesInv, ApprovalInv, NEW p \in Procs, at[p].pc \in Settles
  PROVE  /\ at[p].ready # <<>> => NoneOpen(run)
         /\ \A i \in 1..Len(at[p].ready) : at[p].ready[i] \in Layer(at[p].past)
         /\ \A n \in Layer(at[p].past) : ~Barred(run, n)
         /\ at[p].term # None => result[at[p].term] \in {"failed", "skipped"}
         /\ Collected(at[p], thr[p], result)
         /\ \A n \in at[p].past : result[n] = "succeeded"
<1>1. GuardedAt(at[p], run, result) /\ Walk(at[p], thr[p], result)
  BY GuardHere
<1>2. at[p].ready # <<>> => NoneOpen(run)
  BY QuietHere DEF Quiet
<1>3. Working(at[p], run, result)
  BY <1>1 DEF GuardedAt
<1>4. /\ Collected(at[p], thr[p], result)
      /\ \A n \in at[p].past : result[n] = "succeeded"
  BY <1>1 DEF Walk, Settles
<1>. QED
  BY <1>2, <1>3, <1>4 DEF Working

(* The files of a layer without barred nodes: no barred node of a later    *)
(* layer had a file before it, and none of an earlier one is left.         *)
LEMMA WriteGuarded ==
  ASSUME NEW r, NEW res, NEW res2, GuardedRun(r, res), NoneOpen(r), NEW past \in Prefixes,
         \A n \in Layer(past) : ~Barred(r, n), \A n \in past : res[n] = "succeeded",
         NEW m \in Layer(past), res2[m] # "none",
         \A n \in Nodes : n # m => res2[n] = res[n]
  PROVE  GuardedRun(r, res2)
<1>1. ASSUME NEW n \in Nodes PROVE NodeGuarded(r, res2, n)
  <2>1. NodeGuarded(r, res, n)
    BY DEF GuardedRun
  <2>2. ~Open(r, n)
    BY DEF NoneOpen
  <2>3. r.idem[<<n, "release-replay">>] # None => r.nodes[n].lease = None /\ res2[n] # "none"
    BY <2>1 DEF NodeGuarded
  <2>4. ASSUME Barred(r, n), NEW S \in Prefixes, n \in Layer(S), NEW d \in Nodes \ S
        PROVE  res2[d] = "none"
    <3>1. \A e \in Nodes \ S : res[e] = "none"
      BY <2>1, <2>4 DEF NodeGuarded
    <3>2. CASE d # m
      BY <3>1, <3>2
    <3>3. CASE d = m
      <4>1. m \notin S
        BY <3>3
      <4>2. S = past \/ n \in past
        BY <2>4, <4>1, SameOrEarlier
      <4>3. n \in Nodes \ S
        BY <2>4 DEF Layer
      <4>4. n \notin past
        BY <3>1, <4>3
      <4>5. n \in Layer(past)
        BY <2>4, <4>2, <4>4
      <4>. QED
        BY <2>4, <4>5
    <3>. QED
      BY <3>2, <3>3
  <2>. QED
    BY <2>1, <2>2, <2>3, <2>4 DEF NodeGuarded
<1>. QED
  BY <1>1 DEF GuardedRun

(* One result file is written. *)
LEMMA WriteGuard ==
  ASSUME Solo, NativeInv, FilesInv, ApprovalInv, NEW p \in Procs, at[p].pc \in Settles,
         at[p].pc # "write" \/ Unsettled(p), result[Settling(p)] \in {"none", "torn"},
         NEW v, v # "none", result' = [result EXCEPT ![Settling(p)] = v],
         NEW step \in {"write-end", "record"}, at' = [at EXCEPT ![p] = Goto(p, step)],
         run' = run
  PROVE  ApprovalInv'
<1>. DEFINE b == Goto(p, step)
            m == Settling(p)
<1>1. /\ at[p] \in Places /\ GuardedRun(run, result)
      /\ at[p].past \in Prefixes /\ Recalled(at[p], run)
  BY GuardHere
<1>2. at[p].pos \in 1..Len(at[p].ready) /\ m \in Nodes
  BY SettleHere
<1>3. /\ at[p].ready # <<>> => NoneOpen(run)
      /\ \A i \in 1..Len(at[p].ready) : at[p].ready[i] \in Layer(at[p].past)
      /\ \A n \in Layer(at[p].past) : ~Barred(run, n)
      /\ at[p].term # None => result[at[p].term] \in {"failed", "skipped"}
      /\ \A n \in at[p].past : result[n] = "succeeded"
  BY SettleGuardHere
<1>4. at[p].ready # <<>>
  <2>1. at[p].ready \in Seq(Nodes)
    BY <1>1 DEF Places
  <2>. QED
    BY <1>2, <2>1
<1>5. /\ b.pc = step /\ b.past = at[p].past /\ b.ready = at[p].ready
      /\ b.cur = at[p].cur /\ b.term = at[p].term /\ b.term \in Nodes \cup {None}
  BY <1>1 DEF Goto, Places
<1>6. result \in [Nodes -> {"none", "torn"} \cup Written]
  BY DEF NativeInv, Globals
<1>7. m \in Layer(at[p].past) /\ result[m] \in {"none", "torn"}
  BY <1>2, <1>3 DEF Settling
<1>. HIDE DEF b, m
<1>8. result'[m] = v /\ \A n \in Nodes : n # m => result'[n] = result[n]
  BY <1>2, <1>6 DEF m
<1>9. GuardedRun(run, result')
  <2>1. PICK res2 : res2 = result'
    OBVIOUS
  <2>2. res2[m] # "none" /\ NoneOpen(run)
    BY <1>3, <1>4, <1>8, <2>1
  <2>3. \A n \in Nodes : n # m => res2[n] = result[n]
    BY <1>8, <2>1
  <2>4. PICK past \in Prefixes : past = at[p].past
    BY <1>1
  <2>5. m \in Layer(past)
    BY <1>7, <2>4
  <2>6. /\ \A n \in Layer(past) : ~Barred(run, n)
        /\ \A n \in past : result[n] = "succeeded"
    BY <1>3, <2>4
  <2>7. GuardedRun(run, res2)
    BY <1>1, <2>2, <2>3, <2>5, <2>6, WriteGuarded
  <2>. QED
    BY <2>1, <2>7
<1>10. b.term # None => result'[b.term] \in {"failed", "skipped"}
  BY <1>3, <1>5, <1>7, <1>8
<1>11. Recalled(b, run)
  BY <1>1, <1>5 DEF Recalled
<1>12. b.pc \in Settles
  BY <1>5 DEF Settles
<1>13. GuardedAt(b, run, result')
  BY <1>1, <1>3, <1>4, <1>5, <1>10, <1>11, <1>12, AtSettle
<1>14. at' = [at EXCEPT ![p] = b]
  BY DEF b
<1>. QED
  BY <1>9, <1>13, <1>14, GuardStep

(* OpenResult keeps the invariant.  (_write_result) *)
LEMMA OpenResultGuard ==
  ASSUME Solo, NativeInv, FilesInv, ApprovalInv, NEW p \in Procs, OpenResult(p)
  PROVE  ApprovalInv'
<1>1. /\ at[p].pc = "write" /\ at[p].pc \in Settles /\ Unsettled(p)
      /\ result' = [result EXCEPT ![Settling(p)] = "torn"]
      /\ at' = [at EXCEPT ![p] = Goto(p, "write-end")] /\ run' = run
  BY DEF OpenResult, Settles
<1>2. at[p].pos \in 1..Len(at[p].ready) /\ Walk(at[p], thr[p], result)
  BY <1>1, SettleHere, WalkHere
<1>3. result[Settling(p)] = "none"
  BY <1>1, <1>2 DEF Walk, Collected, Settling
<1>. QED
  BY <1>1, <1>3, WriteGuard

(* FillResult keeps the invariant.  (_write_result: write_text) *)
LEMMA FillResultGuard ==
  ASSUME Solo, NativeInv, FilesInv, ApprovalInv, NEW p \in Procs, FillResult(p)
  PROVE  ApprovalInv'
<1>1. /\ at[p].pc = "write-end" /\ at[p].pc \in Settles
      /\ result' = [result EXCEPT ![Settling(p)] = ResultAt(p, at[p].pos)]
      /\ at' = [at EXCEPT ![p] = Goto(p, "record")] /\ run' = run
  BY DEF FillResult, Settles
<1>2. /\ at[p].pos \in 1..Len(at[p].ready) /\ Walk(at[p], thr[p], result)
      /\ ResultAt(p, at[p].pos) \in Written
  BY <1>1, SettleHere, WalkHere
<1>3. result[Settling(p)] = "torn"
  BY <1>1, <1>2 DEF Walk, Collected, Settling
<1>4. ResultAt(p, at[p].pos) # "none"
  BY <1>2 DEF Written
<1>. QED
  BY <1>1, <1>3, <1>4, WriteGuard

(* Record keeps the invariant.  (execute: record the result) *)
LEMMA RecordGuard ==
  ASSUME Solo, NativeInv, FilesInv, ApprovalInv, NEW p \in Procs, Record(p)
  PROVE  ApprovalInv'
<1>. DEFINE n      == Settling(p)
            status == ResultAt(p, at[p].pos)
            ends   == status = "failed" \/ (status = "skipped" /\ at[p].term = None)
            b      == [at[p] EXCEPT !.pc = "write", !.pos = @ + 1,
                                    !.term = IF ends THEN n ELSE @]
            cmd    == Recording(n, status)
            key    == RecordKey(n, status)
            s      == RunAfter(cmd, key, 0)
<1>1. CallAt("record", p, cmd, key, b) /\ at[p].pc = "record" /\ at[p].pc \in Settles
  BY DEF Record, CallAt, Settles
<1>2. /\ run \in Snapshots /\ at[p] \in Places /\ GuardedRun(run, result)
      /\ at[p].past \in Prefixes /\ Recalled(at[p], run)
  BY GuardHere
<1>3. at[p].pos \in 1..Len(at[p].ready) /\ n \in Nodes /\ status \in Written
  BY <1>1, SettleHere
<1>4. /\ at[p].ready # <<>> => NoneOpen(run)
      /\ \A i \in 1..Len(at[p].ready) : at[p].ready[i] \in Layer(at[p].past)
      /\ \A m \in Layer(at[p].past) : ~Barred(run, m)
      /\ at[p].term # None => result[at[p].term] \in {"failed", "skipped"}
      /\ Collected(at[p], thr[p], result)
  BY <1>1, SettleGuardHere
<1>5. result[n] = status
  BY <1>1, <1>3, <1>4 DEF Collected, Settling, ResultAt
<1>6. NoneOpen(run)
  <2>1. at[p].ready \in Seq(Nodes)
    BY <1>2 DEF Places
  <2>2. at[p].ready # <<>>
    BY <1>3, <2>1
  <2>. QED
    BY <1>4, <2>2
<1>7. /\ b.pc = "write" /\ b.past = at[p].past /\ b.ready = at[p].ready
      /\ b.cur = at[p].cur /\ b.term = IF ends THEN n ELSE at[p].term
  BY <1>2 DEF Places
<1>8. ~Barred(run, n)
  BY <1>3, <1>4 DEF Settling
<1>9. /\ Own(cmd, key, result) /\ Lawful(cmd, result)
      /\ cmd.type = "node_transition" /\ cmd.to # "running" /\ cmd.node = n
  BY <1>2, <1>3, <1>8, RecordingLawful DEF GuardedRun
<1>10. cmd \in Commands /\ key \in Keys
  BY <1>3, RecordingType
<1>11. b.term # None => result[b.term] \in {"failed", "skipped"}
  BY <1>4, <1>5, <1>7
<1>. HIDE DEF b, cmd, key, n, status
<1>12. NoneOpen(s)
  BY <1>2, <1>6, <1>9, <1>10, CallNoneOpen
<1>13. Moves(run, s)
  BY <1>2, <1>10, CallMoves
<1>14. Recalled(b, s)
  BY <1>2, <1>7, <1>13, RecalledAfter
<1>15. \A m \in Layer(at[p].past) : ~Barred(s, m)
  <2>1. \A m \in Layer(at[p].past) : m \in Nodes
    BY DEF Layer
  <2>. QED
    BY <1>4, <1>13, <2>1 DEF Moves, Barred
<1>16. b.pc \in Settles
  BY <1>7 DEF Settles
<1>. HIDE DEF s
<1>17. GuardedAt(b, s, result)
  BY <1>2, <1>4, <1>7, <1>11, <1>12, <1>14, <1>15, <1>16, AtSettle
<1>. QED
  BY <1>1, <1>6, <1>9, <1>10, <1>17, GuardCallAt DEF s

(* Settled keeps the invariant.  (execute: the next layer, or the end) *)
LEMMA SettledGuard ==
  ASSUME Solo, NativeInv, FilesInv, ApprovalInv, NEW p \in Procs, Settled(p)
  PROVE  ApprovalInv'
<1>. DEFINE past == at[p].past \cup Layer(at[p].past)
            c    == [at[p] EXCEPT !.pc = "layer", !.past = past]
            d    == [at[p] EXCEPT !.pc = "sweep", !.got = thr[p][at[p].term].res]
            b    == IF at[p].term = None THEN c ELSE d
<1>1. /\ at[p] \in Places /\ GuardedRun(run, result)
      /\ at[p].past \in Prefixes /\ Recalled(at[p], run)
  BY GuardHere
<1>2. /\ at' = [at EXCEPT ![p] = b] /\ at[p].pc = "write" /\ at[p].pc \in Settles
      /\ run' = run /\ result' = result
  <2>1. c = [at[p] EXCEPT !.pc = "layer", !.past = @ \cup Layer(@)]
    BY <1>1 DEF Places
  <2>. QED
    BY <2>1 DEF Settled, Files, Settles
<1>3. past \in Prefixes
  BY <1>1, PrefixesClosed
<1>4. /\ c.pc = "layer" /\ c.past = past /\ c.cur = at[p].cur
      /\ d.pc = "sweep" /\ d.past = at[p].past /\ d.cur = at[p].cur
  <2>. HIDE DEF past
  <2>. QED
    BY <1>1 DEF Places
<1>. HIDE DEF c, d, past
<1>5. Recalled(c, run) /\ Recalled(d, run)
  BY <1>1, <1>4 DEF Recalled
<1>6. GuardedAt(c, run, result)
  <2>1. c.pc \in Outside
    BY <1>4 DEF Outside
  <2>. QED
    BY <1>3, <1>4, <1>5, <2>1, AtOutside
<1>7. ASSUME at[p].term # None PROVE GuardedAt(d, run, result)
  <2>1. at[p].term \in Nodes
    BY <1>1, <1>7 DEF Places
  <2>2. result[at[p].term] \notin {"none", "succeeded"}
    BY <1>2, <1>7, SettleGuardHere
  <2>3. NoneOpen(run)
    BY <1>1, <2>1, <2>2, FileBars
  <2>. QED
    BY <1>1, <1>4, <1>5, <2>3, AtEnd
<1>8. GuardedAt(b, run, result)
  BY <1>6, <1>7
<1>. HIDE DEF b
<1>. QED
  BY <1>2, <1>8, GuardLocal

-----------------------------------------------------------------------------
(* The end of the run. *)

(* SweepLoad keeps the invariant.  (_cancel_unfinished_nodes: load) *)
LEMMA SweepLoadGuard ==
  ASSUME Solo, NativeInv, FilesInv, ApprovalInv, NEW p \in Procs, SweepLoad(p)
  PROVE  ApprovalInv'
<1>. DEFINE b == [at[p] EXCEPT !.pc = "sweeping", !.cur = StatesOf(run),
                               !.past = {}, !.pos = 1]
<1>1. /\ at' = [at EXCEPT ![p] = b] /\ run' = run /\ result' = result
      /\ at[p].pc = "sweep"
  BY DEF SweepLoad, Rest, Files
<1>2. at[p] \in Places /\ GuardedRun(run, result)
  BY GuardHere
<1>3. b.pc = "sweeping" /\ b.cur = StatesOf(run) /\ b.past = {}
  BY <1>2 DEF Places
<1>. HIDE DEF b
<1>4. NoneOpen(run)
  BY <1>1, QuietHere DEF Quiet
<1>5. Recalled(b, run)
  BY <1>2, <1>3, RecalledRead
<1>6. b.past \in Prefixes
  BY <1>3, PrefixesClosed
<1>7. GuardedAt(b, run, result)
  BY <1>3, <1>4, <1>5, <1>6, AtEnd
<1>. QED
  BY <1>1, <1>7, GuardLocal

(* Sweep keeps the invariant.  (_cancel_unfinished_nodes: cancel_node) *)
LEMMA SweepGuard ==
  ASSUME Solo, NativeInv, FilesInv, ApprovalInv, NEW p \in Procs, Sweep(p)
  PROVE  ApprovalInv'
<1>. DEFINE n     == Node(p)
            cmd   == NodeTo(n, "cancelled", at[p].term)
            key   == <<n, "cancel-unfinished">>
            s     == RunAfter(cmd, key, 0)
            next  == Onward(p)
            taken == [next EXCEPT !.cur = StatesOf(s)]
            other == Raise(p, Answer(cmd, key))
<1>1. /\ at[p].pc = "sweeping" /\ UNCHANGED Rest /\ Layer(at[p].past) # {}
      /\ \/ at' = [at EXCEPT ![p] = next] /\ run' = run
         \/ Call(p, cmd, key, taken, other)
  BY DEF Sweep
<1>2. /\ run \in Snapshots /\ PlaceOK(at[p], run) /\ at[p] \in Places
      /\ GuardedRun(run, result) /\ GuardedAt(at[p], run, result)
      /\ at[p].past \in Prefixes /\ Recalled(at[p], run)
  BY GuardHere
<1>3. at[p].term \in Reasons
  BY <1>1, <1>2, StoreAssumption DEF PlaceOK
<1>4. n \in Nodes
  <2>1. \E m \in Nodes : TRUE
    BY <1>1 DEF Layer
  <2>2. 1 <= Len(Order)
    BY <2>1, GraphAssumption, OrderNodes
  <2>3. at[p].pos <= Len(Order)
    BY <1>1, <1>2, <2>2 DEF PlaceOK
  <2>. QED
    BY <1>2, <2>3, NodeHere
<1>5. next \in Places /\ next.pc = "sweeping" /\ next.cur = at[p].cur
  BY <1>1, <1>2, OnwardFacts
<1>6. next.past \in Prefixes
  <2>1. at[p].past \cup Layer(at[p].past) \in Prefixes
    BY <1>2, PrefixesClosed
  <2>2. next.past \in {at[p].past, at[p].past \cup Layer(at[p].past)}
    BY <1>2 DEF Onward, Places
  <2>. QED
    BY <1>2, <2>1, <2>2
<1>7. NoneOpen(run)
  BY <1>1, QuietHere DEF Quiet
<1>8. cmd \in Commands /\ key \in Keys
  BY <1>3, <1>4, NodeToType, NodeKeys
<1>9. Own(cmd, key, result)
  BY <1>4, NodeOwn
<1>10. Lawful(cmd, result)
  <2>1. "cancelled" \in Waits
    BY DEF Waits
  <2>. QED
    BY <1>4, <2>1, NodeToLawful
<1>11. cmd.to = "cancelled"
  BY DEF NodeTo
<1>12. result' = result
  BY <1>1 DEF Rest, Files
<1>. HIDE DEF next, cmd, key
<1>13. GuardedRun(s, result) /\ NoneOpen(s)
  BY <1>2, <1>7, <1>8, <1>9, <1>10, <1>11, CallGuarded, CallNoneOpen
<1>. HIDE DEF s
<1>14. taken.pc = "sweeping" /\ taken.past = next.past /\ taken.cur = StatesOf(s)
  BY <1>5 DEF Places
<1>. HIDE DEF taken
<1>15. GuardedAt(next, run, result)
  <2>1. Recalled(next, run)
    BY <1>2, <1>5 DEF Recalled
  <2>. QED
    BY <1>5, <1>6, <1>7, <2>1, AtEnd
<1>16. GuardedAt(taken, s, result)
  <2>1. Recalled(taken, s)
    BY <1>13, <1>14, RecalledRead
  <2>. QED
    BY <1>6, <1>13, <1>14, <2>1, AtEnd
<1>17. GuardedAt(other, run, result)
  BY <1>2, <1>7, AtRaise
<1>. HIDE DEF other
<1>18. CASE at' = [at EXCEPT ![p] = next] /\ run' = run
  BY <1>12, <1>15, <1>18, GuardLocal
<1>19. CASE Call(p, cmd, key, taken, other)
  BY <1>1, <1>8, <1>9, <1>10, <1>16, <1>17, <1>19, GuardCall DEF s
<1>. QED
  BY <1>1, <1>18, <1>19

(* What is needed while running nodes are failed. *)
LEMMA AtFailing ==
  ASSUME NEW b, NEW r, NEW res, b.pc = "failing", b.past \in Prefixes, Recalled(b, r),
         NoneOpen(r), \A n \in Nodes : Barred(r, n) => b.cur[n] # "running"
  PROVE  GuardedAt(b, r, res)
<1>1. Facing(b, r)
  BY DEF Facing, AtGate, Replaying
<1>2. Working(b, r, res)
  BY DEF Working, Scanning, AtGate, Replaying, Settles
<1>3. b.pc \notin Scanning
  BY DEF Scanning, AtGate, Replaying
<1>. QED
  BY <1>1, <1>2, <1>3 DEF GuardedAt

(* FailLoad keeps the invariant.  (_fail_running_node: load) *)
LEMMA FailLoadGuard ==
  ASSUME Solo, NativeInv, FilesInv, ApprovalInv, NEW p \in Procs, FailLoad(p)
  PROVE  ApprovalInv'
<1>. DEFINE b == [at[p] EXCEPT !.pc = "failing", !.cur = StatesOf(run), !.pos = 1]
            a == IF run.state # "running" THEN Return("failed") ELSE b
<1>1. /\ at[p].pc = "error" /\ at' = [at EXCEPT ![p] = a] /\ run' = run
      /\ result' = result
  BY DEF FailLoad, Files
<1>2. at[p] \in Places /\ GuardedRun(run, result) /\ at[p].past \in Prefixes
  BY GuardHere
<1>3. b.pc = "failing" /\ b.cur = StatesOf(run) /\ b.past = at[p].past
  BY <1>2 DEF Places
<1>. HIDE DEF b
<1>4. NoneOpen(run)
  BY <1>1, QuietHere DEF Quiet
<1>5. Recalled(b, run)
  BY <1>2, <1>3, RecalledRead
<1>6. \A n \in Nodes : Barred(run, n) => b.cur[n] # "running"
  BY <1>3, <1>4 DEF NoneOpen, Open, StatesOf
<1>7. GuardedAt(b, run, result)
  BY <1>2, <1>3, <1>4, <1>5, <1>6, AtFailing
<1>8. GuardedAt(a, run, result)
  BY <1>7, AtReturn
<1>. HIDE DEF a
<1>. QED
  BY <1>1, <1>8, GuardLocal

(* FailNode keeps the invariant.  (_fail_running_node: fail_node) *)
LEMMA FailNodeGuard ==
  ASSUME Solo, NativeInv, FilesInv, ApprovalInv, NEW p \in Procs, FailNode(p)
  PROVE  ApprovalInv'
<1>. DEFINE n     == Order[at[p].pos]
            cmd   == NodeTo(n, "failed", at[p].why)
            key   == <<n, "exception">>
            s     == RunAfter(cmd, key, 0)
            other == Return(IF Answer(cmd, key) = "refused" THEN "failed"
                                                            ELSE "raised")
<1>0. /\ run \in Snapshots /\ at[p] \in Places /\ PlaceOK(at[p], run) /\ at[p].pos \in Nat
      /\ GuardedAt(at[p], run, result) /\ at[p].past \in Prefixes /\ Recalled(at[p], run)
  BY GuardHere DEF Places
<1>1. PICK k \in Nat : k = at[p].pos + 1
  BY <1>0
<1>. DEFINE next == [at[p] EXCEPT !.pos = k]
<1>2. /\ at[p].pc = "failing" /\ at[p].pos <= Len(Order) /\ UNCHANGED Rest
      /\ \/ at' = [at EXCEPT ![p] = next] /\ run' = run
         \/ at[p].cur[n] = "running" /\ Call(p, cmd, key, next, other)
  <2>1. next = [at[p] EXCEPT !.pos = @ + 1]
    BY <1>1
  <2>2. [at EXCEPT ![p].pos = @ + 1] = [at EXCEPT ![p] = next]
    BY <1>1
  <2>. QED
    BY <2>1, <2>2 DEF FailNode
<1>3. n \in Nodes /\ at[p].why \in Reasons
  BY <1>0, <1>2, NodeHere DEF Places, Node
<1>4. cmd \in Commands /\ key \in Keys
  BY <1>3, NodeToType, NodeKeys
<1>5. next.pc = "failing" /\ next.cur = at[p].cur /\ next.past = at[p].past
  BY <1>0, <1>2 DEF Places
<1>6. result' = result
  BY <1>2 DEF Rest, Files
<1>7. NoneOpen(run)
  BY <1>2, QuietHere DEF Quiet
<1>8. \A m \in Nodes : Barred(run, m) => at[p].cur[m] # "running"
  BY <1>0, <1>2 DEF GuardedAt
<1>9. Own(cmd, key, result)
  BY <1>3, NodeOwn
<1>10. at[p].cur[n] = "running" => Lawful(cmd, result)
  BY <1>3, <1>8, NodeToLawful
<1>11. cmd.to = "failed"
  BY DEF NodeTo
<1>. HIDE DEF next, cmd, key, n
<1>12. NoneOpen(s) /\ Moves(run, s)
  BY <1>0, <1>4, <1>7, <1>11, CallNoneOpen, CallMoves
<1>. HIDE DEF s
<1>13. \A m \in Nodes : Barred(s, m) => Barred(run, m)
  BY <1>12 DEF Moves, Barred
<1>14. GuardedAt(next, run, result)
  <2>1. Recalled(next, run)
    BY <1>0, <1>5 DEF Recalled
  <2>. QED
    BY <1>0, <1>5, <1>7, <1>8, <2>1, AtFailing
<1>15. GuardedAt(next, s, result)
  <2>1. Recalled(next, s)
    BY <1>0, <1>5, <1>12, RecalledAfter
  <2>2. \A m \in Nodes : Barred(s, m) => next.cur[m] # "running"
    BY <1>5, <1>8, <1>13
  <2>. QED
    BY <1>0, <1>5, <1>12, <2>1, <2>2, AtFailing
<1>16. GuardedAt(other, run, result)
  BY AtReturn
<1>. HIDE DEF other
<1>17. CASE at' = [at EXCEPT ![p] = next] /\ run' = run
  BY <1>6, <1>14, <1>17, GuardLocal
<1>18. CASE at[p].cur[n] = "running" /\ Call(p, cmd, key, next, other)
  BY <1>2, <1>4, <1>9, <1>10, <1>15, <1>16, <1>18, GuardCall DEF s
<1>. QED
  BY <1>2, <1>17, <1>18

(* FailRun keeps the invariant.  (_fail_running_node: fail) *)
LEMMA FailRunGuard ==
  ASSUME Solo, NativeInv, FilesInv, ApprovalInv, NEW p \in Procs, FailRun(p)
  PROVE  ApprovalInv'
<1>. DEFINE cmd   == RunTo("failed", at[p].why)
            key   == <<"runtime", "exception">>
            other == Return(IF Answer(cmd, key) = "refused" THEN "failed"
                                                            ELSE "raised")
<1>1. /\ Call(p, cmd, key, Return("failed"), other) /\ UNCHANGED Rest
  BY DEF FailRun
<1>2. at[p].why \in Reasons
  BY Here DEF Places
<1>3. /\ cmd \in Commands /\ key \in Keys /\ Own(cmd, key, result)
      /\ Lawful(cmd, result)
  BY <1>2, RunToType, RuntimeKeys, RuntimeOwn, RunToLawful
<1>4. GuardedAt(other, run, result)
  BY AtReturn
<1>. HIDE DEF cmd, key, other
<1>. QED
  BY <1>1, <1>3, <1>4, AtReturn, GuardCall

(* Crash keeps the invariant.  (death of the process) *)
LEMMA CrashGuard ==
  ASSUME Solo, NativeInv, FilesInv, ApprovalInv, NEW p \in Procs, Crash(p)
  PROVE  ApprovalInv'
<1>1. at' = [at EXCEPT ![p] = Idle] /\ run' = run /\ result' = result
  BY DEF Crash, Files
<1>2. GuardedAt(Idle, run, result)
  BY IdleReturn, AtReturn
<1>. QED
  BY <1>1, <1>2, GuardLocal

(* The operator keeps the invariant: the approval of a node is the only    *)
(* command of his that starts one, and from then on the node is approved.  *)
LEMMA OperatorGuard ==
  ASSUME NativeInv, FilesInv, ApprovalInv, NEW cmd \in Commanded,
         NEW k \in 1..MaxMoves, Operator(cmd, k)
  PROVE  ApprovalInv'
<1>. DEFINE key == <<"operator", k>>
            s   == RunAfter(cmd, key, 0)
<1>1. run' = s /\ at' = at /\ result' = result
  BY DEF Operator, Rest, Files
<1>2. cmd \in Commands /\ run \in Snapshots /\ GuardedRun(run, result)
  BY CommandedType DEF NativeInv, RunOK, ApprovalInv
<1>3. key \in Keys
  BY StoreAssumption DEF NativeKeys
<1>4. \/ cmd.type = "run_transition"
      \/ cmd.type = "node_transition" /\ cmd = ApproveNode(cmd.node)
  <2>1. CASE \E t \in OperatorMoves \ {"approve"} : cmd = RunTo(t, "none")
    BY <2>1 DEF RunTo
  <2>2. CASE \E n \in NeedApproval : cmd = ApproveNode(n)
    BY <2>2 DEF ApproveNode, NodeTo
  <2>3. CASE cmd = ApproveRun
    BY <2>3 DEF ApproveRun, RunTo
  <2>. QED
    BY <2>1, <2>2, <2>3 DEF Commanded
<1>5. Own(cmd, key, result)
  BY OperatorOwn
<1>6. Lawful(cmd, result)
  BY <1>4 DEF Lawful
<1>. HIDE DEF key
<1>7. GuardedRun(s, result)
  BY <1>2, <1>3, <1>5, <1>6, CallGuarded
<1>8. Still(run, s, {})
  BY <1>2, <1>3, <1>4, CallStill
<1>. HIDE DEF s
<1>9. ASSUME NEW p \in Procs PROVE GuardedAt(at[p], s, result)
  BY <1>8, GuardHere, AtStill
<1>. QED
  BY <1>1, <1>7, <1>9 DEF ApprovalInv

-----------------------------------------------------------------------------
(* The invariant holds at first: nothing was begun. *)
LEMMA ApprovalInit == Init => ApprovalInv
<1>. SUFFICES ASSUME Init PROVE ApprovalInv
  OBVIOUS
<1>1. run = NoRun /\ at = [p \in Procs |-> Idle] /\ result = [n \in Nodes |-> "none"]
  BY DEF Init
<1>2. /\ \A n \in Nodes : run.nodes[n].state = "pending"
      /\ run.state = None /\ \A key \in Keys : run.idem[key] = None
  BY <1>1 DEF NoRun
<1>3. \A p \in Procs : GuardedAt(at[p], run, result)
  BY <1>1, IdleReturn, AtReturn
<1>4. None # "cancelled"
  BY NoneAssumption DEF RunStates
<1>5. OwnKeys(run)
  BY <1>2, RuntimeKeys, NodeKeys DEF OwnKeys
<1>6. ASSUME NEW n \in Nodes PROVE NodeGuarded(run, result, n)
  <2>1. /\ run.idem[<<n, "release-replay">>] = None /\ run.idem[<<n, "start">>] = None
        /\ run.idem[<<n, "approval-request">>] = None
    BY <1>2, NodeKeys
  <2>2. \A m \in Nodes : result[m] = "none"
    BY <1>1
  <2>. QED
    BY <1>2, <2>1, <2>2 DEF NodeGuarded, Open, Waits
<1>. QED
  BY <1>2, <1>3, <1>4, <1>5, <1>6 DEF ApprovalInv, GuardedRun

(* Every step keeps it: one lemma per action. *)
LEMMA ApprovalNext ==
  ASSUME Solo, NativeInv, FilesInv, ApprovalInv, [Next]_vars PROVE ApprovalInv'
<1>1. CASE UNCHANGED vars
  BY <1>1 DEF vars, ApprovalInv
<1>2. ASSUME NEW p \in Procs, NEW resume \in BOOLEAN, Execute(p, resume)
      PROVE  ApprovalInv'
  BY <1>2, ExecuteGuard
<1>3. ASSUME NEW p \in Procs, Step(p) PROVE ApprovalInv'
  <2>1. CASE Load(p) \/ Create(p) \/ OpenManifest(p) \/ FillManifest(p) \/ Start(p)
    BY <2>1, LoadGuard, CreateGuard, OpenManifestGuard, FillManifestGuard, StartGuard
  <2>2. CASE EnterLayer(p) \/ Scan(p) \/ Begin(p) \/ Gate(p) \/ AskNode(p) \/ AskRun(p)
    BY <2>2, EnterLayerGuard, ScanGuard, BeginGuard, GateGuard, AskNodeGuard,
       AskRunGuard
  <2>3. CASE \/ ReplayLoad(p) \/ ReplayLease(p) \/ ReplayResume(p) \/ ReplayStart(p)
             \/ ReplayApply(p) \/ ReplayFail(p)
    BY <2>3, ReplayLoadGuard, ReplayLeaseGuard, ReplayResumeGuard, ReplayStartGuard,
       ReplayApplyGuard, ReplayFailGuard
  <2>4. CASE \/ StartWork(p) \/ Join(p)
             \/ OpenResult(p) \/ FillResult(p) \/ Record(p) \/ Settled(p)
    BY <2>4, StartWorkGuard, JoinGuard, OpenResultGuard, FillResultGuard,
       RecordGuard, SettledGuard
  <2>5. CASE \/ SweepLoad(p) \/ Sweep(p) \/ EndRun(p) \/ Complete(p)
             \/ FailLoad(p) \/ FailNode(p) \/ FailRun(p)
    BY <2>5, SweepLoadGuard, SweepGuard, EndRunGuard, CompleteGuard, FailLoadGuard,
       FailNodeGuard, FailRunGuard
  <2>. QED
    BY <1>3, <2>1, <2>2, <2>3, <2>4, <2>5 DEF Step
<1>4. ASSUME NEW p \in Procs, NEW n \in Nodes, ThreadStep(p, n) PROVE ApprovalInv'
  BY <1>4, ThreadStepGuard
<1>5. ASSUME NEW p \in Procs, Crash(p) PROVE ApprovalInv'
  BY <1>5, CrashGuard
<1>6. ASSUME NEW cmd \in Commanded, NEW k \in 1..MaxMoves, Operator(cmd, k)
      PROVE  ApprovalInv'
  BY <1>6, OperatorGuard
<1>7. CASE Tick
  BY <1>7 DEF Tick, Files, ApprovalInv
<1>. QED
  BY <1>1, <1>2, <1>3, <1>4, <1>5, <1>6, <1>7 DEF Next

(* With one process at a time a node that nobody approved waits at its     *)
(* gate, behind nodes that have passed theirs, in every reachable state.   *)
THEOREM ApprovalInvHolds ==
  ASSUME Solo PROVE Spec => []ApprovalInv
<1>1. Init => ApprovalInv
  BY ApprovalInit
<1>2. NativeInv /\ FilesInv /\ ApprovalInv /\ [Next]_vars => ApprovalInv'
  BY ApprovalNext
<1>. QED
  BY <1>1, <1>2, NativeInvHolds, FilesInvHolds, PTL DEF Spec

(* One process at a time: the handler of a node that needs approval starts *)
(* only after somebody approved that very node, in every graph, over any   *)
(* deaths, resumptions and operators' moves.                               *)
THEOREM ApprovedFirstHolds ==
  ASSUME Solo PROVE Spec => ApprovedFirst
<1>. DEFINE P == \A p \in Procs, n \in NeedApproval : HandlerStarts(p, n) => Approved(n)
<1>1. ASSUME NativeInv, FilesInv, ApprovalInv, [Next]_vars PROVE [P]_vars
  <2>1. SUFFICES ASSUME Next, NEW p \in Procs, NEW n \in NeedApproval, HandlerStarts(p, n)
                 PROVE  Approved(n)
    BY <1>1
  <2>2. n \in Nodes
    BY GraphAssumption
  <2>3. Turn(p, n)
    BY <1>1, <2>1, <2>2, StartsTurn
  <2>4. ~Barred(run, n)
    BY <1>1, <2>2, <2>3, TurnHere
  <2>. QED
    BY <2>4 DEF Barred, ApprovedIn, Approved
<1>2. NativeInv /\ FilesInv /\ ApprovalInv /\ [Next]_vars => [P]_vars
  BY <1>1
<1>3. Spec => [][P]_vars
  BY <1>2, NativeInvHolds, FilesInvHolds, ApprovalInvHolds, PTL DEF Spec
<1>. QED
  BY <1>3 DEF ApprovedFirst
=============================================================================
