--------------------------- MODULE RunCommandsProofs ---------------------------
(***************************************************************************)
(* Lemmas about commands and snapshots that the proofs of the store and of *)
(* its users share: what an admitted command makes of a snapshot.          *)
(***************************************************************************)
EXTENDS RunCommands, TLAPS

(* The fields a command of each type carries, and their ranges. *)
LEMMA CommandFields ==
  ASSUME NEW cmd \in Commands
  PROVE  /\ cmd.type = "run_transition" =>
              cmd.to \in RunTargets /\ cmd.approved \in BOOLEAN
         /\ cmd.type = "node_transition" =>
              cmd.node \in Nodes /\ cmd.to \in NodeTargets
         /\ cmd.type = "lease_acquired" =>
              cmd.node \in Nodes /\ cmd.owner \in Clients /\ cmd.ttl \in Ttls
         /\ cmd.type = "lease_heartbeat" =>
              cmd.node \in Nodes /\ cmd.ttl \in Ttls /\ cmd.token \in Nat
         /\ cmd.type = "lease_released" =>
              cmd.node \in Nodes /\ cmd.token \in Nat
         /\ cmd.type = "retry_recorded" => cmd.node \in Nodes
  BY DEF Commands, CommandsWith, RunCmds, NodeCmds, AcquireCmds, HeartbeatCmds,
         ReleaseCmds, ExpireCmds, RetryCmds, CreateCmds

(* The events written are well formed. *)
LEMMA EventType ==
  ASSUME NEW s \in Snapshots, NEW cmd \in Commands, NEW key \in Keys,
         NEW at \in Nat
  PROVE  EventOf(s, cmd, key, at) \in Events
<1>1. /\ s.state \in RunStates \cup {None}
      /\ \A n \in Nodes : /\ s.nodes[n].state \in NodeStates
                          /\ s.nodes[n].attempts \in Nat
  BY DEF Snapshots, NodeSnapshots
<1>2. Expired(s, at) \in SUBSET Nodes
  BY DEF Expired
<1>. QED
  BY <1>1, <1>2, CommandFields DEF EventOf, Events

(* Replaying a recorded event turns a snapshot into a snapshot. *)
LEMMA ApplyType ==
  ASSUME NEW s \in Snapshots, NEW cmd \in Commands, NEW key \in Keys,
         NEW at \in Nat, NEW seq \in Nat, Permits(s, cmd, at)
  PROVE  Apply(s, EventOf(s, cmd, key, at), seq) \in Snapshots
<1>. DEFINE e == EventOf(s, cmd, key, at)
<1>1. /\ s.state \in RunStates \cup {None}
      /\ s.nodes \in [Nodes -> NodeSnapshots]
      /\ s.approvals \in Nat
      /\ s.idem \in [Keys -> Commands \cup {None}]
  BY DEF Snapshots
<1>2. e.cmd = cmd /\ e.key = key /\ e.at = at
  BY DEF EventOf
<1>3. e.attempt \in Nat
  BY EventType DEF Events
<1>4. StateAfter(s, e) \in RunStates \cup {None}
  BY <1>1, <1>2, CommandFields, ConstantsAssumption DEF StateAfter, RunStates
<1>5. NodesAfter(s, e, seq) \in [Nodes -> NodeSnapshots]
  <2>1. CASE cmd.type = "run_transition" /\ cmd.to = "cancelled"
    <3>1. \A n \in Nodes : CancelNode(s.nodes[n]) \in NodeSnapshots
      BY <1>1 DEF CancelNode, NodeSnapshots, NodeStates
    <3>. QED
      BY <1>2, <2>1, <3>1 DEF NodesAfter
  <2>2. CASE cmd.type = "node_transition"
    BY <1>1, <1>2, <2>2, CommandFields, ConstantsAssumption
      DEF NodesAfter, NodeSnapshots
  <2>3. CASE cmd.type = "lease_acquired"
    <3>1. cmd.node \in Nodes /\ cmd.owner \in Clients /\ cmd.ttl \in Nat
      BY <2>3, CommandFields, ConstantsAssumption
    <3>2. at + cmd.ttl \in Nat
      BY <3>1
    <3>3. [owner |-> cmd.owner, token |-> seq, expires |-> at + cmd.ttl]
            \in Leases
      BY <3>1, <3>2 DEF Leases
    <3>. QED
      BY <1>1, <1>2, <2>3, <3>1, <3>3 DEF NodesAfter, NodeSnapshots
  <2>4. CASE cmd.type = "lease_heartbeat"
    <3>1. /\ cmd.node \in Nodes
          /\ s.nodes[cmd.node].lease \in Leases
          /\ at + cmd.ttl \in Nat
      BY <1>1, <2>4, CommandFields, ConstantsAssumption
        DEF Permits, HoldsLease, NodeSnapshots
    <3>2. [s.nodes[cmd.node].lease EXCEPT !.expires = at + cmd.ttl] \in Leases
      BY <3>1 DEF Leases
    <3>. QED
      BY <1>1, <1>2, <2>4, <3>1, <3>2 DEF NodesAfter, NodeSnapshots
  <2>5. CASE cmd.type = "lease_released"
    BY <1>1, <1>2, <2>5, CommandFields DEF NodesAfter, NodeSnapshots
  <2>6. CASE cmd.type = "leases_expired"
    <3>1. \A n \in Nodes : [s.nodes[n] EXCEPT !.lease = None] \in NodeSnapshots
      BY <1>1 DEF NodeSnapshots
    <3>. QED
      BY <1>1, <1>2, <2>6, <3>1 DEF NodesAfter
  <2>7. CASE cmd.type = "retry_recorded"
    BY <1>1, <1>2, <1>3, <2>7, CommandFields DEF NodesAfter, NodeSnapshots
  <2>8. CASE /\ ~(cmd.type = "run_transition" /\ cmd.to = "cancelled")
             /\ cmd.type \notin {"node_transition", "lease_acquired",
                  "lease_heartbeat", "lease_released", "leases_expired",
                  "retry_recorded"}
    BY <1>1, <1>2, <2>8 DEF NodesAfter
  <2>. QED
    BY <2>1, <2>2, <2>3, <2>4, <2>5, <2>6, <2>7, <2>8
<1>6. [s.idem EXCEPT ![e.key] = e.cmd] \in [Keys -> Commands \cup {None}]
  BY <1>1, <1>2
<1>7. (IF e.cmd.type = "run_transition" /\ e.cmd.approved
         THEN s.approvals + 1 ELSE s.approvals) \in Nat
  BY <1>1
<1>. QED
  BY <1>4, <1>5, <1>6, <1>7 DEF Apply, Snapshots

(* None is not a snapshot state that replay can produce. *)
LEMMA NoRunType == NoRun \in Snapshots
  BY DEF NoRun, Snapshots, NodeSnapshots, NodeStates

(* Replay accepts every event an operation's own checks admit. *)
LEMMA AdmittedAccepted ==
  ASSUME NEW s \in Snapshots, NEW cmd \in Commands, NEW key \in Keys,
         NEW at \in Nat, Permits(s, cmd, at), s.idem[key] = None
  PROVE  ApplyAccepts(s, EventOf(s, cmd, key, at))
<1>. DEFINE e == EventOf(s, cmd, key, at)
<1>1. e.cmd = cmd /\ e.key = key
  BY DEF EventOf
<1>2. (s.state = None) <=> (cmd.type = "run_created")
  BY NoneAssumption DEF Permits, RunMove, NodeMove, Vacant, HoldsLease, RunEdges,
         RunStates
<1>3. cmd.type = "run_transition" =>
        e.from = s.state /\ <<s.state, cmd.to>> \in RunEdges
  BY DEF Permits, RunMove, EventOf
<1>4. cmd.type = "node_transition" =>
        /\ e.from = s.nodes[cmd.node].state
        /\ <<s.nodes[cmd.node].state, cmd.to>> \in NodeEdges
  BY DEF Permits, NodeMove, EventOf
<1>5. cmd.type \in {"lease_heartbeat", "lease_released"} =>
        /\ s.nodes[cmd.node].lease # None
        /\ s.nodes[cmd.node].lease.token = cmd.token
  BY DEF Permits, HoldsLease
<1>. QED
  BY <1>1, <1>2, <1>3, <1>4, <1>5 DEF ApplyAccepts

(* Only run_created applies to a missing run, and it leaves a run. *)
LEMMA RunExistsAfter ==
  ASSUME NEW s \in Snapshots, NEW cmd \in Commands, NEW key \in Keys,
         NEW at \in Nat, NEW seq \in Nat, Permits(s, cmd, at)
  PROVE  Apply(s, EventOf(s, cmd, key, at), seq).state # None
<1>. DEFINE e == EventOf(s, cmd, key, at)
<1>1. e.cmd = cmd
  BY DEF EventOf
<1>2. Apply(s, e, seq).state = StateAfter(s, e)
  BY DEF Apply
<1>3. CASE cmd.type = "run_created"
  BY <1>1, <1>2, <1>3, NoneAssumption DEF StateAfter, RunStates
<1>4. CASE cmd.type = "run_transition"
  BY <1>1, <1>2, <1>4, NoneAssumption, CommandFields, ConstantsAssumption
    DEF StateAfter
<1>5. CASE cmd.type \notin {"run_created", "run_transition"}
  <2>1. s.state # None
    BY <1>5 DEF Permits, NodeMove, Vacant, HoldsLease
  <2>. QED
    BY <1>1, <1>2, <1>5, <2>1 DEF StateAfter
<1>. QED
  BY <1>3, <1>4, <1>5

(* A cancelled run has only terminal nodes after any admitted command. *)
LEMMA CancelSettlesAfter ==
  ASSUME NEW s \in Snapshots, NEW cmd \in Commands, NEW key \in Keys,
         NEW at \in Nat, NEW seq \in Nat, Permits(s, cmd, at),
         s.state = "cancelled" =>
           \A n \in Nodes : s.nodes[n].state \in NodeTerminal,
         Apply(s, EventOf(s, cmd, key, at), seq).state = "cancelled",
         NEW n \in Nodes
  PROVE  Apply(s, EventOf(s, cmd, key, at), seq).nodes[n].state
           \in NodeTerminal
<1>. DEFINE e == EventOf(s, cmd, key, at)
            t == Apply(s, e, seq)
<1>1. e.cmd = cmd
  BY DEF EventOf
<1>2. t.nodes = NodesAfter(s, e, seq) /\ t.state = StateAfter(s, e)
  BY DEF Apply
<1>3. s.nodes \in [Nodes -> NodeSnapshots]
  BY DEF Snapshots
<1>4. CASE cmd.type = "run_transition"
  <2>1. cmd.to = "cancelled"
    BY <1>1, <1>2, <1>4 DEF StateAfter
  <2>2. t.nodes[n] = CancelNode(s.nodes[n])
    BY <1>1, <1>2, <1>4, <2>1 DEF NodesAfter
  <2>. QED
    BY <1>3, <2>2 DEF CancelNode, NodeTerminal, NodeSnapshots
<1>5. CASE cmd.type # "run_transition"
  <2>1. cmd.type # "run_created" /\ s.state = "cancelled"
    BY <1>1, <1>2, <1>5 DEF StateAfter
  <2>2. s.nodes[n].state \in NodeTerminal
    BY <2>1
  <2>3. CASE cmd.type = "node_transition"
    <3>1. cmd.node # n
      BY <2>2, <2>3 DEF Permits, NodeMove, NodeEdges, NodeTerminal
    <3>. QED
      BY <1>1, <1>2, <1>3, <2>2, <2>3, <3>1 DEF NodesAfter
  <2>4. CASE cmd.type # "node_transition"
    <3>1. t.nodes[n].state = s.nodes[n].state
      BY <1>1, <1>2, <1>3, <1>5, <2>4, CommandFields
        DEF NodesAfter, NodeSnapshots
    <3>. QED
      BY <2>2, <3>1
  <2>. QED
    BY <2>3, <2>4
<1>. QED
  BY <1>4, <1>5

(* A command leaves terminal states alone. *)
LEMMA TerminalAfter ==
  ASSUME NEW s \in Snapshots, NEW cmd \in Commands, NEW key \in Keys,
         NEW at \in Nat, NEW seq \in Nat, Permits(s, cmd, at)
  PROVE  LET t == Apply(s, EventOf(s, cmd, key, at), seq) IN
         /\ s.state \in RunTerminal => t.state = s.state
         /\ \A n \in Nodes : s.nodes[n].state \in NodeTerminal =>
              t.nodes[n].state = s.nodes[n].state
<1>. DEFINE e == EventOf(s, cmd, key, at)
            t == Apply(s, e, seq)
<1>1. e.cmd = cmd
  BY DEF EventOf
<1>2. t.nodes = NodesAfter(s, e, seq) /\ t.state = StateAfter(s, e)
  BY DEF Apply
<1>3. s.nodes \in [Nodes -> NodeSnapshots]
  BY DEF Snapshots
<1>4. ASSUME s.state \in RunTerminal PROVE t.state = s.state
  <2>1. cmd.type # "run_created"
    BY <1>4, NoneAssumption DEF Permits, RunTerminal, RunStates
  <2>2. cmd.type # "run_transition"
    BY <1>4 DEF Permits, RunMove, RunTerminal, RunEdges
  <2>. QED
    BY <1>1, <1>2, <2>1, <2>2 DEF StateAfter
<1>5. ASSUME NEW n \in Nodes, s.nodes[n].state \in NodeTerminal
      PROVE  t.nodes[n].state = s.nodes[n].state
  <2>1. CASE cmd.type = "run_transition" /\ cmd.to = "cancelled"
    <3>1. t.nodes[n] = CancelNode(s.nodes[n])
      BY <1>1, <1>2, <2>1 DEF NodesAfter
    <3>. QED
      BY <1>5, <3>1 DEF CancelNode
  <2>2. CASE cmd.type = "node_transition"
    <3>1. cmd.node # n
      BY <1>5, <2>2 DEF Permits, NodeMove, NodeEdges, NodeTerminal
    <3>. QED
      BY <1>1, <1>2, <1>3, <2>2, <3>1 DEF NodesAfter
  <2>3. CASE /\ ~(cmd.type = "run_transition" /\ cmd.to = "cancelled")
             /\ cmd.type # "node_transition"
    BY <1>1, <1>2, <1>3, <2>3, CommandFields DEF NodesAfter, NodeSnapshots
  <2>. QED
    BY <2>1, <2>2, <2>3
<1>. QED
  BY <1>4, <1>5
=============================================================================
