----------------------------- MODULE RunCommands -----------------------------
(***************************************************************************)
(* The commands a durable run understands: what identifies one, the checks *)
(* the store's public operations make before they record it, the event it  *)
(* is recorded as, and what replaying that event does (RuntimeStore._apply)*)
(* Constant-level; RunLedger and RuntimeStore are the state machines.      *)
(*                                                                         *)
(* Source: durable_runtime/store.py, durable_runtime/models.py.            *)
(***************************************************************************)
EXTENDS Naturals, Sequences, FiniteSets

CONSTANTS
  Clients,      \* processes that open the store; also the lease owners
  Nodes,        \* node_ids the run is created with
  Keys,         \* idempotency keys callers may use
  RunTargets,   \* run states callers ask for
  NodeTargets,  \* node states callers ask for
  Ttls,         \* lease lifetimes callers ask for, in clock ticks
  Classes,      \* retry classifications callers report
  Reasons,      \* the reasons callers give for a transition
  MaxTime,      \* bound: the last clock tick explored
  None

RunStates ==
  {"created", "running", "paused", "waiting", "awaiting_approval",
   "completed", "failed", "cancelled"}

NodeStates ==
  {"pending", "running", "paused", "waiting", "awaiting_approval",
   "succeeded", "failed", "cancelled"}

(* _RUN_TRANSITIONS as a set of edges; a state without edges is terminal. *)
RunEdges ==
       ({"created"} \X {"running", "cancelled"})
  \cup ({"running"} \X {"paused", "waiting", "awaiting_approval",
                        "completed", "failed", "cancelled"})
  \cup ({"paused"} \X {"running", "cancelled"})
  \cup ({"waiting"} \X {"running", "awaiting_approval", "cancelled"})
  \cup ({"awaiting_approval"} \X {"running", "failed", "cancelled"})

(* _NODE_TRANSITIONS. *)
NodeEdges ==
       ({"pending"} \X {"running", "cancelled"})
  \cup ({"running"} \X {"paused", "waiting", "awaiting_approval",
                        "succeeded", "failed", "cancelled"})
  \cup ({"paused"} \X {"running", "cancelled"})
  \cup ({"waiting"} \X {"running", "awaiting_approval", "cancelled"})
  \cup ({"awaiting_approval"} \X {"running", "failed", "cancelled"})

NodeTerminal == {"succeeded", "failed", "cancelled"}
RunTerminal  == {"completed", "failed", "cancelled"}

-----------------------------------------------------------------------------
(* A command is what _operation_hash fingerprints: the event type and the  *)
(* caller's part of the payload, without anything derived from the state   *)
(* or the clock.  start and resume are the same command.                   *)

RunCmds ==
  {cmd \in [type : {"run_transition"}, to : RunTargets, approved : BOOLEAN,
            reason : Reasons] : cmd.approved => cmd.to = "running"}
NodeCmds ==
  {cmd \in [type : {"node_transition"}, node : Nodes, to : NodeTargets,
            approved : BOOLEAN, reason : Reasons] :
     cmd.approved => cmd.to = "running"}
AcquireCmds ==
  [type : {"lease_acquired"}, node : Nodes, owner : Clients, ttl : Ttls]
HeartbeatCmds(tokens) ==
  [type : {"lease_heartbeat"}, node : Nodes, token : tokens, ttl : Ttls]
ReleaseCmds(tokens) ==
  [type : {"lease_released"}, node : Nodes, token : tokens]
ExpireCmds == IF Ttls = {} THEN {} ELSE [type : {"leases_expired"}]
RetryCmds == [type : {"retry_recorded"}, node : Nodes, class : Classes]
CreateCmds == [type : {"run_created"}]

(* All commands whose callers know only the given lease tokens. *)
CommandsWith(tokens) ==
  RunCmds \cup NodeCmds \cup AcquireCmds \cup HeartbeatCmds(tokens)
    \cup ReleaseCmds(tokens) \cup ExpireCmds \cup RetryCmds \cup CreateCmds

Commands == CommandsWith(Nat)

ASSUME ConstantsAssumption ==
  /\ RunTargets \subseteq RunStates
  /\ NodeTargets \subseteq NodeStates
  /\ Ttls \subseteq Nat \ {0}          \* _validate_ttl
  /\ MaxTime \in Nat

-----------------------------------------------------------------------------
(* RunSnapshot, NodeSnapshot and Lease.  A lease's token is a hash over    *)
(* the sequence number of the event that granted it: that number, here.    *)

Leases == [owner : Clients, token : Nat, expires : Nat]
NodeSnapshots ==
  [state : NodeStates, lease : Leases \cup {None}, attempts : Nat]
Snapshots ==
  [state : RunStates \cup {None}, nodes : [Nodes -> NodeSnapshots],
   approvals : Nat, idem : [Keys -> Commands \cup {None}]]

(* None is not a value of any of the sets it is added to. *)
ASSUME NoneAssumption ==
  /\ None \notin Clients \cup RunStates \cup NodeStates
  /\ None \notin Commands
  /\ None \notin Leases

NoRun ==
  [state     |-> None,
   nodes     |-> [n \in Nodes |->
                   [state |-> "pending", lease |-> None, attempts |-> 0]],
   approvals |-> 0,
   idem      |-> [k \in Keys |-> None]]

(* Fault: the sweep drops every lease. *)
ExpiredAll(s, at) == {n \in Nodes : s.nodes[n].lease # None}

Expired(s, at) ==
  {n \in Nodes : s.nodes[n].lease # None /\ s.nodes[n].lease.expires <= at}

(* The event a command becomes: the command and key, and what the writer   *)
(* derives from its snapshot and clock ("from", "node_ids", "attempt").    *)
EventOf(s, cmd, key, at) ==
  [cmd     |-> cmd,
   key     |-> key,
   at      |-> at,
   from    |-> CASE cmd.type = "run_transition"  -> s.state
                 [] cmd.type = "node_transition" -> s.nodes[cmd.node].state
                 [] OTHER                        -> None,
   drop    |-> IF cmd.type = "leases_expired" THEN Expired(s, at) ELSE {},
   attempt |-> IF cmd.type = "retry_recorded"
                 THEN s.nodes[cmd.node].attempts + 1 ELSE 0]

Events ==
  [cmd : Commands, key : Keys, at : Nat,
   from : RunStates \cup NodeStates \cup {None}, drop : SUBSET Nodes,
   attempt : Nat]

(* The checks an operation makes on the loaded snapshot before it writes. *)
RunMove(s, cmd) ==
  /\ <<s.state, cmd.to>> \in RunEdges
  /\ cmd.approved => s.state = "awaiting_approval"

(* Fault: the node table is not consulted. *)
NodeMoveUnchecked(s, cmd) == s.state # None

NodeMove(s, cmd) ==
  /\ s.state # None
  /\ <<s.nodes[cmd.node].state, cmd.to>> \in NodeEdges
  /\ cmd.approved => s.nodes[cmd.node].state = "awaiting_approval"

(* Fault: a lease is taken as expired one tick early. *)
VacantEarly(s, cmd, at) ==
  /\ s.state # None
  /\ s.nodes[cmd.node].lease # None => s.nodes[cmd.node].lease.expires <= at + 1

Vacant(s, cmd, at) ==
  /\ s.state # None
  /\ s.nodes[cmd.node].lease # None => s.nodes[cmd.node].lease.expires <= at

HoldsLease(s, cmd, at) ==
  LET lease == s.nodes[cmd.node].lease IN
  /\ s.state # None
  /\ lease # None
  /\ lease.expires > at
  /\ lease.token = cmd.token

Permits(s, cmd, at) ==
  CASE cmd.type = "run_created"     -> s.state = None
    [] cmd.type = "run_transition"  -> RunMove(s, cmd)
    [] cmd.type = "node_transition" -> NodeMove(s, cmd)
    [] cmd.type = "lease_acquired"  -> Vacant(s, cmd, at)
    [] cmd.type \in {"lease_heartbeat", "lease_released"} ->
         HoldsLease(s, cmd, at)
    [] OTHER -> s.state # None

(* RuntimeStore._apply: the checks replay makes on a recorded event. *)
ApplyAccepts(s, e) ==
  LET cmd == e.cmd IN
  /\ (s.state = None) <=> (cmd.type = "run_created")
  /\ cmd.type = "run_transition" =>
       e.from = s.state /\ <<s.state, cmd.to>> \in RunEdges
  /\ cmd.type = "node_transition" =>
       /\ e.from = s.nodes[cmd.node].state
       /\ <<s.nodes[cmd.node].state, cmd.to>> \in NodeEdges
  /\ cmd.type = "lease_heartbeat" => s.nodes[cmd.node].lease # None
  /\ cmd.type = "lease_released" =>
       /\ s.nodes[cmd.node].lease # None
       /\ s.nodes[cmd.node].lease.token = cmd.token
  /\ s.idem[e.key] \in {None, cmd}

(* Faults: only running nodes are cancelled; finished nodes are cancelled  *)
(* too; a cancelled node starts from a fresh record.                       *)
CancelRunningOnly(node) ==
  IF node.state = "running" THEN [node EXCEPT !.state = "cancelled"] ELSE node
CancelFinished(node) == [node EXCEPT !.state = "cancelled"]

(* RuntimeStore._apply: a cancelled run takes its unfinished nodes along. *)
CancelNode(node) ==
  IF node.state \in NodeTerminal THEN node
  ELSE [node EXCEPT !.state = "cancelled"]

NodesAfter(s, e, seq) ==
  LET cmd == e.cmd IN
  CASE cmd.type = "run_transition" /\ cmd.to = "cancelled" ->
         [n \in Nodes |-> CancelNode(s.nodes[n])]
    [] cmd.type = "node_transition" ->
         [s.nodes EXCEPT ![cmd.node].state = cmd.to]
    [] cmd.type = "lease_acquired" ->
         [s.nodes EXCEPT ![cmd.node].lease =
            [owner |-> cmd.owner, token |-> seq, expires |-> e.at + cmd.ttl]]
    [] cmd.type = "lease_heartbeat" ->
         [s.nodes EXCEPT ![cmd.node].lease.expires = e.at + cmd.ttl]
    [] cmd.type = "lease_released" ->
         [s.nodes EXCEPT ![cmd.node].lease = None]
    [] cmd.type = "leases_expired" ->
         [n \in Nodes |-> IF n \in e.drop
                            THEN [s.nodes[n] EXCEPT !.lease = None]
                            ELSE s.nodes[n]]
    [] cmd.type = "retry_recorded" ->
         [s.nodes EXCEPT ![cmd.node].attempts = e.attempt]
    [] OTHER -> s.nodes

(* Fault: a run completes under the name of the node state. *)
StateAfterMixed(s, e) ==
  CASE e.cmd.type = "run_created" -> "created"
    [] e.cmd.type = "run_transition" ->
         IF e.cmd.to = "completed" THEN "succeeded" ELSE e.cmd.to
    [] OTHER -> s.state

StateAfter(s, e) ==
  CASE e.cmd.type = "run_created"    -> "created"
    [] e.cmd.type = "run_transition" -> e.cmd.to
    [] OTHER                         -> s.state

Apply(s, e, seq) ==
  [state     |-> StateAfter(s, e),
   nodes     |-> NodesAfter(s, e, seq),
   approvals |-> IF e.cmd.type = "run_transition" /\ e.cmd.approved
                   THEN s.approvals + 1 ELSE s.approvals,
   idem      |-> [s.idem EXCEPT ![e.key] = e.cmd]]
=============================================================================
