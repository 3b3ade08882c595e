----------------------------- MODULE RuntimeStore -----------------------------
(***************************************************************************)
(* RuntimeStore (durable_runtime/store.py): one run directory holding an   *)
(* append-only, hash-chained event log, a checkpoint file and a lock file, *)
(* used by several processes that may die at any point.                    *)
(*                                                                         *)
(* Every operation takes the lock, replays the whole log, compares the     *)
(* checkpoint with the replay and rewrites it when it lags, and then       *)
(* replies from the snapshot, refuses, or appends one event, fsyncs,       *)
(* rewrites the checkpoint and replies.  The steps below are cut at the    *)
(* durable writes, which is where a process death can be told apart.       *)
(***************************************************************************)
EXTENDS RunCommands

CONSTANTS
  RetryLeases,  \* TRUE: a worker may repeat an acquire or a heartbeat under
                \* the key it used before; FALSE: always a fresh key
  Failures      \* ways a process may die: a subset of FailureKinds

FailureKinds == {"crash", "open", "torn", "unterminated"}

ASSUME FailuresAssumption == Failures \subseteq FailureKinds

VARIABLES
  log,    \* events.jsonl: the events, in order
  snaps,  \* snaps[i]: the snapshot that replaying the first i events yields
  made,   \* events.jsonl exists
  tail,   \* how the last line ends: "clean", "unterminated" or "torn"
  ckpt,   \* checkpoint.json: None or [seq, snap]
  lock,   \* holder of the flock on .lock, or None
  pc,     \* per client: "idle", "decide" or "checkpoint"
  job,    \* per client: the call in progress, or None
  now,    \* the wall clock
  held,   \* per client and node: the lease last returned to it, or None
  acked   \* keys of the operations that returned successfully

files == <<log, snaps, made, tail>>
calls == <<lock, pc, job>>
vars  == <<log, snaps, made, tail, ckpt, lock, pc, job, now, held, acked>>

Jobs == [cmd : Commands, key : Keys, at : Nat]
Checkpoints == [seq : Nat, snap : Snapshots]

ASSUME NoCheckpointAssumption == None \notin Checkpoints

TypeOK ==
  /\ log \in Seq(Events)
  /\ snaps \in Seq(Snapshots)
  /\ made \in BOOLEAN
  /\ tail \in {"clean", "unterminated", "torn"}
  /\ ckpt \in Checkpoints \cup {None}
  /\ lock \in Clients \cup {None}
  /\ pc \in [Clients -> {"idle", "decide", "checkpoint"}]
  /\ job \in [Clients -> Jobs \cup {None}]
  /\ now \in Nat
  /\ held \in [Clients -> [Nodes -> Leases \cup {None}]]
  /\ acked \in SUBSET Keys

Init ==
  /\ log = <<>> /\ snaps = <<>> /\ made = FALSE /\ tail = "clean"
  /\ ckpt = None
  /\ lock = None
  /\ pc = [c \in Clients |-> "idle"]
  /\ job = [c \in Clients |-> None]
  /\ now = 0
  /\ held = [c \in Clients |-> [n \in Nodes |-> None]]
  /\ acked = {}

(* The replay of the whole log; NoRun stands for "no events". *)
Current == IF log = <<>> THEN NoRun ELSE snaps[Len(snaps)]

UsedKeys == {log[i].key : i \in 1..Len(log)}

(* Fault: the checkpoint is never rewritten. *)
StaleCheckpoint == ckpt

HeadCheckpoint ==
  IF log = <<>> THEN ckpt ELSE [seq |-> Len(log), snap |-> Current]

(* _load_unlocked's comparison of the checkpoint with the replay. *)
CheckpointMatches ==
  ckpt # None =>
    /\ ckpt.seq \in 1..Len(log)
    /\ ckpt.snap = snaps[ckpt.seq]

(* _read_events succeeds: every line parses and extends the hash chain. *)
Readable == tail # "torn"

-----------------------------------------------------------------------------
(* The commands a caller can form: it names itself as lease owner, and the *)
(* only tokens it knows are the ones the store returned to it.             *)
CallsOf(c) ==
  LET known == {held[c][n].token : n \in {m \in Nodes : held[c][m] # None}}
  IN  {cmd \in CommandsWith(known) :
         /\ cmd.type = "lease_acquired" => cmd.owner = c
         /\ cmd.type \in {"lease_heartbeat", "lease_released"} =>
              held[c][cmd.node] # None /\ held[c][cmd.node].token = cmd.token}

LeaseCall(cmd) == cmd.type \in {"lease_acquired", "lease_heartbeat"}

(* _locked and _load_unlocked: take the lock, replay, check the checkpoint *)
(* and repair it.  create_run reads an existing log only; every other      *)
(* operation needs one with events (RunNotFoundError otherwise).           *)
Enter(c, cmd, key) ==
  /\ pc[c] = "idle"
  /\ lock = None
  /\ LeaseCall(cmd) /\ ~RetryLeases => key \notin UsedKeys
  /\ IF cmd.type = "run_created" THEN made => log # <<>> ELSE log # <<>>
  /\ Readable
  /\ CheckpointMatches
  /\ lock' = c
  /\ pc' = [pc EXCEPT ![c] = "decide"]
  /\ job' = [job EXCEPT ![c] = [cmd |-> cmd, key |-> key, at |-> now]]
  /\ ckpt' = HeadCheckpoint
  /\ UNCHANGED <<files, now, held, acked>>

(* load: the same, and nothing else. *)
Load(c) ==
  /\ pc[c] = "idle"
  /\ lock = None
  /\ log # <<>>
  /\ Readable
  /\ CheckpointMatches
  /\ ckpt' = HeadCheckpoint
  /\ UNCHANGED <<files, calls, now, held, acked>>

Leave(c) ==
  /\ lock' = None
  /\ pc' = [pc EXCEPT ![c] = "idle"]
  /\ job' = [job EXCEPT ![c] = None]

(* What the caller keeps of a reply computed from snapshot s: acquire and  *)
(* heartbeat return the node's lease in s, a release ends the claim.       *)
Returned(c, cmd, s) ==
  CASE LeaseCall(cmd) -> [held EXCEPT ![c][cmd.node] = s.nodes[cmd.node].lease]
    [] cmd.type = "lease_released" -> [held EXCEPT ![c][cmd.node] = None]
    [] OTHER -> held

(* _check_idempotency is true: the key already names this command, and the *)
(* reply is read from the current snapshot.  A lease that is gone is a     *)
(* LeaseExpiredError.                                                      *)
Duplicate(c) ==
  LET cmd == job[c].cmd IN
  /\ pc[c] = "decide"
  /\ Current.idem[job[c].key] = cmd
  /\ LeaseCall(cmd) => Current.nodes[cmd.node].lease # None
  /\ held' = Returned(c, cmd, Current)
  /\ acked' = acked \cup {job[c].key}
  /\ Leave(c)
  /\ UNCHANGED <<files, ckpt, now>>

(* The key names another command, the operation's checks fail, or a        *)
(* repeated lease call finds no lease: an error, and nothing is written.   *)
Refuse(c) ==
  LET cmd == job[c].cmd
      old == Current.idem[job[c].key]
  IN
  /\ pc[c] = "decide"
  /\ \/ old \notin {None, cmd}
     \/ old = None /\ ~Permits(Current, cmd, job[c].at)
     \/ old = cmd /\ LeaseCall(cmd) /\ Current.nodes[cmd.node].lease = None
  /\ Leave(c)
  /\ UNCHANGED <<files, ckpt, now, held, acked>>

(* Fault: the idempotency record is not consulted. *)
AdmittedUnchecked(c) ==
  /\ pc[c] = "decide"
  /\ Permits(Current, job[c].cmd, job[c].at)

(* The call is new and admitted: it will be appended. *)
Admitted(c) ==
  /\ pc[c] = "decide"
  /\ Current.idem[job[c].key] = None
  /\ Permits(Current, job[c].cmd, job[c].at)

NewEvent(c) == EventOf(Current, job[c].cmd, job[c].key, job[c].at)

(* Fault: the log is opened for writing instead of appending. *)
WriteEventOver(c) ==
  /\ log' = <<NewEvent(c)>>
  /\ snaps' = <<Apply(Current, NewEvent(c), 1)>>
  /\ made' = TRUE

WriteEvent(c) ==
  /\ log' = Append(log, NewEvent(c))
  /\ snaps' = Append(snaps, Apply(Current, NewEvent(c), Len(log) + 1))
  /\ made' = TRUE

(* _append_unlocked up to the fsync.  A line written after one that lost   *)
(* its newline is glued to it, and neither parses again.                   *)
AppendEvent(c) ==
  /\ Admitted(c)
  /\ WriteEvent(c)
  /\ tail' = IF tail = "unterminated" THEN "torn" ELSE tail
  /\ pc' = [pc EXCEPT ![c] = "checkpoint"]
  /\ UNCHANGED <<ckpt, lock, job, now, held, acked>>

(* _write_checkpoint (temporary file, then os.replace) and the reply. *)
WriteCheckpoint(c) ==
  /\ pc[c] = "checkpoint"
  /\ ckpt' = HeadCheckpoint
  /\ held' = Returned(c, job[c].cmd, Current)
  /\ acked' = acked \cup {job[c].key}
  /\ Leave(c)
  /\ UNCHANGED <<files, now>>

-----------------------------------------------------------------------------
(* A process death releases the flock and forgets what the process held. *)
Die(c) ==
  /\ Leave(c)
  /\ held' = [held EXCEPT ![c] = [n \in Nodes |-> None]]
  /\ UNCHANGED <<ckpt, now, acked>>

(* Between two writes, or between two calls. *)
Crash(c) ==
  /\ "crash" \in Failures
  /\ pc[c] # "idle" \/ \E n \in Nodes : held[c][n] # None
  /\ IF lock = c
       THEN Die(c)
       ELSE /\ held' = [held EXCEPT ![c] = [n \in Nodes |-> None]]
            /\ UNCHANGED <<calls, ckpt, now, acked>>
  /\ UNCHANGED files

(* After open("ab") created the file and before anything was written. *)
CrashAfterOpen(c) ==
  /\ "open" \in Failures
  /\ Admitted(c)
  /\ made' = TRUE
  /\ Die(c)
  /\ UNCHANGED <<log, snaps, tail>>

(* A power loss or a full disk leaves a proper prefix of the line. *)
CrashTorn(c) ==
  /\ "torn" \in Failures
  /\ Admitted(c)
  /\ made' = TRUE
  /\ tail' = "torn"
  /\ Die(c)
  /\ UNCHANGED <<log, snaps>>

(* The prefix that lacks only the newline: the event reads back. *)
CrashUnterminated(c) ==
  /\ "unterminated" \in Failures
  /\ Admitted(c)
  /\ WriteEvent(c)
  /\ tail' = IF tail = "clean" THEN "unterminated" ELSE "torn"
  /\ Die(c)

Tick ==
  /\ now < MaxTime
  /\ now' = now + 1
  /\ UNCHANGED <<files, ckpt, calls, held, acked>>

Next ==
  \/ \E c \in Clients :
       \/ \E cmd \in CallsOf(c), key \in Keys : Enter(c, cmd, key)
       \/ Load(c)
       \/ Duplicate(c)
       \/ Refuse(c)
       \/ AppendEvent(c)
       \/ WriteCheckpoint(c)
       \/ Crash(c)
       \/ CrashAfterOpen(c)
       \/ CrashTorn(c)
       \/ CrashUnterminated(c)
  \/ Tick

Spec == Init /\ [][Next]_vars

-----------------------------------------------------------------------------
(* Abstraction: the snapshot a replay yields is the ledger's snapshot, and *)
(* the append is the only step that commits.                               *)
Ledger == INSTANCE RunLedger WITH run <- Current, count <- Len(log)

(* Whatever interleaving, crash, torn line, stale checkpoint or repeated   *)
(* call happens, the replayed run only ever moves by whole admitted        *)
(* commands under unused keys (store.py's operations against _apply).      *)
ImplementsLedger == Ledger!LedgerSpec

(* A repeated call never records its operation twice, even when the first  *)
(* attempt died after the fsync and before the reply (_check_idempotency   *)
(* reads the replayed log, not the checkpoint).                            *)
KeyOnce ==
  \A i, j \in 1..Len(log) : log[i].key = log[j].key => i = j

(* The checkpoint on disk is always a snapshot of a prefix of the log that *)
(* misses at most the last event, so no crash makes _load_unlocked report  *)
(* a healthy run as corrupt, and every repair starts one event behind.     *)
CheckpointCurrent ==
  /\ CheckpointMatches
  /\ IF ckpt = None THEN Len(log) <= 1 ELSE Len(log) - ckpt.seq <= 1

(* No operation records an event that replay then rejects: what the        *)
(* public operations check is at least what _apply checks.  One accepted   *)
(* event that _apply refuses makes the run unreadable for ever.            *)
ReplayAccepts ==
  \A i \in 1..Len(log) :
    ApplyAccepts(IF i = 1 THEN NoRun ELSE snaps[i - 1], log[i])

(* An operation that returned to its caller is in the log that the next    *)
(* load reads, wherever processes die between two writes.  (A torn line    *)
(* makes the store refuse the run instead; a line that lost only its       *)
(* newline breaks this, see CrashUnterminated.)                            *)
AckedReadable == acked # {} => Readable /\ acked \subseteq UsedKeys

(* Cancelling a run settles it: all its nodes are terminal, then and ever  *)
(* after, though node operations do not look at the run's state.           *)
CancelSettles ==
  Current.state = "cancelled" =>
    \A n \in Nodes : Current.nodes[n].state \in NodeTerminal

(* Two workers never both act on an unexpired lease of one node, each      *)
(* going by the reply it was given last (acquire_lease, heartbeat).        *)
LeaseMutex ==
  \A c, d \in Clients, n \in Nodes :
    /\ held[c][n] # None /\ held[c][n].expires > now
    /\ held[d][n] # None /\ held[d][n].expires > now
    => c = d

(* An unexpired lease in the log keeps its owner and token until somebody  *)
(* who presents that token releases it; expiry, cancellation and another   *)
(* worker's acquire cannot take it.                                        *)
LeaseStable ==
  [][\A n \in Nodes :
       LET lease == Current.nodes[n].lease
           next  == Current'.nodes[n].lease
       IN  lease # None /\ lease.expires > now =>
             \/ next # None /\ next.owner = lease.owner
                            /\ next.token = lease.token
             \/ log'[Len(log')].cmd =
                  [type |-> "lease_released", node |-> n,
                   token |-> lease.token]]_vars

(* Terminal states are final for the run and for each node, whatever call  *)
(* is repeated, late or replayed after a crash.                            *)
TerminalFinal ==
  [][/\ Current.state \in RunTerminal => Current'.state = Current.state
     /\ \A n \in Nodes :
          Current.nodes[n].state \in NodeTerminal =>
            Current'.nodes[n].state = Current.nodes[n].state]_vars

-----------------------------------------------------------------------------
(* The inductive strengthening the proofs use: only the lock holder is     *)
(* inside an operation, replay and log agree about which keys are used,    *)
(* and an operation that is about to write has a checkpoint of the whole   *)
(* log behind it.                                                          *)
InOperation ==
  \A c \in Clients : pc[c] # "idle" => lock = c /\ job[c] \in Jobs

ReplayedLog ==
  /\ Len(snaps) = Len(log)
  /\ Current.state = None <=> log = <<>>
  /\ \A i \in 1..Len(log) : Current.idem[log[i].key] # None

RepairedBeforeWrite ==
  \A c \in Clients :
    pc[c] = "decide" =>
      IF log = <<>> THEN ckpt = None ELSE ckpt # None /\ ckpt.seq = Len(log)

StoreInv ==
  /\ TypeOK
  /\ InOperation
  /\ ReplayedLog
  /\ RepairedBeforeWrite
  /\ KeyOnce
  /\ CheckpointCurrent
  /\ ReplayAccepts
  /\ CancelSettles

(* For the leases and the refinement: replay knows no token beyond the     *)
(* log's end, and an operation's clock reading is never ahead of the clock.*)
TokensIssued ==
  \A n \in Nodes : Current.nodes[n].lease # None =>
    Current.nodes[n].lease.token \in 0..Len(log)

ClockInRange ==
  /\ now \in 0..MaxTime
  /\ \A c \in Clients : pc[c] # "idle" => job[c].at \in 0..now
=============================================================================
