# oh-no-my-claudecode: TLA+ verification project

`oh-no-my-claudecode` (`onmc`) runs coding agents on a repository and keeps what
they did accountable: a task becomes a durable run, an agent loop works on it
under limits and gates, and a receipt says what was proved. This project models
the parts that decide whether such a run may be believed, checks them with TLC
and proves theorems about them with TLAPS.

Paths below are relative to `src/src/oh_no_my_claudecode/`.

## 1. Inventory

### The modelled core

| Part | State it keeps | Operations | What makes it correct |
|---|---|---|---|
| **Durable run store** `durable_runtime/store.py` | `events.jsonl` (hash-chained log), `checkpoint.json`, an flock; leases inside the log | `create_run`, `start` .. `cancel`, node transitions, leases, `record_retry`, `load` | an operation is recorded once per idempotency key, replay accepts what operations write, the checkpoint never contradicts the log, terminal states are final, a lease has one holder |
| **Harness controller** `harness_run/controller.py` | the durable run (in the store), `receipts/run-<id>.json`; locals of one process | `run`, `plan`, `_resolve_fresh_run_id`, `_execute`, `_persist_receipt`, its exception handler | a run is completed only on sound evidence; receipt, run and report agree; an old attempt is left alone; a resumed run settles |
| **Loop engine** `loop/engine.py`, `loop/checkpoint.py` | locals of `run_loop`, `.onmc/loop-state/<sha8>.json`, the working tree | one iteration (route, probe, agent, verifier, gates, breakers), save, resume, clear | a win changed the tree and stayed in scope; limits hold across resumes; the checkpoint is the loop that stopped |
| **Claim ledger** `claim/` | `.onmc/claims.json`, the lock file `.onmc/claims.lock` | `acquire`, `release`, `status`, `check`; the stale-lock break | a path has one owner at a time, a granted claim is not lost, an operation is atomic, whoever waits is served |
| **Native runtime backend** `runtime/native_backend.py`, `fanout.py` | the durable run (in the store), a spec manifest, one result file per node; locals and node threads of one process | `execute` (layers, approval gate, replay, threads, settling), `_apply_persisted_result`, leases, retries, its exception handler | order and approval hold, a result is computed once, files and store agree, retries are bounded, a run ends |
| **Working context** `working_context/` | the session row, the acknowledgements and the configuration in the metadata table | `start`, `note`, `verify_memory`, `configure`, `context`, the hooks, the MCP tools | the agent holds the packet the session row says it holds, evidence that is withdrawn is named, a changed source is not taken for a baseline, a failed refresh recovers |

How they interact: the controller is the store's client. It walks a fixed DAG of
nodes (understand, retrieve, plan, claim, execute, verify, repair, prove, learn), one store
call per step, under idempotency keys that are fixed per node. At `execute` it
calls `run_loop`; the loop's result, the independent false-green check and the
policy verdict feed the completion gate, whose decision picks the store calls
that settle the run, and last a receipt is written. The only shared state is the
file system: several `onmc run` processes on one repository share the store, the
receipts and the loop checkpoint, and nothing else excludes them.
The native backend is the store's other client: it too uses fixed keys per node,
and keeps results beside the log. The claim ledger is called by `onmc claim` and
by the swarm planner. The working context is called by the hooks of a Claude
session, by the command line and by the MCP server, each in a process of its own;
they meet in the session row, and the agent only knows what was printed to it.

Hard behaviours: processes that overlap on one task; death between any two
durable writes; torn lines; repeated calls after a lost reply; leases that expire
under their holder; fixed keys whose second use means something else; a snapshot
read in one call and acted on in a later one; a receipt written after the state
it describes; loop locals that are, or are not, part of the checkpoint; a lock
file that outlives its process or is broken under it; a result file and a log
that are written one after the other; a packet that is recorded as delivered
before it is printed; a file that is hashed first and judged clean later.

### The rest of the system

* **LangGraph backend** (`runtime/langgraph_backend.py`): compiles the same graph
  for an external library.
* **Swarm** (`swarm/`): shards over worktrees on `NativeBackend`, then merges.
* **Refinery** (`refinery/`): a merge queue file, read, acted on through `gh` and
  written back without a lock.
* **Blackboard, inbox, bounty, memory and skill staging**: small files with
  single-step updates.
* **Pure functions**: task compiler, proof graph, verifier, tool broker, policy
  checks, attestation. Decisions over values; the modelled parts take their
  verdicts as inputs.
* **Everything else** (storage, ingest, retrieval, the other hooks, MCP server, CLI,
  budgets, evals, reports): data handling, entry points and read-only views.
  This is most of the repository's lines: the modelled parts are those that keep
  state which several processes, or one process before and after a death, share.

`PROJECT.json` lists each with its files and the reason it is not modelled.

## 2. Modules

```
RunCommands            commands, admission checks, events, replay (constant level)
  |- RunCommandsProofs lemmas about them, shared by the three proof modules below
  |- RunLedger         abstract: a snapshot that moves by whole admitted commands
  |- RuntimeStore      the store: log, checkpoint, lock, clients, failures, clock
  |    |- MCRuntimeStore       symmetry for TLC
  |    `- RuntimeStoreProofs   theorems
  |- HarnessController the controller's processes over the ledger's commands
  |    |- MCHarnessController  a short DAG for TLC
  |    `- HarnessControllerProofs  theorems
  `- NativeBackend     the backend's processes and threads over the ledger's commands
       |- MCNativeBackend      a fork of three nodes for TLC
       `- NativeBackendProofs  theorems
            `- NativeApprovalProofs  approvals, one process at a time
LoopEngine             run_loop, its checkpoint and the working tree
  `- LoopEngineProofs  theorems
ClaimRegister          abstract: claims that change by whole operations
  `- ClaimLedger       claims.json, the lock file, processes, the clock
       `- ClaimLedgerProofs    theorems
WorkingContext         the session row, the hook process, the agent, editor and git
  |- MCWorkingContext  one or three memories for TLC
  `- WorkingContextProofs     theorems
```

### RunCommands, RunLedger, RuntimeStore (`durable_runtime/`)

`RunCommands` holds what both state machines share. A *command* is what
`_operation_hash` fingerprints: event type and the caller's payload, so `start`
and `resume` are one command (both move the run to `running`). `Permits` is what the public operation
checks before it appends; `ApplyAccepts` is what `_apply` checks on replay. The
code writes these checks twice, and `ReplayAccepts` says that the first implies
the second. `Apply` is `_apply`, with the cancellation of all open nodes that a
cancelled run brings.

`RuntimeStore` has one action per step between two durable effects: `Enter`
(lock, replay, compare and repair the checkpoint), then `Duplicate`, `Refuse` or
`AppendEvent`, then `WriteCheckpoint` (and the reply). `log` is the list of
events and `snaps[i]` is the replay of the first `i` of them: a history variable
that stands for the fold over the log which the code computes on each load.
Payload texts, hashes and time stamps are left out; the hash chain is the
reason that a torn or glued line makes a run unreadable (`tail`). Failures are
switched by the constant `Failures`: death between writes (`crash`), after
`open("ab")` (`open`), inside the write (`torn`), and inside it with only the
newline missing (`unterminated`).

`RunLedger` is the promise: a snapshot that changes by whole admitted commands,
each key at most once. `ImplementsLedger` is the refinement under the mapping
`run <- Current`, `count <- Len(log)`.

### HarnessController (`harness_run/controller.py`)

Each process has a `pc`; a step is one store call or one decision between two of
them. `StoreCall` is a store operation as a single step on `RunCommands`'
snapshots, which the theorem `Refinement` justifies. `seen` is the snapshot the
process was last returned: the node walk decides on it, not on the store.
Attempt 1 is the derived run id, attempt `a` is `<run_id>-a<a>`. `Evidence` is
what the controller observes after the loop; `Verdict` is the completion gate and
`Verified` is `compute_verified`. `told` (ids that a refusal advised to resume)
and `good` (attempts with a sound loop execution) are history variables for the
properties; `Sound` is stated apart from the gate's code.

### NativeBackend (`runtime/native_backend.py`)

A process walks the layers of `dependency_layers`; a step is one store call, one
half of a file write, or one decision. The layers are not computed beforehand:
`past` is the set of nodes in the layers behind the process, and `Layer(past)` the
layer it is in, which is the loop of `dependency_layers` unrolled along the walk.
`GraphAssumption` is what `_validate_graph` enforces. `Answer` is a store call with its
idempotency check: admitted, a repetition, or refused, and a refusal is the
exception the code would see, which `_apply_persisted_result` swallows and the rest of
`execute` turns into `_fail_running_node`. `result[n]` is a node's result file: absent,
torn (the process died inside `write_text`) or the result; a torn manifest makes
every later `execute` raise. `at[p]` is the process, with the snapshot loaded on entering a layer,
on which the whole layer is scanned; `thr[p][n]` is the thread of node `n`. Ready nodes run in threads, each taking its
lease, running its handler and retrying; the layer's results are settled in order
after the last has ended. Handlers succeed, skip, fail, fail retryably, or return
a result that breaks the contract. Texts, tracing events and budgets are left out.

### ClaimLedger, ClaimRegister (`claim/`)

A process waits for the lock file, may judge it stale and then break it (two
steps: the file it unlinks need not be the file it looked at), reads clock and
ledger, replaces the ledger, unlinks the lock. `granted` is a history variable: the
claims given to acquirers and not given back. `broken` is another: some lock
was removed while its creator was inside. `ClaimRegister` is the promise, a
register that changes by whole operations; `ActsAsRegister` is the step
refinement under `held <- Live(ledger, now)`, as long as `broken` is false.

### WorkingContext (`working_context/`)

`session` is the `WorkingSession` row and is changed by whole transactions, as in
the code. A hook is a process with the steps start, context, compile, deliver, and on an
error the fallback to `invalidate_delivery` and the advisory; a kill may take
it at any of them. Two failures come before its first write: `LoadError`
(`load_working_context` raises while `enabled` is still false: no advisory, no
invalidation) and `LookError` (the configuration or the row cannot be read: both).

A compilation is two steps. The first (`HookContext`, `PreviewOpen`) takes the
database's write lock (`txn`), with the budget read just before, and hashes the files; the second
(`HookCompile`, `PreviewCompile`) asks git and commits. Nobody else writes the
database in between (`Unlocked`), but the editor and git may move, so `look`, on which
`Freshness` decides, pairs the old hashes with git's answer of the
second step. All files are hashed in one step and git is asked in one: each file is hashed once per
compilation (`hashes_cache`) and asked about once (`versions`), every property is about one file at a time,
and for one file every order of its hash, its question to git and the outside moves is
covered. git's three calls for a file are one question. `verify_memory` and `note`
hash and write in one step: what they record is what they read.

`Compiled` is `_compile`: labels of the candidates (trust,
freshness against the acknowledgement, the session's binding or git, relevance),
displacement by trusted edges, withdrawals, the packet (`Rendered`: `Body` gives the lines in the code's order,
`Packed` runs `append()` over them and skips a memory whose text is shown already, `Warnings` come last), and the session left behind. The two loops, `Only` (a
list comprehension) and `Packed`, are recursive functions, so that they can be proved about. A packet is the sequence of its lines and
is its own fingerprint. File contents are version numbers, texts have a size of
one or two units and `Text` says which are equal, retrieval is the set of memories relevant to a prompt; the caps
of 80 candidates, 240 bindings and 40 rows per query are not reached. The learning switch is read at
the start of a compilation, so a switch during one is as good as one after it. `seen` is what the agent holds.

History variables: `severed` holds the causes for which row and agent may have parted since the last
packet that arrived (`lost` by a kill, a failed `invalidate`, a session start that `load` or a disabled feature left
`unserved`, a `replaced` row); `acked` all acknowledgements ever given; `log` every version that was at HEAD; `raced` the
bindings whose file moved between its hash and the question to git.

### LoopEngine (`loop/`)

The tree is modelled because the engine judges the agent by it: a tree has a
commit count, the committed and the working content of each path (`Absent` for none) and the
renames git reports. `Lines` are the lines of `git status --porcelain`: one per rename, with source and destination,
and one per other path that differs from HEAD, unless it is ignored and not tracked. Whether git pairs a
deletion with a new file as a rename depends on how they were staged, so any pairing may be
reported. `Sig` is what the probe sees (HEAD and those lines), `Delta` the paths that the scope gate
takes from the new lines, of a rename its destination only. Staged and unstaged forms of one
code are one line, a new directory is listed by its files, and paths are not quoted. `st` is exactly
`CheckpointState`; `noops` and `base` are locals which the code does not save. One iteration is
`Prepare` (route, brief, probe), `Act` or `ActFails`, one of the verdicts, `Save`.
`Loss` keeps the order in which a breaker returns before the next counter is
touched. `began` and `spending` are history variables. The token and the cost
limit are one budget; prompt, memory records and the advisory shadow router are
data and left out.

## 3. Runs

| Run | Result | Shows |
|---|---|---|
| `store_lifecycle` | pass | two processes, run/node/retry/approval commands, every failure kind: types, `KeyOnce`, `CheckpointCurrent`, `ReplayAccepts`, `CancelSettles`, `TerminalFinal`, and the store implements the ledger |
| `store_leases` | pass | two workers and one node with expiry, renewal, release and sweep, fresh keys for lease calls: `LeaseMutex`, `LeaseStable`; `AckedReadable`: what a caller was told is in the log whoever dies |
| `harness_one` | pass | one user who retries, resumes and is interrupted anywhere, while another party pauses or holds the run: `ReportHonest`, `AttemptPreserved`, and under fairness `RunSettles` |
| `harness_two` | pass | two overlapping invocations, a death, a cancellation: `CompletedSound`, `ReceiptMatchesRun` |
| `harness_twice` | violation of `SingleExecution` | two fresh invocations both run the agent loop on one run |
| `loop_single` | pass | one invocation over a tree with user edits, renames, a protected, an untracked and an ignored file, checkpoint writes may fail: `NoVacuousWin`, `NoopsBounded`, `ScopeKept` |
| `loop_resume` | pass | three invocations and a death: `SpendBounded`, `ErrorsBounded`, `StopMatchesCheckpoint` |
| `claim_locks` | pass | two processes, two owners, a death, a lock that goes stale: as long as no living process lost its lock, `ExclusiveUnlessBroken`, `GrantsKeptUnlessBroken`, `OneInsideUnlessBroken`, `ActsAsRegister`; under fairness `EveryoneServed` |
| `native_fork` | pass | two parallel nodes and a third behind an approval, all handler outcomes, two deaths anywhere, executions again: `CompletedSound`, `FailureOutranks`, `RetriesBounded`, `DependenciesFirst`, `ApprovedFirst`, `NeverRerun` |
| `native_settles` | violation of `RunSettles` | a death between recording a failed or skipped node and ending the run leaves a run that is running for ever |
| `working_hooks` | pass | hooks, MCP calls and inspections over three memories, with moves of user, editor and git, before, during and between compilations, and faults (store not opened, failed transaction or invalidation, late git, kill): types, `AgentCurrent`, `BaselineEarned`, `WithdrawnTold` |
| `working_recovery` | violation of `RecoveryDelivers` | a refresh and its invalidation fail, nobody is killed; the next refresh succeeds after the advisory and prints nothing |

Each violation is a finding in `PROJECT.json`, with the line of the docs or the
code that it contradicts.

### Bounds, and why they are enough

* Store: two clients, one node and three or four keys. A race needs two clients; all
  node checks are per node. Four keys are create plus three operations, the
  shortest history in which a lease is taken, expires, is taken over and the old
  call is repeated, or in which a run is started, moved and cancelled. The clock runs to 2 with lifetimes 1 and 2, so that expiry meets
  each operation before, at and after the boundary. Clients and keys are
  symmetric: they are compared for equality only. The proofs need none of these bounds.
* Harness: `claim` stands for the four nodes before the loop and `learn` for
  the nodes after verification: a walk can be interrupted before, inside, between and after. Two
  attempts show a retry, its refusal and the end of the attempt numbers; two stop
  reasons show a repeated key with another payload; one outside move, since the fixed key
  `harness:resume` lets `--resume` leave a pause only once per run (a second pause leaves a run
  that `--resume` cannot restart).
* Loop: `loop_resume` has limits of 2 and 3 with three iterations, so that every breaker fires first, at its
  limit, and is pre-empted by another; one file that is there or not is enough for a change and its
  revert. `loop_single` has a tracked, a new and an ignored path in one version each: files come, go, are
  renamed, committed and restored, and the gate makes no difference between a changed and a deleted file;
  two iterations meet what an earlier one left. It keeps
  `Probes = {TRUE}`: when git cannot be asked the code itself gives up the
  vacuous-pass gate, so `NoVacuousWin` presumes a working probe.
* Claims: two processes, two owners and one path (paths are independent of each other), a lifetime of
  two ticks, a stale limit of one tick, four ticks and three requests: enough for a holder to
  die, a waiter to break its lock and a third request to follow, and for an
  expiry to meet each step. A death is bounded so that its lock can still go stale.
* Native backend: the smallest graph with a parallel layer, a dependency and an
  approval; one retry; one process, since two on one run already overwrite each
  other's files (section 5); two deaths, at every step, any number of executions
  and two lease calls per node. The second death is needed: it leads to a
  completed run with a node that is recorded failed (section 5), which one death cannot reach.
* Working context: an anchored memory that supersedes a second one, so that a change of its file both withdraws it and
  brings the other back, a third with the second's text, one file, two prompts (a session may be started with
  the other one as its goal), a budget in which a line has to be left out and one too small for the goal. Any number of hook events,
  MCP calls and prompts, among which two moves or faults: an edit and its commit or revert around the hash, an
  edit and an inspection, a failed refresh and its failed invalidation, a load failure after a kill, a
  fault after any move. Three moves (edit, commit, vote) lead to the gap in section 5.
* `CHECK_DEADLOCK FALSE` stands where the system may stop: keys or invocations run out
  in the store and loop runs. The harness runs check deadlock.

### Fairness

* `HarnessController!Fairness`: weak fairness of a live process' next step. Store calls
  are bounded file operations and the loop is bounded by iterations, budgets and
  timeouts. Strong fairness of `Resume`: `RunSettles` is about a user who keeps
  resuming; without one a dead run stays where it is, by design. Deaths are
  bounded by `MaxCrashes` and never forced.
* `ClaimLedger!FairSpec`: weak fairness of each process' next step (the waiter's loop
  polls every 50 ms, everything inside the lock is local file work) and of the clock. A dead
  process has no step until it is asked again.
* `NativeBackend!FairSpec`: weak fairness of the process' and its threads' next
  step (handlers return) and of users who execute an unfinished run again.

## 4. Proofs

TLC checks small instances; the theorems below hold for every value of the
constants that satisfies the named `ASSUME`s of the modules and the hypotheses
given here. A hypothesis is there only where section 5 shows that the
property is false without it. The bounds on crashes, moves, invocations and lease numbers are arbitrary naturals.

| Theorem (module) | Property | Hypothesis beyond the assumptions |
|---|---|---|
| `TypeCorrect`, `KeyOnceHolds`, `CheckpointHolds`, `ReplayHolds`, `CancelHolds`, `TerminalHolds`, `LeaseStableHolds`, `Refinement` (`RuntimeStoreProofs`) | `TypeOK`, `KeyOnce`, `CheckpointCurrent`, `ReplayAccepts`, `CancelSettles`, `TerminalFinal`, `LeaseStable`, `ImplementsLedger` | none: any clients, nodes, keys and failures |
| `AckedReadableHolds` | `AckedReadable` | no write is torn: deaths fall between writes |
| `LeaseMutexHolds` | `LeaseMutex` | `~RetryLeases`: each lease call has a fresh key |
| `TypeCorrect`, `ReceiptMatchesRunHolds`, `ReportHonestHolds` (`HarnessControllerProofs`) | `TypeOK`, `ReceiptMatchesRun`, `ReportHonest` | none: any number of overlapping processes, any operators |
| `CompletedSoundHolds` | `CompletedSound` | operators do not complete runs |
| `AttemptPreservedHolds` | `AttemptPreserved` | one invocation at a time; operators do not fail or complete runs |
| `TypeCorrect`, `ScopeKeptHolds` (`LoopEngineProofs`) | `TypeOK`, `ScopeKept` | none |
| `NoVacuousWinHolds` | `NoVacuousWin` | git answers; no resumes |
| `NoopsBoundedHolds` | `NoopsBounded` | no resumes; the verifier does not print the engine's own mark |
| `ErrorsBoundedHolds` | `ErrorsBounded` | the verifier prints none of the engine's marks |
| `StopMatchesCheckpointHolds`, `SpendBoundedHolds` | `StopMatchesCheckpoint`, `SpendBounded` | checkpoint writes succeed |
| `TypeCorrect`, `RetriesBoundedHolds`, `DependenciesFirstHolds` (`NativeBackendProofs`) | `TypeOK`, `RetriesBounded`, `DependenciesFirst` | none: any acyclic graph, any number of processes |
| `CompletedSoundHolds`, `NeverRerunHolds` | `CompletedSound`, `NeverRerun` | one process at a time |
| `ApprovedFirstHolds` (`NativeApprovalProofs`) | `ApprovedFirst` | one process at a time |
| `TypeCorrect`, `OneInsideHolds`, `ExclusiveHolds`, `GrantsKeptHolds`, `Refinement` (`ClaimLedgerProofs`) | the properties of `claim_locks` | none; they speak of the time until `broken` |
| `WorkingTypes`, `AgentCurrentHolds`, `BaselineEarnedHolds`, `WithdrawnToldHolds` (`WorkingContextProofs`) | `TypeOK`, `AgentCurrent`, `BaselineEarned`, `WithdrawnTold` | none |

### The durable store

The assumptions are the named ones in the modules: `None` is not a client, a
command, a lease or a checkpoint, the bounds are naturals, and the targets and failures
are of the known kinds.

None of the invariants is inductive alone. `StoreInv` (end of module
`RuntimeStore`) adds three facts. `InOperation`: only the lock holder is
inside an operation, so nobody else changes what it decided on. `ReplayedLog`:
there is one snapshot per event, and the idempotency map of the replay knows
every key of the log; `KeyOnce` needs it, because `_check_idempotency` asks
the map and not the log. `RepairedBeforeWrite`: an operation that is about to append
has a checkpoint of the whole log behind it; without it the checkpoint could
fall two events behind when a process dies after the fsync, and
`CheckpointCurrent` would not be preserved. The step
theorem `StepInv` has one step per action; appends go through `WritePreserves`,
all others through `QuietPreserves`. `ReplayHolds` rests on `AdmittedAccepted`
(`Permits` implies `ApplyAccepts`) and `CancelHolds` on `CancelSettlesAfter`,
two lemmas of `RunCommandsProofs`.
`StepKind` (a step leaves the log or appends one admitted event) gives the
action properties and, with `ClockInRange`, the refinement.

`AckedReadable` needs the converse of `ReplayedLog`, `KeysReplayed` (a key in
the replay's map is in the log): a repeated call is acknowledged because of the map,
and must be found in the log. `LeaseMutex` compares what two callers *believe*, so
its invariant `LeaseInv` ties beliefs to the log: `Granted` (a token, in the log, in a belief
or in a call under way, identifies the event that granted it, and so node and owner),
`RepliesOwn` (the operation about to answer a lease call has just written it, which
is where a repeated key would break it) and `HeldBacked` (an unexpired belief is
backed by the lease in the log, or its owner is just replacing it).

### The harness controller

`HarnessInv` is inductive for any number of processes on the same attempts. It relies on what never
goes back: `KeysTell` (a used key tells what became of run and node: the store call
that a process repeats is answered with a snapshot in which that is still true),
`Walked` and `SeenTrue` (nodes behind a process have succeeded, and what it remembers as
succeeded has), `Judged` (a process that will complete the run has a passed verdict, one at
the receipt has the run in the state it is about to certify). Each store call goes through
`StoreCallStep`, for the caller and for everybody else through `KeptInv`; the keys
fit their commands by one lemma per key. `CompletedSound` then follows
from `EarnedStep`: only `CompleteRun` completes a run. `AttemptPreserved` adds `SoloInv`:
an active process has an unfinished run, and an unfinished run has no receipt.

### The loop

Each property has an invariant of its own over `LoopInv` (types, and a stop is
decided once). `CheckpointInv` says that between iterations the checkpoint is the loop;
`SpendAll` bounds loop, checkpoint and real spending, each up to the
call under way and one call per death; `Counted` relates a streak at the end of the history to the
saved counter, with the iterations that a breaker left uncounted. That
last number is what a death between breaker and clearing can preserve, and
the reason why `ErrorsBounded` allows one more per death. `VacuousInv` says that the
baseline is the tree the run began with. `ScopeInv` says what the gate compares: the
tree with the one the agent was given, on the same HEAD if there was no commit. A guarded file (protected, of HEAD, clean before the agent)
has no line beforehand; so if it changed and is no rename's source, its line is new and names it.

### The native backend

`NativeInv` holds for any number of processes on one run. `Grows` (a recorded success is never
taken back, retries never decrease) makes a stale snapshot harmless for
`DependenciesFirst`: a process may go on believing what it read. For `RetriesBounded`, `RunOK` says that
the recorded retries have used the keys `1..attempts`, and `ThreadOK` that
a thread that will record one is not ahead of that count: a second process or a resumed
execution that repeats the number is answered as a repetition.
`FilesInv` (one process) adds `Walk`: what the process knows of the files at each step. Layers behind it
have succeeded on file, the node at the gate has no file, the replayed result is the file's, and the
results that are being settled are in hand; with `Confirmed`, success in the
store has its file. Each action has one lemma per invariant (`...Keeps`, `...Files`).

The attempt to prove the earlier form of `CompletedSound` (a completed run has every node recorded
succeeded) failed for a good reason: it is false after two deaths (section 5). The property now states what
does hold, and `native_fork` has two deaths.

`ApprovedFirst` looks like a fact about one gate and is one about the whole run. The gate asks only about a node
that the process saw `running`; a node seen `failed` is run without a question. So the claim is that a node nobody
approved (`Barred`) is never failed, and `_fail_running_node` fails *every* running node. `ApprovalInv` therefore says
when a barred node can be `running` (`Open`) and that no step that may raise is reached then (`Quiet`, `NoneOpen`): the
process is between `start_node` and the approval request of that node, or it died there and the next
process has not yet come back to it. For the second case the state between two processes must say enough, and this
is where the layers come in. `Prefixes` are the sets of nodes that finished layers make up, defined as the least family closed
under adding a layer, with its own induction (`PrefixInduction`) and order (`PrefixChain`). While a node is barred no node of its
layer or a later one has a result file (`NodeGuarded`), so a new process walks up to that layer without running or replaying anything;
the nodes listed before it have passed their gates (`Preceded`), so none of them asks or waits. `SameOrEarlier`
compares two layers: a result is written only after a whole layer passed its gates, so a
barred node that it could concern would belong to this layer, which has none, or to a finished one, which has files. `Recalled`, `Passing`, `Facing`
and `Working` say what the process remembers at each step; `OwnKeys` says that an idempotency key is used for one
command, so that a repeated call is never answered as a conflict that would raise at the wrong moment.
Each action has its lemma (`...Guard`). `NamesAssumption` keeps the keys of run, operator and nodes
apart, as the colons in the code's key strings do.

### The claim ledger

`ClaimLedgerProofs` holds for every set of processes, owners, paths and
lifetimes, every stale limit and any number of deaths, each until `broken`. The
properties are not inductive: that claims are exclusive depends on the plan a process made
before it writes. `LedgerInv` adds `Holder` (whoever is inside created the
lock file that is there: `Break` keeps it because it either sets `broken` or hits
nobody), and `Planned` (a process about to write holds `After` of the active
claims of the ledger *as it still is*, for some clock reading `t <= now`: the
clock may have moved since, so the operation is not the one of the moment
of the write, and the refinement shows that it does not matter). From `Planned` follow
`LedgerExclusive` and `Kept`, and from those what was granted. The refinement is to the steps
of `ClaimRegister`, under `held <- Live(ledger, now)`. The assumption
is `ClaimAssumption`: naturals, and `None` is no lock file.

### The working context

`DeliveryInv` says, for each step of a hook, whether row and agent agree: they do
except between a commit and its print, and after a failed `SessionStart`, whose fallback either forgets
the fingerprint or was cut off (`severed`). It holds of any `severed`: every cause enters it at the step where row and
agent part, and `Deliver` of the recorded packet empties it. `Live` says that
there is a row or that somebody is at work on one, which is when the agreement has a meaning.

`BaselineInv` adds that versions only grow along HEAD
(`VersionsInv`), that a memory's last touch is not newer than HEAD (`TouchedInv`), and
that a stored acknowledgement was given (`ExplicitInv`); `BindingsEarned` is
the step through `_freshness` for *any* hashes: what `_initial_source_fresh` lets pass is earned if the hash is still the file's, and is
recorded in `raced` if it is not. Neither proof looks into the packet: `Rendered` is
not expanded, so they hold for any selection, order and budget.

The other two do look into it, and need what the loops compute for lists of any
length. The library's induction theorems take an operator, which the provers cannot
instantiate; `NatSetInduction` takes a *set* of numbers instead (from `WFMin` and the
well-foundedness of `<`), and the property is the set of lengths up to which a table of the
loop's results exists. That gives `OnlyIsKept` and `PackedIs` (the recursive functions exist and satisfy
their equations), and by a second induction `OnlyFacts` (a filtered list holds just the members
in the set and is no longer) and `PackedFacts` (the lines already taken stay, every
line is taken, refused, or a memory whose text a taken line has; nothing else is taken). `BodyFacts`: the body offers a line
for every withdrawn and every current memory. `WarningsFacts`: notices name no memory. `RenderedFacts`
puts them together: the selection is what the packet shows, and if nothing
was refused it shows the text of every current memory and names every withdrawn one.

`TypeInv` adds to `TypeOK` that versions and digests do not outrun the moves. `NotesOK` (at most `MaxNotes`,
at most one next step) goes through `WithNoteType`. `WithdrawnInv` says that what a session remembers as selected is
what its recorded packet shows, inspections included, that the packet in the agent's hands is the recorded one
until the next is about to be printed, and that this next one accounts for everything in the agent's. The
assumptions are the named ones: `Rank` lists the memories, one `Rooms` is the largest, and `None` and
`Unavailable` are neither a packet nor a session nor a reason.

### Only model-checked

* Liveness: `RunSettles`, `EveryoneServed`. Fairness is out of the prover's reach.
* `FailureOutranks`.
* The expected violations, which are counterexamples.

## 5. Known gaps seen while modelling, not kept as runs

Durable store
* With `Failures` containing `unterminated`, `AckedReadable` is false: a line
  that lost only its newline reads back as committed (`splitlines`), the next
  acknowledged append is glued to it (`store.py:653`) and the run is unreadable.
* With `RetryLeases = TRUE`, `LeaseMutex` is false: an acquire repeated under its old
  key is answered with the snapshot, in which another worker may hold the lease by now (`store.py:378`).
* Death between `open("ab")` and the first write leaves an empty log: the id can be
  neither created nor loaded (`store.py:229`, `652`).

Controller and loop
* A refusal advises to resume an attempt id `<run_id>-a<n>` (`controller.py:804`)
  which `--resume` then rejects (`controller.py:1333`).
* A failed completion receipt write leaves a completed run whose `--resume`
  reports `failed` for ever; `ReportHonest` holds, on the cautious side.
* A process that dies between saving a winning iteration and clearing the
  checkpoint (`engine.py:1135`) is resumed past its win: `--resume` does not look
  at the saved outcome (`engine.py:797`).
* A resumed loop takes its baseline anew (`engine.py:948`): with `Resumes = {TRUE}`
  undoing the run's own change is a win and `NoVacuousWin` is false.
* The scope gate (`engine.py:1100`) looks at new status lines, and of a rename at the destination only
  (`engine.py:189`): an agent that moves a clean protected file away wins, and `ScopeKept` without its last disjunct is false after one
  iteration. A protected file also escapes when the agent commits the change, when it was modified before (by the user or by an
  earlier losing iteration), and when HEAD does not have it: an ignored `.env`, one of the examples at
  `loop/models.py:102`, never has a line, and an untracked file keeps its line however it changes.
  `loop/models.py:97-99` promises more ("file paths that must NEVER be modified", "any match causes the iteration to be counted as a *loss*").
  `ScopeKept` states what the gate does guarantee.
* `consecutive_noops` is not saved: a resumed loop counts its passes without a change from zero.

Claims
* `GrantsExclusive` without its proviso is false: two waiters judge one lock stale,
  the first breaks it and takes a new one, the second unlinks that
  (`claim/__init__.py:183-185`); and a holder suspended for longer than the stale limit
  goes on when its lock is gone.

Native backend
* With two processes on one run `CompletedSound` is false: they take over each
  other's leases under one owner name and overwrite each other's result files.
* With two processes `ApprovedFirst` is false too. Both run node `a`; the second
  finishes it and starts `b`, which needs approval; the first one's handler of `a` then breaks its contract and
  `_fail_running_node` (`native_backend.py:339`) fails `b`. The next execution sees `b` failed instead
  of running, skips the gate (`native_backend.py:199-202`) and runs `b`'s handler unapproved.
* After two deaths a run can be completed with a node that is recorded failed. A handler breaks its
  contract, the node is failed, and the process dies before the run is; the next execution runs the
  handler again, writes its success and dies or is refused; the one after replays the
  file, `resume_node` of the failed node is refused, the refusal is swallowed
  (`native_backend.py:393`), and the walk goes on to complete the run. `CompletedSound` therefore speaks of the files.
* In the same way it can be cancelled with such a node, if the file is a skip. `FailureOutranks` therefore speaks of
  failures on file.
* Death between `create_run` and the filled manifest makes the run unusable.
* Death after a failed result was recorded, then a new execution, may leave a sibling
  node `running` in a failed run. A failed run that is executed again runs
  those handlers that have no result file.

Working context
* When the store cannot be opened (`hooks.py:57`: the configuration is unreadable, or the database is locked while its tables are
  made), the hook returns nothing: no advisory and no invalidation. At a `SessionStart` the agent is then without the packet that
  is recorded as delivered. `docs/working-context.md:135-136` says that hook errors "report degraded context instead of
  silently falling back to stale recall". `AgentCurrent` is false after one such fault if `severed` does not count it.
* The hash that is bound (`engine.py:405`, `423`) is older than git's verdict (`engine.py:358`, from `421`): a file that is
  edited, hashed, reverted and then found clean is bound in its edited version, against "Bootstrap only from clean tracked sources older than this
  memory" (`engine.py:334`). `BaselineEarned` without `raced` is false after these two moves.
* A vote, a down-vote too, changes the memory's digest and moves `updated_at` (`core/service.py:1826`); after an edit, a commit and a
  vote the next refresh binds the changed source without an acknowledgement, against the comment at `engine.py:674-675`
  ("content changes cannot silently establish a new baseline on the next request"). `BaselineEarned` counts such a version as seen.
* A hook killed between the commit of the fingerprint and its output leaves a packet that counts as
  delivered. The docs disclaim it (`docs/working-context.md:181-183`); `AgentCurrent` and
  `RecoveryDelivers` leave it out (`lost`).
* Hooks of parallel tool calls may commit in one order and print in the other; then
  the next equal packet is suppressed although the agent holds the older one. The model has one hook process.
* A memory that only the budget leaves out is not named as withdrawn, and a replaced
  session forgets what its predecessor had given to the agent. A memory dropped as a duplicate is not named
  either; its text is in the packet under the other memory's id.

## 6. Plan

1. **Proofs**: the step refinement that justifies
   `HarnessController!StoreCall` and `NativeBackend!Answer` as single steps, stated between the
   modules (so far `Refinement` shows it for the store alone).
2. **HarnessController with LoopEngine**: which checkpoint a resumed
   harness run finds, with a run identity as history variable.
3. **Refinery** and the staging queues; **Swarm** over `NativeBackend` and `ClaimLedger`.
