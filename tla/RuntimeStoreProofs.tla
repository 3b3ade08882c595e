-------------------------- MODULE RuntimeStoreProofs --------------------------
(***************************************************************************)
(* Proofs about RuntimeStore, for every set of clients, nodes and keys,    *)
(* every log length and every failure pattern.                             *)
(***************************************************************************)
EXTENDS RuntimeStore, RunCommandsProofs, TLAPS

-----------------------------------------------------------------------------
(* The replay of the log is a snapshot. *)
LEMMA CurrentType ==
  ASSUME TypeOK, ReplayedLog
  PROVE  Current \in Snapshots
<1>1. CASE log = <<>>
  BY <1>1, NoRunType DEF Current
<1>2. CASE log # <<>>
  BY <1>2 DEF Current, TypeOK, ReplayedLog
<1>. QED
  BY <1>1, <1>2

-----------------------------------------------------------------------------
(* What appending one admitted event does to the log and its replay. *)
LEMMA WriteFacts ==
  ASSUME TypeOK, ReplayedLog, InOperation, NEW c \in Clients,
         Admitted(c), WriteEvent(c)
  PROVE  /\ NewEvent(c) \in Events
         /\ Apply(Current, NewEvent(c), Len(log) + 1) \in Snapshots
         /\ log' \in Seq(Events) /\ snaps' \in Seq(Snapshots)
         /\ Len(log') = Len(log) + 1 /\ Len(snaps') = Len(log')
         /\ \A i \in 1..Len(log) : log'[i] = log[i] /\ snaps'[i] = snaps[i]
         /\ log'[Len(log')] = NewEvent(c)
         /\ Current' = Apply(Current, NewEvent(c), Len(log) + 1)
         /\ snaps'[Len(log')] = Current'
<1>1. job[c] \in Jobs
  BY DEF InOperation, Admitted
<1>2. Current \in Snapshots
  BY CurrentType
<1>3. /\ job[c].cmd \in Commands /\ job[c].key \in Keys /\ job[c].at \in Nat
      /\ Len(log) + 1 \in Nat
  BY <1>1 DEF Jobs, TypeOK
<1>4. NewEvent(c) \in Events
  BY <1>2, <1>3, EventType DEF NewEvent
<1>5. Apply(Current, NewEvent(c), Len(log) + 1) \in Snapshots
  BY <1>2, <1>3, ApplyType DEF NewEvent, Admitted
<1>6. /\ log' = Append(log, NewEvent(c))
      /\ snaps' = Append(snaps, Apply(Current, NewEvent(c), Len(log) + 1))
  BY DEF WriteEvent
<1>7. log \in Seq(Events) /\ snaps \in Seq(Snapshots) /\ Len(snaps) = Len(log)
  BY DEF TypeOK, ReplayedLog
<1>8. /\ log' \in Seq(Events) /\ Len(log') = Len(log) + 1
      /\ log'[Len(log')] = NewEvent(c)
      /\ \A i \in 1..Len(log) : log'[i] = log[i]
      /\ log' # <<>>
  BY <1>4, <1>6, <1>7
<1>9. /\ snaps' \in Seq(Snapshots) /\ Len(snaps') = Len(snaps) + 1
      /\ snaps'[Len(snaps')] = Apply(Current, NewEvent(c), Len(log) + 1)
      /\ \A i \in 1..Len(snaps) : snaps'[i] = snaps[i]
  BY <1>5, <1>6, <1>7
<1>10. Current' = snaps'[Len(snaps')]
  BY <1>8 DEF Current
<1>. QED
  BY <1>4, <1>5, <1>7, <1>8, <1>9, <1>10

(* Appending preserves what StoreInv says of the log and its replay. *)
LEMMA WritePreserves ==
  ASSUME StoreInv, NEW c \in Clients, Admitted(c), WriteEvent(c),
         ckpt' = ckpt
  PROVE  /\ ReplayedLog' /\ KeyOnce' /\ ReplayAccepts' /\ CancelSettles'
         /\ CheckpointCurrent'
<1>. USE DEF StoreInv
<1>1. /\ NewEvent(c) \in Events
      /\ log \in Seq(Events) /\ snaps \in Seq(Snapshots)
      /\ Len(log) \in Nat /\ Len(snaps) = Len(log)
      /\ log' \in Seq(Events) /\ snaps' \in Seq(Snapshots)
      /\ Len(log') = Len(log) + 1 /\ Len(snaps') = Len(log')
      /\ \A i \in 1..Len(log) : log'[i] = log[i] /\ snaps'[i] = snaps[i]
      /\ log'[Len(log')] = NewEvent(c)
      /\ Current' = Apply(Current, NewEvent(c), Len(log) + 1)
      /\ snaps'[Len(log')] = Current'
  BY WriteFacts DEF TypeOK, ReplayedLog
<1>2. /\ Current \in Snapshots
      /\ job[c].cmd \in Commands /\ job[c].key \in Keys /\ job[c].at \in Nat
      /\ Len(log) + 1 \in Nat
      /\ Permits(Current, job[c].cmd, job[c].at)
      /\ Current.idem[job[c].key] = None
  BY CurrentType DEF Admitted, InOperation, Jobs, TypeOK
<1>3. NewEvent(c).key = job[c].key /\ NewEvent(c).cmd = job[c].cmd
  BY DEF NewEvent, EventOf
<1>4. Current'.idem = [Current.idem EXCEPT ![job[c].key] = job[c].cmd]
  BY <1>1, <1>3 DEF Apply
<1>5. \A i \in 1..Len(log) : log[i].key # job[c].key /\ log[i].key \in Keys
  <2>1. SUFFICES ASSUME NEW i \in 1..Len(log)
                 PROVE  log[i].key # job[c].key /\ log[i].key \in Keys
    OBVIOUS
  <2>2. log[i] \in Events
    BY <1>1
  <2>3. Current.idem[log[i].key] # None
    BY DEF ReplayedLog
  <2>. QED
    BY <1>2, <2>2, <2>3 DEF Events
<1>6. ReplayedLog'
  <2>1. Current'.state # None
    BY <1>1, <1>2, RunExistsAfter DEF NewEvent
  <2>2. log' # <<>>
    BY <1>1
  <2>3. \A i \in 1..Len(log') : Current'.idem[log'[i].key] # None
    <3>1. SUFFICES ASSUME NEW i \in 1..Len(log')
                   PROVE  Current'.idem[log'[i].key] # None
      OBVIOUS
    <3>2. Current.idem \in [Keys -> Commands \cup {None}]
      BY <1>2 DEF Snapshots
    <3>3. CASE i = Len(log')
      BY <1>1, <1>2, <1>3, <1>4, <3>2, <3>3, NoneAssumption
    <3>4. CASE i # Len(log')
      <4>1. i \in 1..Len(log)
        BY <1>1, <3>4
      <4>2. /\ log'[i].key = log[i].key /\ log[i].key \in Keys
            /\ log[i].key # job[c].key
        BY <1>1, <1>5, <4>1
      <4>3. Current.idem[log[i].key] # None
        BY <4>1 DEF ReplayedLog
      <4>. QED
        BY <1>4, <3>2, <4>2, <4>3
    <3>. QED
      BY <3>3, <3>4
  <2>. QED
    BY <1>1, <2>1, <2>2, <2>3 DEF ReplayedLog
<1>7. KeyOnce'
  <2>1. SUFFICES ASSUME NEW i \in 1..Len(log'), NEW j \in 1..Len(log'),
                        log'[i].key = log'[j].key
                 PROVE  i = j
    BY DEF KeyOnce
  <2>2. \A k \in 1..Len(log') : k \in 1..Len(log) \/ k = Len(log')
    BY <1>1
  <2>. QED
    BY <1>1, <1>3, <1>5, <2>1, <2>2 DEF KeyOnce
<1>8. ReplayAccepts'
  <2>1. SUFFICES ASSUME NEW i \in 1..Len(log')
                 PROVE  ApplyAccepts(IF i = 1 THEN NoRun ELSE snaps'[i - 1],
                                     log'[i])
    BY DEF ReplayAccepts
  <2>2. CASE i = Len(log')
    <3>1. (IF i = 1 THEN NoRun ELSE snaps'[i - 1]) = Current
      <4>1. CASE i = 1
        <5>1. log = <<>>
          BY <1>1, <2>2, <4>1
        <5>. QED
          BY <4>1, <5>1 DEF Current
      <4>2. CASE i # 1
        <5>1. i - 1 = Len(snaps) /\ i - 1 \in 1..Len(log) /\ log # <<>>
          BY <1>1, <2>2, <4>2
        <5>. QED
          BY <1>1, <4>2, <5>1 DEF Current
      <4>. QED
        BY <4>1, <4>2
    <3>2. ApplyAccepts(Current, NewEvent(c))
      BY <1>2, AdmittedAccepted DEF NewEvent
    <3>. QED
      BY <1>1, <2>2, <3>1, <3>2
  <2>3. CASE i # Len(log')
    <3>1. i \in 1..Len(log) /\ (i # 1 => i - 1 \in 1..Len(log))
      BY <1>1, <2>3
    <3>. QED
      BY <1>1, <3>1 DEF ReplayAccepts
  <2>. QED
    BY <2>2, <2>3
<1>9. CancelSettles'
  <2>1. SUFFICES ASSUME Current'.state = "cancelled", NEW n \in Nodes
                 PROVE  Current'.nodes[n].state \in NodeTerminal
    BY DEF CancelSettles
  <2>. QED
    BY <1>1, <1>2, <2>1, CancelSettlesAfter DEF CancelSettles, NewEvent
<1>10. CheckpointCurrent'
  <2>1. IF log = <<>> THEN ckpt = None ELSE ckpt # None /\ ckpt.seq = Len(log)
    BY DEF RepairedBeforeWrite, Admitted
  <2>2. CASE log = <<>>
    <3>1. Len(log') = 1
      BY <1>1, <2>2
    <3>. QED
      BY <2>1, <2>2, <3>1 DEF CheckpointCurrent, CheckpointMatches
  <2>3. CASE log # <<>>
    <3>1. /\ ckpt # None /\ ckpt.seq = Len(log) /\ ckpt.seq \in 1..Len(log)
          /\ ckpt.snap = snaps[ckpt.seq]
      BY <2>1, <2>3 DEF CheckpointCurrent, CheckpointMatches
    <3>2. /\ ckpt.seq \in 1..Len(log') /\ ckpt.snap = snaps'[ckpt.seq]
          /\ Len(log') - ckpt.seq <= 1
      BY <1>1, <3>1
    <3>. QED
      BY <3>1, <3>2 DEF CheckpointCurrent, CheckpointMatches
  <2>. QED
    BY <2>2, <2>3
<1>. QED
  BY <1>6, <1>7, <1>8, <1>9, <1>10

-----------------------------------------------------------------------------
(* The checkpoint a repair or a finished write leaves behind. *)
LEMMA HeadCheckpointFacts ==
  ASSUME StoreInv
  PROVE  /\ HeadCheckpoint \in Checkpoints \cup {None}
         /\ log = <<>> => HeadCheckpoint = None
         /\ log # <<>> => /\ HeadCheckpoint # None
                         /\ HeadCheckpoint.seq = Len(log)
                         /\ HeadCheckpoint.seq \in 1..Len(log)
                         /\ HeadCheckpoint.snap = snaps[Len(log)]
<1>. USE DEF StoreInv
<1>1. CASE log = <<>>
  <2>1. Len(log) = 0
    BY <1>1
  <2>2. ckpt = None
    BY <2>1 DEF CheckpointCurrent, CheckpointMatches
  <2>. QED
    BY <1>1, <2>2 DEF HeadCheckpoint
<1>2. CASE log # <<>>
  <2>1. /\ Len(log) \in Nat /\ Len(log) \in 1..Len(log)
        /\ Len(snaps) = Len(log)
    BY <1>2 DEF TypeOK, ReplayedLog
  <2>2. Current \in Snapshots /\ Current = snaps[Len(log)]
    BY <1>2, <2>1, CurrentType DEF Current
  <2>3. HeadCheckpoint = [seq |-> Len(log), snap |-> Current]
    BY <1>2 DEF HeadCheckpoint
  <2>4. HeadCheckpoint \in Checkpoints
    BY <2>1, <2>2, <2>3 DEF Checkpoints
  <2>. QED
    BY <1>2, <2>1, <2>2, <2>3, <2>4, NoCheckpointAssumption
<1>. QED
  BY <1>1, <1>2

(* A step that leaves the log alone only has to keep types, the lock       *)
(* discipline and a checkpoint that is the old one or the head's.          *)
LEMMA QuietPreserves ==
  ASSUME StoreInv, log' = log, snaps' = snaps,
         ckpt' = ckpt \/ ckpt' = HeadCheckpoint,
         TypeOK', InOperation', RepairedBeforeWrite'
  PROVE  StoreInv'
<1>1. Current' = Current
  BY DEF Current
<1>2. ReplayedLog' /\ KeyOnce' /\ ReplayAccepts' /\ CancelSettles'
  BY <1>1 DEF StoreInv, ReplayedLog, KeyOnce, ReplayAccepts, CancelSettles
<1>3. CheckpointCurrent'
  <2>1. CASE ckpt' = ckpt
    BY <2>1 DEF StoreInv, CheckpointCurrent, CheckpointMatches
  <2>2. CASE ckpt' = HeadCheckpoint /\ log = <<>>
    <3>1. ckpt' = None /\ Len(log') = 0
      BY <2>2, HeadCheckpointFacts
    <3>. QED
      BY <3>1 DEF CheckpointCurrent, CheckpointMatches
  <2>3. CASE ckpt' = HeadCheckpoint /\ log # <<>>
    <3>1. /\ ckpt' # None /\ ckpt'.seq = Len(log')
          /\ ckpt'.seq \in 1..Len(log') /\ ckpt'.snap = snaps'[ckpt'.seq]
      BY <2>3, HeadCheckpointFacts
    <3>. QED
      BY <3>1 DEF CheckpointCurrent, CheckpointMatches
  <2>. QED
    BY <2>1, <2>2, <2>3
<1>. QED
  BY <1>2, <1>3 DEF StoreInv

(* A reply leaves well-formed leases with its caller. *)
LEMMA ReturnedType ==
  ASSUME StoreInv, NEW c \in Clients, NEW cmd \in Commands
  PROVE  Returned(c, cmd, Current) \in [Clients -> [Nodes -> Leases \cup {None}]]
<1>1. held \in [Clients -> [Nodes -> Leases \cup {None}]]
  BY DEF StoreInv, TypeOK
<1>2. \A n \in Nodes : Current.nodes[n].lease \in Leases \cup {None}
  BY CurrentType DEF StoreInv, Snapshots, NodeSnapshots
<1>3. CASE LeaseCall(cmd)
  <2>1. cmd.node \in Nodes
    BY <1>3, CommandFields DEF LeaseCall
  <2>. QED
    BY <1>1, <1>2, <1>3, <2>1 DEF Returned
<1>4. CASE ~LeaseCall(cmd) /\ cmd.type = "lease_released"
  <2>1. cmd.node \in Nodes
    BY <1>4, CommandFields
  <2>. QED
    BY <1>1, <1>4, <2>1 DEF Returned
<1>5. CASE ~LeaseCall(cmd) /\ cmd.type # "lease_released"
  BY <1>1, <1>5 DEF Returned
<1>. QED
  BY <1>3, <1>4, <1>5

(* Leaving the lock: nobody is inside an operation any more. *)
LEMMA LeaveFacts ==
  ASSUME TypeOK, InOperation, NEW c \in Clients, pc[c] # "idle", Leave(c)
  PROVE  /\ lock' \in Clients \cup {None}
         /\ pc' \in [Clients -> {"idle", "decide", "checkpoint"}]
         /\ job' \in [Clients -> Jobs \cup {None}]
         /\ \A d \in Clients : pc'[d] = "idle"
         /\ InOperation'
         /\ RepairedBeforeWrite'
<1>1. /\ lock' \in Clients \cup {None}
      /\ pc' \in [Clients -> {"idle", "decide", "checkpoint"}]
      /\ job' \in [Clients -> Jobs \cup {None}]
  BY DEF TypeOK, Leave
<1>2. \A d \in Clients : pc'[d] = "idle"
  BY DEF TypeOK, InOperation, Leave
<1>3. InOperation' /\ RepairedBeforeWrite'
  BY <1>2 DEF InOperation, RepairedBeforeWrite
<1>. QED
  BY <1>1, <1>2, <1>3

-----------------------------------------------------------------------------
(* An empty directory, with nobody inside the store, satisfies StoreInv. *)
THEOREM InitInv == Init => StoreInv
<1>. SUFFICES ASSUME Init PROVE StoreInv
  OBVIOUS
<1>1. log = <<>> /\ snaps = <<>> /\ Len(log) = 0 /\ Len(snaps) = 0
  BY DEF Init
<1>2. TypeOK
  <2>1. log \in Seq(Events) /\ snaps \in Seq(Snapshots)
    BY <1>1
  <2>. QED
    BY <2>1 DEF Init, TypeOK
<1>3. Current = NoRun
  BY <1>1 DEF Current
<1>4. Current.state = None
  BY <1>3 DEF NoRun
<1>5. ReplayedLog /\ KeyOnce /\ ReplayAccepts
  BY <1>1, <1>4 DEF ReplayedLog, KeyOnce, ReplayAccepts
<1>6. CancelSettles
  BY <1>4, NoneAssumption DEF CancelSettles, RunStates
<1>7. CheckpointCurrent
  BY <1>1 DEF Init, CheckpointCurrent, CheckpointMatches
<1>8. InOperation /\ RepairedBeforeWrite
  BY DEF Init, InOperation, RepairedBeforeWrite
<1>. QED
  BY <1>2, <1>5, <1>6, <1>7, <1>8 DEF StoreInv

(* A caller can only form commands of the model. *)
LEMMA CallsAreCommands ==
  ASSUME TypeOK, NEW c \in Clients, NEW cmd \in CallsOf(c)
  PROVE  cmd \in Commands
<1>. DEFINE known == {held[c][n].token : n \in {m \in Nodes : held[c][m] # None}}
<1>1. known \subseteq Nat
  BY DEF TypeOK, Leases
<1>2. cmd \in CommandsWith(known)
  BY DEF CallsOf
<1>. QED
  BY <1>1, <1>2 DEF Commands, CommandsWith, HeartbeatCmds, ReleaseCmds

(* Every step preserves StoreInv: one case per action. *)
THEOREM StepInv == StoreInv /\ [Next]_vars => StoreInv'
<1>. SUFFICES ASSUME StoreInv, [Next]_vars PROVE StoreInv'
  OBVIOUS
<1>. USE DEF StoreInv
<1>1. ASSUME NEW c \in Clients, NEW cmd \in CallsOf(c), NEW key \in Keys,
             Enter(c, cmd, key)
      PROVE  StoreInv'
  <2>1. [cmd |-> cmd, key |-> key, at |-> now] \in Jobs
    BY CallsAreCommands DEF Jobs, TypeOK
  <2>2. log' = log /\ snaps' = snaps /\ ckpt' = HeadCheckpoint
    BY <1>1 DEF Enter, files
  <2>3. \A d \in Clients : pc[d] = "idle"
    BY <1>1, NoneAssumption DEF Enter, InOperation, TypeOK
  <2>4. TypeOK'
    BY <1>1, <2>1, <2>2, HeadCheckpointFacts DEF Enter, TypeOK, files
  <2>5. InOperation'
    BY <1>1, <2>1, <2>3 DEF Enter, InOperation, TypeOK
  <2>6. RepairedBeforeWrite'
    BY <2>2, HeadCheckpointFacts DEF RepairedBeforeWrite
  <2>. QED
    BY <2>2, <2>4, <2>5, <2>6, QuietPreserves
<1>2. ASSUME NEW c \in Clients, Load(c)
      PROVE  StoreInv'
  <2>1. /\ log' = log /\ snaps' = snaps /\ ckpt' = HeadCheckpoint
        /\ pc' = pc /\ job' = job /\ lock' = lock
    BY <1>2 DEF Load, files, calls
  <2>2. TypeOK'
    BY <1>2, <2>1, HeadCheckpointFacts DEF Load, TypeOK, files, calls
  <2>3. InOperation' /\ RepairedBeforeWrite'
    BY <2>1, HeadCheckpointFacts DEF InOperation, RepairedBeforeWrite
  <2>. QED
    BY <2>1, <2>2, <2>3, QuietPreserves
<1>3. ASSUME NEW c \in Clients, Duplicate(c)
      PROVE  StoreInv'
  <2>1. pc[c] # "idle" /\ Leave(c)
    BY <1>3 DEF Duplicate
  <2>2. job[c].cmd \in Commands /\ job[c].key \in Keys
    BY <2>1 DEF InOperation, Jobs
  <2>3. log' = log /\ snaps' = snaps /\ ckpt' = ckpt
    BY <1>3 DEF Duplicate, files
  <2>4. held' \in [Clients -> [Nodes -> Leases \cup {None}]]
    BY <1>3, <2>2, ReturnedType DEF Duplicate
  <2>5. acked' \in SUBSET Keys
    BY <1>3, <2>2 DEF Duplicate, TypeOK
  <2>6. TypeOK'
    BY <1>3, <2>1, <2>3, <2>4, <2>5, LeaveFacts DEF Duplicate, TypeOK, files
  <2>. QED
    BY <2>1, <2>3, <2>6, LeaveFacts, QuietPreserves
<1>4. ASSUME NEW c \in Clients, Refuse(c)
      PROVE  StoreInv'
  <2>1. pc[c] # "idle" /\ Leave(c)
    BY <1>4 DEF Refuse
  <2>2. log' = log /\ snaps' = snaps /\ ckpt' = ckpt
    BY <1>4 DEF Refuse, files
  <2>3. TypeOK'
    BY <1>4, <2>1, <2>2, LeaveFacts DEF Refuse, TypeOK, files
  <2>. QED
    BY <2>1, <2>2, <2>3, LeaveFacts, QuietPreserves
<1>5. ASSUME NEW c \in Clients, AppendEvent(c)
      PROVE  StoreInv'
  <2>1. Admitted(c) /\ WriteEvent(c) /\ ckpt' = ckpt
    BY <1>5 DEF AppendEvent
  <2>2. TypeOK'
    BY <1>5, <2>1, WriteFacts DEF AppendEvent, WriteEvent, TypeOK
  <2>3. InOperation'
    BY <1>5, <2>1 DEF AppendEvent, Admitted, InOperation, TypeOK
  <2>4. RepairedBeforeWrite'
    <3>1. \A d \in Clients : pc'[d] # "decide"
      BY <1>5, <2>1 DEF AppendEvent, Admitted, InOperation, TypeOK
    <3>. QED
      BY <3>1 DEF RepairedBeforeWrite
  <2>. QED
    BY <2>1, <2>2, <2>3, <2>4, WritePreserves
<1>6. ASSUME NEW c \in Clients, WriteCheckpoint(c)
      PROVE  StoreInv'
  <2>1. pc[c] # "idle" /\ Leave(c)
    BY <1>6 DEF WriteCheckpoint
  <2>2. job[c].cmd \in Commands /\ job[c].key \in Keys
    BY <2>1 DEF InOperation, Jobs
  <2>3. log' = log /\ snaps' = snaps /\ ckpt' = HeadCheckpoint
    BY <1>6 DEF WriteCheckpoint, files
  <2>4. held' \in [Clients -> [Nodes -> Leases \cup {None}]]
    BY <1>6, <2>2, ReturnedType DEF WriteCheckpoint
  <2>5. acked' \in SUBSET Keys
    BY <1>6, <2>2 DEF WriteCheckpoint, TypeOK
  <2>6. TypeOK'
    BY <1>6, <2>1, <2>3, <2>4, <2>5, LeaveFacts, HeadCheckpointFacts
      DEF WriteCheckpoint, TypeOK, files
  <2>. QED
    BY <2>1, <2>3, <2>6, LeaveFacts, QuietPreserves
<1>7. ASSUME NEW c \in Clients, Crash(c)
      PROVE  StoreInv'
  <2>1. log' = log /\ snaps' = snaps /\ ckpt' = ckpt /\ made' = made
        /\ tail' = tail /\ now' = now /\ acked' = acked
    BY <1>7 DEF Crash, Die, files
  <2>2. held' \in [Clients -> [Nodes -> Leases \cup {None}]]
    BY <1>7 DEF Crash, Die, TypeOK
  <2>3. CASE pc[c] # "idle"
    <3>1. Leave(c)
      BY <1>7, <2>3 DEF Crash, Die, InOperation
    <3>2. TypeOK'
      BY <2>1, <2>2, <2>3, <3>1, LeaveFacts DEF TypeOK
    <3>. QED
      BY <2>1, <2>3, <3>1, <3>2, LeaveFacts, QuietPreserves
  <2>4. CASE pc[c] = "idle" /\ lock # c
    <3>1. lock' = lock /\ pc' = pc /\ job' = job
      BY <1>7, <2>4 DEF Crash, calls
    <3>2. TypeOK'
      BY <2>1, <2>2, <3>1 DEF TypeOK
    <3>3. InOperation' /\ RepairedBeforeWrite'
      BY <2>1, <3>1 DEF InOperation, RepairedBeforeWrite
    <3>. QED
      BY <2>1, <3>2, <3>3, QuietPreserves
  <2>5. CASE pc[c] = "idle" /\ lock = c
    <3>1. Leave(c)
      BY <1>7, <2>5 DEF Crash, Die
    <3>2. \A d \in Clients : pc[d] = "idle"
      BY <2>5 DEF InOperation, TypeOK
    <3>3. /\ \A d \in Clients : pc'[d] = "idle"
          /\ lock' \in Clients \cup {None}
          /\ pc' \in [Clients -> {"idle", "decide", "checkpoint"}]
          /\ job' \in [Clients -> Jobs \cup {None}]
      BY <3>1, <3>2 DEF Leave, TypeOK
    <3>4. TypeOK'
      BY <2>1, <2>2, <3>3 DEF TypeOK
    <3>5. InOperation' /\ RepairedBeforeWrite'
      BY <3>3 DEF InOperation, RepairedBeforeWrite
    <3>. QED
      BY <2>1, <3>4, <3>5, QuietPreserves
  <2>. QED
    BY <2>3, <2>4, <2>5
<1>8. ASSUME NEW c \in Clients, CrashAfterOpen(c) \/ CrashTorn(c)
      PROVE  StoreInv'
  <2>1. pc[c] # "idle" /\ Leave(c)
    BY <1>8 DEF CrashAfterOpen, CrashTorn, Admitted, Die
  <2>2. log' = log /\ snaps' = snaps /\ ckpt' = ckpt
    BY <1>8 DEF CrashAfterOpen, CrashTorn, Die
  <2>3. held' \in [Clients -> [Nodes -> Leases \cup {None}]]
    BY ZenonT(60), <1>8 DEF CrashAfterOpen, CrashTorn, Die, TypeOK
  <2>4. TypeOK'
    BY <1>8, <2>1, <2>2, <2>3, LeaveFacts
      DEF CrashAfterOpen, CrashTorn, Die, TypeOK
  <2>. QED
    BY <2>1, <2>2, <2>4, LeaveFacts, QuietPreserves
<1>9. ASSUME NEW c \in Clients, CrashUnterminated(c)
      PROVE  StoreInv'
  <2>1. /\ pc[c] # "idle" /\ Leave(c)
        /\ Admitted(c) /\ WriteEvent(c) /\ ckpt' = ckpt
    BY <1>9 DEF CrashUnterminated, Admitted, Die
  <2>2. held' \in [Clients -> [Nodes -> Leases \cup {None}]]
    BY <1>9 DEF CrashUnterminated, Die, TypeOK
  <2>3. TypeOK'
    BY <1>9, <2>1, <2>2, WriteFacts, LeaveFacts
      DEF CrashUnterminated, WriteEvent, Die, TypeOK
  <2>. QED
    BY <2>1, <2>3, LeaveFacts, WritePreserves
<1>10. CASE Tick
  <2>1. /\ log' = log /\ snaps' = snaps /\ ckpt' = ckpt
        /\ pc' = pc /\ job' = job /\ lock' = lock
    BY <1>10 DEF Tick, files, calls
  <2>2. TypeOK'
    BY <1>10, <2>1 DEF Tick, TypeOK, files
  <2>3. InOperation' /\ RepairedBeforeWrite'
    BY <2>1 DEF InOperation, RepairedBeforeWrite
  <2>. QED
    BY <2>1, <2>2, <2>3, QuietPreserves
<1>11. CASE UNCHANGED vars
  <2>1. /\ log' = log /\ snaps' = snaps /\ ckpt' = ckpt
        /\ pc' = pc /\ job' = job /\ lock' = lock
    BY <1>11 DEF vars
  <2>2. TypeOK'
    BY <1>11 DEF vars, TypeOK
  <2>3. InOperation' /\ RepairedBeforeWrite'
    BY <2>1 DEF InOperation, RepairedBeforeWrite
  <2>. QED
    BY <2>1, <2>2, <2>3, QuietPreserves
<1>. QED
  BY <1>1, <1>2, <1>3, <1>4, <1>5, <1>6, <1>7, <1>8, <1>9, <1>10, <1>11
    DEF Next

-----------------------------------------------------------------------------
(* The inductive invariant holds throughout, whatever crashes, tears or    *)
(* repeats: the basis of the theorems below.                               *)
THEOREM Invariance == Spec => []StoreInv
  BY InitInv, StepInv, PTL DEF Spec

(* Every reachable state of the log, the replayed snapshots, the           *)
(* checkpoint, the lock and the callers is well typed.                     *)
THEOREM TypeCorrect == Spec => []TypeOK
<1>1. StoreInv => TypeOK
  BY DEF StoreInv
<1>. QED
  BY <1>1, Invariance, PTL

(* No idempotency key is recorded twice, for any number of clients, calls  *)
(* and crashes.                                                            *)
THEOREM KeyOnceHolds == Spec => []KeyOnce
<1>1. StoreInv => KeyOnce
  BY DEF StoreInv
<1>. QED
  BY <1>1, Invariance, PTL

(* The checkpoint is always a snapshot of the log without at most its last *)
(* event: _load_unlocked never reports a mismatch the store itself caused. *)
THEOREM CheckpointHolds == Spec => []CheckpointCurrent
<1>1. StoreInv => CheckpointCurrent
  BY DEF StoreInv
<1>. QED
  BY <1>1, Invariance, PTL

(* Every event any operation records is one that replay accepts.           *)
THEOREM ReplayHolds == Spec => []ReplayAccepts
<1>1. StoreInv => ReplayAccepts
  BY DEF StoreInv
<1>. QED
  BY <1>1, Invariance, PTL

(* A cancelled run has no live node, in any state the program can reach.   *)
THEOREM CancelHolds == Spec => []CancelSettles
<1>1. StoreInv => CancelSettles
  BY DEF StoreInv
<1>. QED
  BY <1>1, Invariance, PTL

-----------------------------------------------------------------------------
(* Every step either leaves the log alone or appends one admitted event. *)
LEMMA StepKind ==
  ASSUME StoreInv, [Next]_vars
  PROVE  \/ log' = log /\ snaps' = snaps /\ Current' = Current
         \/ \E c \in Clients : Admitted(c) /\ WriteEvent(c)
<1>1. \/ log' = log /\ snaps' = snaps
      \/ \E c \in Clients : Admitted(c) /\ WriteEvent(c)
  BY DEF Next, vars, files, Enter, Load, Duplicate, Refuse, AppendEvent,
         WriteCheckpoint, Crash, CrashAfterOpen, CrashTorn,
         CrashUnterminated, Tick
<1>. QED
  BY <1>1 DEF Current

(* What an appending step knows of its command. *)
LEMMA AdmittedFacts ==
  ASSUME StoreInv, NEW c \in Clients, Admitted(c), WriteEvent(c)
  PROVE  /\ Current \in Snapshots
         /\ job[c].cmd \in Commands /\ job[c].key \in Keys
         /\ job[c].at \in Nat /\ Len(log) + 1 \in Nat
         /\ Permits(Current, job[c].cmd, job[c].at)
         /\ Current' = Apply(Current,
              EventOf(Current, job[c].cmd, job[c].key, job[c].at),
              Len(log) + 1)
         /\ Len(log') = Len(log) + 1
         /\ log'[Len(log')].cmd = job[c].cmd
<1>1. /\ job[c].cmd \in Commands /\ job[c].key \in Keys /\ job[c].at \in Nat
      /\ Len(log) + 1 \in Nat /\ Current \in Snapshots
  BY CurrentType DEF StoreInv, Admitted, InOperation, Jobs, TypeOK
<1>2. /\ Current' = Apply(Current, NewEvent(c), Len(log) + 1)
      /\ Len(log') = Len(log) + 1 /\ log'[Len(log')] = NewEvent(c)
  BY WriteFacts DEF StoreInv
<1>3. NewEvent(c).cmd = job[c].cmd
  BY DEF NewEvent, EventOf
<1>. QED
  BY <1>1, <1>2, <1>3 DEF NewEvent, Admitted

(* Terminal run and node states are final, for every instance. *)
THEOREM TerminalHolds == Spec => TerminalFinal
<1>1. StoreInv /\ [Next]_vars =>
        [/\ Current.state \in RunTerminal => Current'.state = Current.state
         /\ \A n \in Nodes :
              Current.nodes[n].state \in NodeTerminal =>
                Current'.nodes[n].state = Current.nodes[n].state]_vars
  <2>. SUFFICES ASSUME StoreInv, [Next]_vars
                PROVE  /\ Current.state \in RunTerminal =>
                            Current'.state = Current.state
                       /\ \A n \in Nodes :
                            Current.nodes[n].state \in NodeTerminal =>
                              Current'.nodes[n].state = Current.nodes[n].state
    OBVIOUS
  <2>1. CASE Current' = Current
    BY <2>1
  <2>2. ASSUME NEW c \in Clients, Admitted(c), WriteEvent(c)
        PROVE  /\ Current.state \in RunTerminal =>
                    Current'.state = Current.state
               /\ \A n \in Nodes :
                    Current.nodes[n].state \in NodeTerminal =>
                      Current'.nodes[n].state = Current.nodes[n].state
    BY <2>2, AdmittedFacts, TerminalAfter
  <2>. QED
    BY <2>1, <2>2, StepKind
<1>. QED
  BY <1>1, Invariance, PTL DEF Spec, TerminalFinal

-----------------------------------------------------------------------------
(* The second invariant: tokens and clock readings. *)
LEMMA ClockStep ==
  ASSUME StoreInv, ClockInRange, [Next]_vars
  PROVE  ClockInRange'
<1>. USE DEF StoreInv
<1>1. now \in Nat /\ now <= MaxTime /\ MaxTime \in Nat
  BY ConstantsAssumption DEF ClockInRange
<1>2. CASE Tick
  BY <1>1, <1>2 DEF Tick, ClockInRange, calls
<1>3. ASSUME NEW c \in Clients, NEW cmd \in CallsOf(c), NEW key \in Keys,
             Enter(c, cmd, key)
      PROVE  ClockInRange'
  BY <1>1, <1>3 DEF Enter, ClockInRange, TypeOK
<1>4. ASSUME NEW c \in Clients, Leave(c), now' = now
      PROVE  ClockInRange'
  BY <1>1, <1>4 DEF Leave, ClockInRange, TypeOK
<1>5. ASSUME pc' = pc, job' = job, now' = now
      PROVE  ClockInRange'
  BY <1>5 DEF ClockInRange
<1>6. ASSUME NEW c \in Clients, AppendEvent(c)
      PROVE  ClockInRange'
  BY <1>1, <1>6 DEF AppendEvent, Admitted, ClockInRange, TypeOK
<1>7. ASSUME NEW c \in Clients,
             \/ Load(c) \/ Duplicate(c) \/ Refuse(c) \/ WriteCheckpoint(c)
             \/ Crash(c) \/ CrashAfterOpen(c) \/ CrashTorn(c)
             \/ CrashUnterminated(c)
      PROVE  \/ Leave(c) /\ now' = now
             \/ pc' = pc /\ job' = job /\ now' = now
  BY <1>7 DEF Load, Duplicate, Refuse, WriteCheckpoint, Crash, CrashAfterOpen,
              CrashTorn, CrashUnterminated, Die, calls
<1>8. CASE UNCHANGED vars
  BY <1>5, <1>8 DEF vars
<1>. QED
  BY <1>2, <1>3, <1>4, <1>5, <1>6, <1>7, <1>8 DEF Next

(* All a command can do to one node's lease. *)
LEMMA LeaseAfter ==
  ASSUME NEW s \in Snapshots, NEW cmd \in Commands, NEW key \in Keys,
         NEW at \in Nat, NEW seq \in Nat, Permits(s, cmd, at), NEW n \in Nodes
  PROVE  LET old == s.nodes[n].lease
             new == Apply(s, EventOf(s, cmd, key, at), seq).nodes[n].lease
         IN  \/ new = old
             \/ /\ cmd.type = "lease_acquired" /\ cmd.node = n
                /\ new = [owner |-> cmd.owner, token |-> seq,
                          expires |-> at + cmd.ttl]
             \/ /\ cmd.type = "lease_heartbeat" /\ cmd.node = n /\ old \in Leases
                /\ new = [old EXCEPT !.expires = at + cmd.ttl]
             \/ cmd.type = "lease_released" /\ cmd.node = n /\ new = None
             \/ n \in Expired(s, at) /\ new = None
<1>. DEFINE e == EventOf(s, cmd, key, at)
            t == Apply(s, e, seq)
<1>1. e.cmd = cmd /\ e.at = at
  BY DEF EventOf
<1>2. t.nodes = NodesAfter(s, e, seq)
  BY DEF Apply
<1>3. s.nodes \in [Nodes -> NodeSnapshots]
  BY DEF Snapshots
<1>4. CASE cmd.type = "run_transition" /\ cmd.to = "cancelled"
  <2>1. t.nodes[n] = CancelNode(s.nodes[n])
    BY <1>1, <1>2, <1>4 DEF NodesAfter
  <2>. QED
    BY <1>3, <2>1 DEF CancelNode, NodeSnapshots
<1>5. CASE cmd.type = "node_transition"
  BY <1>1, <1>2, <1>3, <1>5, CommandFields DEF NodesAfter, NodeSnapshots
<1>6. CASE cmd.type = "retry_recorded"
  BY <1>1, <1>2, <1>3, <1>6, CommandFields DEF NodesAfter, NodeSnapshots
<1>7. CASE cmd.type = "lease_acquired"
  BY <1>1, <1>2, <1>3, <1>7, CommandFields DEF NodesAfter, NodeSnapshots
<1>8. CASE cmd.type = "lease_heartbeat"
  <2>1. s.nodes[cmd.node].lease \in Leases
    BY <1>3, <1>8, CommandFields DEF Permits, HoldsLease, NodeSnapshots
  <2>. QED
    BY <1>1, <1>2, <1>3, <1>8, <2>1, CommandFields
      DEF NodesAfter, NodeSnapshots
<1>9. CASE cmd.type = "lease_released"
  BY <1>1, <1>2, <1>3, <1>9, CommandFields DEF NodesAfter, NodeSnapshots
<1>10. CASE cmd.type = "leases_expired"
  <2>1. e.drop = Expired(s, at)
    BY <1>10 DEF EventOf
  <2>2. t.nodes[n] = IF n \in Expired(s, at)
                       THEN [s.nodes[n] EXCEPT !.lease = None] ELSE s.nodes[n]
    BY <1>1, <1>2, <1>10, <2>1 DEF NodesAfter
  <2>. QED
    BY <1>3, <2>2 DEF NodeSnapshots
<1>11. CASE /\ ~(cmd.type = "run_transition" /\ cmd.to = "cancelled")
            /\ cmd.type \notin {"lease_acquired", "lease_heartbeat",
                 "lease_released", "leases_expired", "node_transition",
                 "retry_recorded"}
  BY <1>1, <1>2, <1>11 DEF NodesAfter
<1>. QED
  BY <1>4, <1>5, <1>6, <1>7, <1>8, <1>9, <1>10, <1>11

(* Every step keeps the lease tokens within those issued. *)
LEMMA TokensStep ==
  ASSUME StoreInv, TokensIssued, [Next]_vars
  PROVE  TokensIssued'
<1>1. CASE log' = log /\ Current' = Current
  BY <1>1 DEF TokensIssued
<1>2. ASSUME NEW c \in Clients, Admitted(c), WriteEvent(c)
      PROVE  TokensIssued'
  <2>1. Len(log) \in Nat /\ Len(log) + 1 \in Nat \ {0}
        /\ (Len(log) + 1) - 1 = Len(log)
    BY DEF StoreInv, TypeOK
  <2>. SUFFICES ASSUME NEW n \in Nodes, Current'.nodes[n].lease # None
                PROVE  Current'.nodes[n].lease.token \in 0..Len(log')
    BY DEF TokensIssued
  <2>2. Len(log') = Len(log) + 1
    BY <1>2, AdmittedFacts
  <2>3. \/ Current'.nodes[n].lease = Current.nodes[n].lease
        \/ Current'.nodes[n].lease.token = Len(log) + 1
        \/ /\ Current.nodes[n].lease \in Leases
           /\ Current'.nodes[n].lease.token = Current.nodes[n].lease.token
    <3>. DEFINE cmd == job[c].cmd
                old == Current.nodes[n].lease
                new == Current'.nodes[n].lease
    <3>1. \/ new = old
          \/ new = [owner |-> cmd.owner, token |-> Len(log) + 1,
                    expires |-> job[c].at + cmd.ttl]
          \/ /\ old \in Leases
             /\ new = [old EXCEPT !.expires = job[c].at + cmd.ttl]
          \/ new = None
      BY <1>2, AdmittedFacts, LeaseAfter
    <3>2. new # None
      OBVIOUS
    <3>. HIDE DEF new, old
    <3>. QED
      BY <3>1, <3>2 DEF Leases, new, old
  <2>. QED
    BY <2>1, <2>2, <2>3, NoneAssumption DEF TokensIssued
<1>. QED
  BY <1>1, <1>2, StepKind

(* The invariants that the action properties and the refinement need. *)
LEMMA FullInvariance == Spec => [](StoreInv /\ TokensIssued /\ ClockInRange)
<1>1. Init => TokensIssued /\ ClockInRange
  BY ConstantsAssumption
    DEF Init, TokensIssued, ClockInRange, Current, NoRun
<1>2. StoreInv /\ TokensIssued /\ ClockInRange /\ [Next]_vars
        => TokensIssued' /\ ClockInRange'
  BY ClockStep, TokensStep
<1>. QED
  BY <1>1, <1>2, InitInv, StepInv, PTL DEF Spec

(* No unexpired lease is taken away: it keeps owner and token until it is  *)
(* released under that token.                                              *)
THEOREM LeaseStableHolds == Spec => LeaseStable
<1>. DEFINE
       Kept(n) ==
         LET lease == Current.nodes[n].lease
             next  == Current'.nodes[n].lease
         IN  lease # None /\ lease.expires > now =>
               \/ next # None /\ next.owner = lease.owner
                              /\ next.token = lease.token
               \/ log'[Len(log')].cmd =
                    [type |-> "lease_released", node |-> n,
                     token |-> lease.token]
<1>1. StoreInv /\ ClockInRange /\ [Next]_vars => \A n \in Nodes : Kept(n)
  <2>. SUFFICES ASSUME StoreInv, ClockInRange, [Next]_vars, NEW n \in Nodes,
                       Current.nodes[n].lease # None,
                       Current.nodes[n].lease.expires > now
                PROVE  Kept(n)
    OBVIOUS
  <2>1. CASE Current' = Current
    BY <2>1
  <2>2. ASSUME NEW c \in Clients, Admitted(c), WriteEvent(c)
        PROVE  Kept(n)
    <3>. DEFINE cmd == job[c].cmd
                at  == job[c].at
                old == Current.nodes[n].lease
                new == Current'.nodes[n].lease
    <3>1. /\ Current \in Snapshots /\ cmd \in Commands /\ job[c].key \in Keys
          /\ at \in Nat /\ Len(log) + 1 \in Nat
          /\ Permits(Current, cmd, at)
          /\ log'[Len(log')].cmd = cmd
      BY <2>2, AdmittedFacts
    <3>2. /\ old \in Leases /\ old.expires \in Nat /\ now \in Nat
          /\ old.expires > now
      BY <3>1 DEF Snapshots, NodeSnapshots, Leases, StoreInv, TypeOK
    <3>3. at \in 0..now
      BY <2>2 DEF ClockInRange, Admitted
    <3>4. ~(old.expires <= at)
      BY <3>2, <3>3
    <3>5. \/ new = old
          \/ /\ cmd.type = "lease_acquired" /\ cmd.node = n
             /\ new = [owner |-> cmd.owner, token |-> Len(log) + 1,
                       expires |-> at + cmd.ttl]
          \/ /\ cmd.type = "lease_heartbeat" /\ old \in Leases
             /\ new = [old EXCEPT !.expires = at + cmd.ttl]
          \/ cmd.type = "lease_released" /\ cmd.node = n /\ new = None
          \/ n \in Expired(Current, at) /\ new = None
      <4>1. Current' = Apply(Current, EventOf(Current, cmd, job[c].key, at),
                             Len(log) + 1)
        BY <2>2, AdmittedFacts
      <4>. HIDE DEF cmd, at
      <4>. QED
        BY <3>1, <4>1, LeaseAfter
    <3>6. ~(cmd.type = "lease_acquired" /\ cmd.node = n)
      BY <3>1, <3>2, <3>4 DEF Permits, Vacant
    <3>7. n \notin Expired(Current, at)
      BY <3>4 DEF Expired
    <3>8. CASE cmd.type = "lease_released" /\ cmd.node = n
      <4>1. cmd.token = old.token
        BY <3>1, <3>8 DEF Permits, HoldsLease
      <4>2. cmd \in ReleaseCmds(Nat)
        BY <3>1, <3>8 DEF Commands, CommandsWith, RunCmds, NodeCmds,
             AcquireCmds, HeartbeatCmds, ReleaseCmds, ExpireCmds, RetryCmds,
             CreateCmds
      <4>3. cmd = [type |-> "lease_released", node |-> n,
                   token |-> old.token]
        BY <3>8, <4>1, <4>2 DEF ReleaseCmds
      <4>. QED
        BY <3>1, <4>3
    <3>9. CASE /\ cmd.type = "lease_heartbeat"
               /\ new = [old EXCEPT !.expires = at + cmd.ttl]
      <4>1. cmd.ttl \in Nat
        BY <3>1, <3>9, CommandFields, ConstantsAssumption
      <4>2. at + cmd.ttl \in Nat
        BY <3>1, <4>1
      <4>3. new \in Leases /\ new.owner = old.owner /\ new.token = old.token
        BY <3>2, <3>9, <4>2 DEF Leases
      <4>. QED
        BY <4>3, NoneAssumption
    <3>10. CASE new = old
      BY <3>2, <3>10, NoneAssumption
    <3>. QED
      BY <3>5, <3>6, <3>7, <3>8, <3>9, <3>10
  <2>. QED
    BY <2>1, <2>2, StepKind
<1>2. StoreInv /\ ClockInRange /\ [Next]_vars => [\A n \in Nodes : Kept(n)]_vars
  BY <1>1
<1>. QED
  BY <1>2, FullInvariance, PTL DEF Spec, LeaseStable

-----------------------------------------------------------------------------
(* The ledger's copies of the command definitions are these definitions. *)
LEMMA SameCommands ==
  /\ Ledger!NoRun = NoRun
  /\ \A t : Ledger!CommandsWith(t) = CommandsWith(t)
  /\ \A s, cmd, at : Ledger!Permits(s, cmd, at) <=> Permits(s, cmd, at)
  /\ \A s, cmd, key, at : Ledger!EventOf(s, cmd, key, at)
                             = EventOf(s, cmd, key, at)
  /\ \A s, e, seq : Ledger!Apply(s, e, seq) = Apply(s, e, seq)
<1>1. Ledger!NoRun = NoRun
  BY DEF Ledger!NoRun, NoRun
<1>2. \A t : Ledger!CommandsWith(t) = CommandsWith(t)
  BY DEF Ledger!CommandsWith, CommandsWith, Ledger!RunCmds, RunCmds,
     Ledger!NodeCmds, NodeCmds, Ledger!AcquireCmds, AcquireCmds,
     Ledger!HeartbeatCmds, HeartbeatCmds, Ledger!ReleaseCmds, ReleaseCmds,
     Ledger!ExpireCmds, ExpireCmds, Ledger!RetryCmds, RetryCmds,
     Ledger!CreateCmds, CreateCmds
<1>3. \A s, cmd, at : Ledger!Permits(s, cmd, at) <=> Permits(s, cmd, at)
  BY DEF Ledger!Permits, Permits, Ledger!RunMove, RunMove,
     Ledger!NodeMove, NodeMove, Ledger!Vacant, Vacant,
     Ledger!HoldsLease, HoldsLease, Ledger!RunEdges, RunEdges,
     Ledger!NodeEdges, NodeEdges
<1>4. \A s, cmd, key, at : Ledger!EventOf(s, cmd, key, at)
                             = EventOf(s, cmd, key, at)
  BY DEF Ledger!EventOf, EventOf, Ledger!Expired, Expired
<1>5. \A s, e, seq : Ledger!Apply(s, e, seq) = Apply(s, e, seq)
  BY DEF Ledger!Apply, Apply, Ledger!StateAfter, StateAfter,
     Ledger!NodesAfter, NodesAfter, Ledger!CancelNode, CancelNode,
     Ledger!NodeTerminal, NodeTerminal
<1>. QED
  BY <1>1, <1>2, <1>3, <1>4, <1>5

(* A permitted command names no token beyond the log. *)
LEMMA PermittedTokens ==
  ASSUME StoreInv, TokensIssued, NEW cmd \in Commands, NEW at \in Nat,
         Permits(Current, cmd, at)
  PROVE  cmd \in CommandsWith(0..Len(log))
<1>1. CASE cmd.type \in {"lease_heartbeat", "lease_released"}
  <2>1. cmd.node \in Nodes
    BY <1>1, CommandFields
  <2>2. cmd.token \in 0..Len(log)
    BY <1>1, <2>1 DEF Permits, HoldsLease, TokensIssued
  <2>3. cmd \in HeartbeatCmds(Nat) \/ cmd \in ReleaseCmds(Nat)
    BY <1>1 DEF Commands, CommandsWith, RunCmds, NodeCmds, AcquireCmds,
         HeartbeatCmds, ReleaseCmds, ExpireCmds, RetryCmds, CreateCmds
  <2>4. CASE cmd \in HeartbeatCmds(Nat)
    BY <2>2, <2>4 DEF HeartbeatCmds, CommandsWith
  <2>5. CASE cmd \in ReleaseCmds(Nat)
    BY <2>2, <2>5 DEF ReleaseCmds, CommandsWith
  <2>. QED
    BY <2>3, <2>4, <2>5
<1>2. CASE cmd.type \notin {"lease_heartbeat", "lease_released"}
  BY <1>2 DEF Commands, CommandsWith, HeartbeatCmds, ReleaseCmds
<1>. QED
  BY <1>1, <1>2

(* The store implements the ledger: the append is the commit, and every    *)
(* other step, crashes and checkpoint repairs included, is a stutter.      *)
THEOREM Refinement == Spec => ImplementsLedger
<1>1. Init => Ledger!LedgerInit
  <2>. SUFFICES ASSUME Init PROVE Current = NoRun /\ Len(log) = 0
    BY SameCommands DEF Ledger!LedgerInit
  <2>. QED
    BY DEF Init, Current
<1>2. StoreInv /\ TokensIssued /\ ClockInRange /\ [Next]_vars
        => [Ledger!LedgerNext]_Ledger!ledgerVars
  <2>. SUFFICES ASSUME StoreInv, TokensIssued, ClockInRange, [Next]_vars
                PROVE  [Ledger!LedgerNext]_Ledger!ledgerVars
    OBVIOUS
  <2>1. CASE log' = log /\ Current' = Current
    BY <2>1 DEF Ledger!ledgerVars
  <2>2. ASSUME NEW c \in Clients, Admitted(c), WriteEvent(c)
        PROVE  Ledger!LedgerNext
    <3>. DEFINE cmd == job[c].cmd
                key == job[c].key
                at  == job[c].at
    <3>1. /\ cmd \in Commands /\ key \in Keys /\ at \in Nat
          /\ Permits(Current, cmd, at)
          /\ Current' = Apply(Current, EventOf(Current, cmd, key, at),
                              Len(log) + 1)
          /\ Len(log') = Len(log) + 1
      BY <2>2, AdmittedFacts
    <3>2. Current.idem[key] = None
      BY <2>2 DEF Admitted
    <3>3. cmd \in CommandsWith(0..Len(log))
      BY <3>1, PermittedTokens
    <3>4. at \in 0..MaxTime
      BY <2>2, ConstantsAssumption DEF ClockInRange, Admitted
    <3>. HIDE DEF cmd, key, at
    <3>5. Ledger!Commit(cmd, key, at)
      BY <3>1, <3>2, SameCommands DEF Ledger!Commit
    <3>6. cmd \in Ledger!CommandsWith(0..Len(log))
      BY <3>3, SameCommands
    <3>. QED
      BY <3>1, <3>4, <3>5, <3>6 DEF Ledger!LedgerNext
  <2>. QED
    BY <2>1, <2>2, StepKind
<1>. QED
  BY <1>1, <1>2, FullInvariance, PTL
    DEF Spec, ImplementsLedger, Ledger!LedgerSpec

-----------------------------------------------------------------------------
(* Replies: what was acknowledged is in the log, and a lease that was      *)
(* returned is the log's lease.                                            *)

(* Replay takes no key that the log does not have.                         *)
KeysReplayed == \A k \in Keys : Current.idem[k] # None => k \in UsedKeys

(* An operation that will reply success has its event in the log, and no   *)
(* line of it is damaged.                                                  *)
AckedInv ==
  /\ tail = "clean"
  /\ acked \subseteq UsedKeys
  /\ \A c \in Clients : pc[c] = "checkpoint" => job[c].key \in UsedKeys

(* The token t was granted by the log's acquire of node n for client c.    *)
GrantOf(t, n, c) ==
  /\ t \in 1..Len(log)
  /\ log[t].cmd.type = "lease_acquired"
  /\ log[t].cmd.node = n
  /\ log[t].cmd.owner = c

(* The lease that the replay of the log gives a node. *)
LeaseOf(n) == Current.nodes[n].lease

(* A lease in the log comes from a call that asked for it. *)
LeaseGranted(n) ==
  LeaseOf(n) # None => GrantOf(LeaseOf(n).token, n, LeaseOf(n).owner)

(* A token names one grant, so whoever presents it is its owner.           *)
Granted ==
  /\ \A n \in Nodes : LeaseGranted(n)
  /\ \A c \in Clients, n \in Nodes :
       held[c][n] # None => GrantOf(held[c][n].token, n, c)
  /\ \A c \in Clients : pc[c] # "idle" =>
       /\ job[c].cmd.type = "lease_acquired" => job[c].cmd.owner = c
       /\ job[c].cmd.type \in {"lease_heartbeat", "lease_released"} =>
            GrantOf(job[c].cmd.token, job[c].cmd.node, c)

(* A lease call whose event is written finds its own lease, or none after  *)
(* a release, when it replies; before, its key is unused.                  *)
RepliesOwn ==
  \A c \in Clients :
    LET cmd == job[c].cmd IN
    /\ pc[c] = "decide" /\ LeaseCall(cmd) => job[c].key \notin UsedKeys
    /\ pc[c] = "checkpoint" /\ LeaseCall(cmd) =>
         LeaseOf(cmd.node) # None /\ LeaseOf(cmd.node).owner = c
    /\ pc[c] = "checkpoint" /\ cmd.type = "lease_released" => LeaseOf(cmd.node) = None

(* c's heartbeat or release of n is written, and its reply is under way.   *)
Replacing(c, n) ==
  /\ pc[c] = "checkpoint"
  /\ job[c].cmd.type \in {"lease_heartbeat", "lease_released"}
  /\ job[c].cmd.node = n

(* The log's lease is c's and lasts as long as the lease c was returned.   *)
Backs(c, n) ==
  /\ LeaseOf(n) # None
  /\ LeaseOf(n).owner = c
  /\ LeaseOf(n).expires >= held[c][n].expires

(* A returned lease that has not expired is backed by the log, except      *)
(* while its holder is replacing it.                                       *)
HeldBacked ==
  \A c \in Clients, n \in Nodes :
    held[c][n] # None /\ held[c][n].expires > now => Backs(c, n) \/ Replacing(c, n)

(* The inductive invariant for LeaseMutex. *)
LeaseInv == KeysReplayed /\ Granted /\ RepliesOwn /\ HeldBacked

(* An append adds its own key, and only that, to the used ones.            *)
LEMMA WriteKeys ==
  ASSUME StoreInv, NEW c \in Clients, Admitted(c), WriteEvent(c)
  PROVE  UsedKeys' = UsedKeys \cup {job[c].key}
<1>1. /\ Len(log) \in Nat /\ Len(log') = Len(log) + 1
      /\ \A i \in 1..Len(log) : log'[i] = log[i]
      /\ log'[Len(log) + 1] = NewEvent(c)
  BY WriteFacts DEF StoreInv, TypeOK
<1>2. NewEvent(c).key = job[c].key
  BY DEF NewEvent, EventOf
<1>3. ASSUME NEW k \in UsedKeys'
      PROVE  k \in UsedKeys \cup {job[c].key}
  <2>1. PICK i \in 1..Len(log') : k = log'[i].key
    BY DEF UsedKeys
  <2>2. i \in 1..Len(log) \/ i = Len(log) + 1
    BY <1>1
  <2>. QED
    BY <1>1, <1>2, <2>1, <2>2 DEF UsedKeys
<1>4. ASSUME NEW k \in UsedKeys
      PROVE  k \in UsedKeys'
  <2>1. PICK i \in 1..Len(log) : k = log[i].key
    BY DEF UsedKeys
  <2>2. i \in 1..Len(log') /\ log'[i] = log[i]
    BY <1>1
  <2>. QED
    BY <2>1, <2>2 DEF UsedKeys
<1>5. job[c].key \in UsedKeys'
  <2>1. Len(log) + 1 \in 1..Len(log')
    BY <1>1
  <2>. QED
    BY <1>1, <1>2, <2>1 DEF UsedKeys
<1>. QED
  BY <1>3, <1>4, <1>5

(* Every step keeps KeysReplayed. *)
LEMMA KeysStep ==
  ASSUME StoreInv, KeysReplayed, [Next]_vars
  PROVE  KeysReplayed'
<1>1. CASE log' = log /\ Current' = Current
  BY <1>1 DEF KeysReplayed, UsedKeys
<1>2. ASSUME NEW c \in Clients, Admitted(c), WriteEvent(c)
      PROVE  KeysReplayed'
  <2>. DEFINE e == EventOf(Current, job[c].cmd, job[c].key, job[c].at)
  <2>1. Current' = Apply(Current, e, Len(log) + 1)
    BY <1>2, AdmittedFacts
  <2>2. e.key = job[c].key
    BY DEF EventOf
  <2>. HIDE DEF e
  <2>3. Current'.idem = [Current.idem EXCEPT ![job[c].key] = e.cmd]
    BY <2>1, <2>2 DEF Apply
  <2>4. Current.idem \in [Keys -> Commands \cup {None}]
    BY CurrentType DEF StoreInv, Snapshots
  <2>5. ASSUME NEW k \in Keys, Current'.idem[k] # None
        PROVE  k \in UsedKeys'
    <3>1. k = job[c].key \/ Current.idem[k] # None
      BY <2>3, <2>4, <2>5
    <3>. QED
      BY <1>2, <3>1, WriteKeys DEF KeysReplayed
  <2>. QED
    BY <2>5 DEF KeysReplayed
<1>. QED
  BY <1>1, <1>2, StepKind

(* Where no line can be damaged, every step keeps acknowledged operations  *)
(* in a readable log.                                                      *)
LEMMA AckedStep ==
  ASSUME StoreInv, KeysReplayed, AckedInv, [Next]_vars,
         {"torn", "unterminated"} \cap Failures = {}
  PROVE  AckedInv'
<1>. USE DEF StoreInv
<1>1. ASSUME NEW c \in Clients, AppendEvent(c)
      PROVE  AckedInv'
  <2>1. UsedKeys' = UsedKeys \cup {job[c].key}
    BY <1>1, WriteKeys DEF AppendEvent
  <2>2. \A d \in Clients : pc'[d] = "checkpoint" => d = c
    BY <1>1 DEF AppendEvent, Admitted, InOperation, TypeOK
  <2>. QED
    BY <1>1, <2>1, <2>2 DEF AppendEvent, AckedInv
<1>2. ASSUME UsedKeys' = UsedKeys, tail' = tail, acked' \subseteq UsedKeys,
             \A d \in Clients : pc'[d] = "checkpoint" =>
               pc[d] = "checkpoint" /\ job'[d] = job[d]
      PROVE  AckedInv'
  BY <1>2 DEF AckedInv
<1>3. ASSUME NEW c \in Clients, NEW cmd \in CallsOf(c), NEW key \in Keys,
             Enter(c, cmd, key)
      PROVE  AckedInv'
  <2>1. UsedKeys' = UsedKeys /\ tail' = tail /\ acked' = acked
    BY <1>3 DEF Enter, files, UsedKeys
  <2>2. \A d \in Clients : pc'[d] = "checkpoint" =>
          pc[d] = "checkpoint" /\ job'[d] = job[d]
    BY <1>3 DEF Enter, TypeOK
  <2>. QED
    BY <1>2, <2>1, <2>2 DEF AckedInv
<1>4. ASSUME NEW c \in Clients, Duplicate(c)
      PROVE  AckedInv'
  <2>1. /\ UsedKeys' = UsedKeys /\ tail' = tail
        /\ acked' = acked \cup {job[c].key} /\ Leave(c) /\ pc[c] # "idle"
        /\ Current.idem[job[c].key] = job[c].cmd
    BY <1>4 DEF Duplicate, files, UsedKeys
  <2>2. job[c].cmd \in Commands /\ job[c].key \in Keys
    BY <2>1 DEF InOperation, Jobs
  <2>3. job[c].key \in UsedKeys
    BY <2>1, <2>2, NoneAssumption DEF KeysReplayed
  <2>4. \A d \in Clients : pc'[d] = "idle"
    BY <2>1, LeaveFacts
  <2>. QED
    BY <1>2, <2>1, <2>3, <2>4 DEF AckedInv
<1>5. ASSUME NEW c \in Clients, WriteCheckpoint(c)
      PROVE  AckedInv'
  <2>1. /\ UsedKeys' = UsedKeys /\ tail' = tail
        /\ acked' = acked \cup {job[c].key} /\ Leave(c) /\ pc[c] = "checkpoint"
    BY <1>5 DEF WriteCheckpoint, files, UsedKeys
  <2>2. \A d \in Clients : pc'[d] = "idle"
    BY <2>1, LeaveFacts
  <2>. QED
    BY <1>2, <2>1, <2>2 DEF AckedInv
<1>6. ASSUME NEW c \in Clients, Load(c) \/ Refuse(c) \/ Crash(c) \/ CrashAfterOpen(c)
      PROVE  AckedInv'
  <2>1. UsedKeys' = UsedKeys /\ tail' = tail /\ acked' = acked
    BY <1>6 DEF Load, Refuse, Crash, CrashAfterOpen, Die, files, UsedKeys
  <2>2. (pc' = pc /\ job' = job) \/ Leave(c)
    BY <1>6 DEF Load, Refuse, Crash, CrashAfterOpen, Die, calls
  <2>3. \A d \in Clients : pc'[d] = "checkpoint" =>
          pc[d] = "checkpoint" /\ job'[d] = job[d]
    BY <2>2 DEF Leave, TypeOK
  <2>. QED
    BY <1>2, <2>1, <2>3 DEF AckedInv
<1>7. CASE Tick \/ UNCHANGED vars
  <2>1. /\ UsedKeys' = UsedKeys /\ tail' = tail /\ acked' = acked
        /\ pc' = pc /\ job' = job
    BY <1>7 DEF Tick, vars, files, calls, UsedKeys
  <2>. QED
    BY <1>2, <2>1 DEF AckedInv
<1>8. ASSUME NEW c \in Clients
      PROVE  ~CrashTorn(c) /\ ~CrashUnterminated(c)
  BY DEF CrashTorn, CrashUnterminated
<1>. QED
  BY <1>1, <1>3, <1>4, <1>5, <1>6, <1>7, <1>8 DEF Next

(* Wherever processes die between two writes, an operation that returned   *)
(* is in the log the next load reads (_append_unlocked fsyncs before the   *)
(* reply, _check_idempotency answers from the replayed log).               *)
THEOREM AckedReadableHolds ==
  ASSUME {"torn", "unterminated"} \cap Failures = {}
  PROVE  Spec => []AckedReadable
<1>1. Init => KeysReplayed /\ AckedInv
  BY DEF Init, KeysReplayed, AckedInv, Current, NoRun
<1>2. StoreInv /\ KeysReplayed /\ AckedInv /\ [Next]_vars => KeysReplayed' /\ AckedInv'
  BY KeysStep, AckedStep
<1>3. AckedInv => AckedReadable
  BY DEF AckedInv, AckedReadable, Readable
<1>. QED
  BY <1>1, <1>2, <1>3, InitInv, StepInv, PTL DEF Spec

(* A grant stays in the log.                                               *)
LEMMA GrantStays ==
  ASSUME StoreInv, [Next]_vars, NEW t, NEW n, NEW c, GrantOf(t, n, c)
  PROVE  GrantOf(t, n, c)'
<1>1. CASE log' = log
  BY <1>1 DEF GrantOf
<1>2. ASSUME NEW d \in Clients, Admitted(d), WriteEvent(d)
      PROVE  GrantOf(t, n, c)'
  <2>1. /\ Len(log) \in Nat /\ Len(log') = Len(log) + 1
        /\ \A i \in 1..Len(log) : log'[i] = log[i]
    BY <1>2, WriteFacts DEF StoreInv, TypeOK
  <2>2. t \in 1..Len(log) /\ t \in 1..Len(log')
    BY <2>1 DEF GrantOf
  <2>. QED
    BY <2>1, <2>2 DEF GrantOf
<1>. QED
  BY <1>1, <1>2, StepKind

(* One token, one owner.                                                   *)
LEMMA GrantUnique ==
  ASSUME NEW t, NEW n, NEW c, NEW d, GrantOf(t, n, c), GrantOf(t, n, d)
  PROVE  c = d
BY DEF GrantOf

(* What an append by c does to the lease of node n.                        *)
LEMMA LeaseWritten ==
  ASSUME StoreInv, ClockInRange, NEW c \in Clients, Admitted(c), WriteEvent(c), NEW n \in Nodes
  PROVE  LET cmd == job[c].cmd IN
         /\ \/ LeaseOf(n)' = LeaseOf(n)
            \/ /\ cmd.type = "lease_acquired" /\ cmd.node = n
               /\ LeaseOf(n) = None \/ LeaseOf(n).expires <= job[c].at
               /\ LeaseOf(n)' = [owner |-> cmd.owner, token |-> Len(log) + 1,
                                 expires |-> job[c].at + cmd.ttl]
            \/ /\ cmd.type = "lease_heartbeat" /\ cmd.node = n
               /\ LeaseOf(n) \in Leases /\ LeaseOf(n).token = cmd.token
               /\ LeaseOf(n)' = [LeaseOf(n) EXCEPT !.expires = job[c].at + cmd.ttl]
            \/ /\ cmd.type = "lease_released" /\ cmd.node = n
               /\ LeaseOf(n) \in Leases /\ LeaseOf(n).token = cmd.token
               /\ LeaseOf(n)' = None
            \/ /\ LeaseOf(n) # None /\ LeaseOf(n).expires <= job[c].at
               /\ LeaseOf(n)' = None
         /\ cmd.type = "lease_acquired" /\ cmd.node = n =>
               LeaseOf(n)' = [owner |-> cmd.owner, token |-> Len(log) + 1,
                              expires |-> job[c].at + cmd.ttl]
         /\ cmd.type = "lease_heartbeat" /\ cmd.node = n =>
               LeaseOf(n)' = [LeaseOf(n) EXCEPT !.expires = job[c].at + cmd.ttl]
         /\ cmd.type = "lease_released" /\ cmd.node = n => LeaseOf(n)' = None
<1>. DEFINE cmd == job[c].cmd
            at  == job[c].at
            e   == EventOf(Current, cmd, job[c].key, at)
<1>1. /\ Current \in Snapshots /\ cmd \in Commands /\ job[c].key \in Keys
      /\ at \in Nat /\ Len(log) + 1 \in Nat /\ Permits(Current, cmd, at)
      /\ Current' = Apply(Current, e, Len(log) + 1)
  BY AdmittedFacts
<1>2. LeaseOf(n) \in Leases \cup {None} /\ Current.nodes \in [Nodes -> NodeSnapshots]
  BY <1>1 DEF LeaseOf, Snapshots, NodeSnapshots
<1>3. \/ LeaseOf(n)' = LeaseOf(n)
      \/ /\ cmd.type = "lease_acquired" /\ cmd.node = n
         /\ LeaseOf(n)' = [owner |-> cmd.owner, token |-> Len(log) + 1,
                           expires |-> at + cmd.ttl]
      \/ /\ cmd.type = "lease_heartbeat" /\ cmd.node = n /\ LeaseOf(n) \in Leases
         /\ LeaseOf(n)' = [LeaseOf(n) EXCEPT !.expires = at + cmd.ttl]
      \/ cmd.type = "lease_released" /\ cmd.node = n /\ LeaseOf(n)' = None
      \/ n \in Expired(Current, at) /\ LeaseOf(n)' = None
  <2>. HIDE DEF cmd, at
  <2>. QED
    BY <1>1, LeaseAfter DEF LeaseOf
<1>4. cmd.type = "lease_acquired" /\ cmd.node = n =>
        LeaseOf(n) = None \/ LeaseOf(n).expires <= at
  BY <1>1 DEF Permits, Vacant, LeaseOf
<1>5. cmd.type \in {"lease_heartbeat", "lease_released"} /\ cmd.node = n =>
        LeaseOf(n) \in Leases /\ LeaseOf(n).token = cmd.token
  BY <1>1, <1>2 DEF Permits, HoldsLease, LeaseOf
<1>6. n \in Expired(Current, at) => LeaseOf(n) # None /\ LeaseOf(n).expires <= at
  BY DEF Expired, LeaseOf
<1>7. /\ e.cmd = cmd /\ e.at = at
      /\ Current'.nodes = NodesAfter(Current, e, Len(log) + 1)
  BY <1>1 DEF EventOf, Apply
<1>. HIDE DEF e
<1>8. cmd.type = "lease_acquired" /\ cmd.node = n =>
        LeaseOf(n)' = [owner |-> cmd.owner, token |-> Len(log) + 1,
                       expires |-> at + cmd.ttl]
  BY <1>2, <1>7 DEF NodesAfter, LeaseOf, NodeSnapshots
<1>9. cmd.type = "lease_heartbeat" /\ cmd.node = n =>
        LeaseOf(n)' = [LeaseOf(n) EXCEPT !.expires = at + cmd.ttl]
  BY <1>2, <1>7 DEF NodesAfter, LeaseOf, NodeSnapshots
<1>10. cmd.type = "lease_released" /\ cmd.node = n => LeaseOf(n)' = None
  BY <1>2, <1>7 DEF NodesAfter, LeaseOf, NodeSnapshots
<1>. HIDE DEF cmd, at
<1>11. QED
  BY <1>3, <1>4, <1>5, <1>6, <1>8, <1>9, <1>10 DEF cmd, at

(* An append keeps the leases that were returned and have not expired: an  *)
(* acquire or a sweep cannot touch them, and a heartbeat or release has    *)
(* their token, so it is their holder's.                                   *)
LEMMA LeaseWrite ==
  ASSUME StoreInv, ClockInRange, LeaseInv, [Next]_vars, NEW c \in Clients,
         Admitted(c), WriteEvent(c), NEW n \in Nodes
  PROVE  LET cmd == job[c].cmd
             new == Current'.nodes[n].lease
         IN
         /\ LeaseGranted(n)'
         /\ \A d \in Clients : held[d][n] # None /\ held[d][n].expires > now =>
              \/ new # None /\ new.owner = d /\ new.expires >= held[d][n].expires
              \/ d = c /\ cmd.type \in {"lease_heartbeat", "lease_released"} /\ cmd.node = n
         /\ LeaseCall(cmd) /\ cmd.node = n => new # None /\ new.owner = c
         /\ cmd.type = "lease_released" /\ cmd.node = n => new = None
<1>. DEFINE cmd == job[c].cmd
            at  == job[c].at
            old == LeaseOf(n)
            new == Current'.nodes[n].lease
<1>1. /\ cmd \in Commands /\ at \in Nat /\ Len(log) + 1 \in Nat /\ Len(log) \in Nat
      /\ Len(log') = Len(log) + 1 /\ log'[Len(log')].cmd = cmd
      /\ Current \in Snapshots /\ pc[c] = "decide"
  BY AdmittedFacts DEF StoreInv, TypeOK, Admitted
<1>2. old \in Leases \cup {None}
  BY <1>1 DEF LeaseOf, Snapshots, NodeSnapshots
<1>3. at \in 0..now /\ now \in Nat
  BY <1>1 DEF ClockInRange, StoreInv, TypeOK
<1>4. old # None => GrantOf(old.token, n, old.owner)
  BY DEF LeaseInv, Granted, LeaseGranted
<1>5. /\ cmd.type = "lease_acquired" => cmd.owner = c
      /\ cmd.type \in {"lease_heartbeat", "lease_released"} => GrantOf(cmd.token, cmd.node, c)
  BY <1>1 DEF LeaseInv, Granted
<1>6. /\ \/ new = old
         \/ /\ cmd.type = "lease_acquired" /\ cmd.node = n
            /\ old = None \/ old.expires <= at
            /\ new = [owner |-> cmd.owner, token |-> Len(log) + 1, expires |-> at + cmd.ttl]
         \/ /\ cmd.type = "lease_heartbeat" /\ cmd.node = n
            /\ old \in Leases /\ old.token = cmd.token
            /\ new = [old EXCEPT !.expires = at + cmd.ttl]
         \/ /\ cmd.type = "lease_released" /\ cmd.node = n
            /\ old \in Leases /\ old.token = cmd.token
            /\ new = None
         \/ old # None /\ old.expires <= at /\ new = None
      /\ cmd.type = "lease_acquired" /\ cmd.node = n =>
           new = [owner |-> cmd.owner, token |-> Len(log) + 1, expires |-> at + cmd.ttl]
      /\ cmd.type = "lease_heartbeat" /\ cmd.node = n =>
           new = [old EXCEPT !.expires = at + cmd.ttl]
      /\ cmd.type = "lease_released" /\ cmd.node = n => new = None
  BY LeaseWritten DEF LeaseOf
<1>7. cmd.type \in {"lease_acquired", "lease_heartbeat"} =>
        cmd.ttl \in Nat /\ at + cmd.ttl \in Nat
  <2>1. cmd.type \in {"lease_acquired", "lease_heartbeat"} => cmd.ttl \in Ttls
    BY <1>1, CommandFields
  <2>2. cmd.type \in {"lease_acquired", "lease_heartbeat"} => cmd.ttl \in Nat
    BY <2>1, ConstantsAssumption
  <2>. HIDE DEF cmd, at
  <2>. QED
    BY <1>1, <2>2
<1>8. cmd.type = "lease_acquired" => cmd.owner \in Clients /\ cmd.node \in Nodes
  BY <1>1, CommandFields
<1>9. ASSUME cmd.type \in {"lease_heartbeat", "lease_released"}, cmd.node = n,
             old \in Leases, old.token = cmd.token
      PROVE  old.owner = c
  <2>1. old # None
    BY <1>9, NoneAssumption
  <2>. QED
    BY <1>4, <1>5, <1>9, <2>1, GrantUnique
<1>10. \A d \in Clients : held[d][n] # None /\ held[d][n].expires > now =>
          /\ old # None /\ old.owner = d /\ old.expires >= held[d][n].expires
          /\ old \in Leases /\ ~(old.expires <= at) /\ held[d][n].expires \in Nat
  <2>. SUFFICES ASSUME NEW d \in Clients, held[d][n] # None, held[d][n].expires > now
                PROVE  /\ old # None /\ old.owner = d /\ old.expires >= held[d][n].expires
                       /\ old \in Leases /\ ~(old.expires <= at)
                       /\ held[d][n].expires \in Nat
    OBVIOUS
  <2>1. pc[d] # "checkpoint"
    BY <1>1 DEF StoreInv, InOperation
  <2>2. old # None /\ old.owner = d /\ old.expires >= held[d][n].expires
    BY <2>1 DEF LeaseInv, HeldBacked, Backs, Replacing
  <2>3. held[d][n] \in Leases /\ old \in Leases
    BY <1>2, <2>2 DEF StoreInv, TypeOK
  <2>4. held[d][n].expires \in Nat /\ old.expires \in Nat
    BY <2>3 DEF Leases
  <2>. QED
    BY <1>3, <2>2, <2>3, <2>4
<1>11. LeaseGranted(n)'
  <2>. SUFFICES ASSUME new # None
                PROVE  \E t, o : t = new.token /\ o = new.owner /\ GrantOf(t, n, o)'
    BY DEF LeaseGranted, LeaseOf
  <2>1. CASE new = old
    BY <1>4, <2>1, GrantStays
  <2>2. CASE /\ cmd.type = "lease_acquired" /\ cmd.node = n
             /\ new = [owner |-> cmd.owner, token |-> Len(log) + 1, expires |-> at + cmd.ttl]
    <3>1. new.token = Len(log') /\ new.owner = cmd.owner /\ Len(log') \in 1..Len(log')
      BY <1>1, <2>2
    <3>2. GrantOf(Len(log), n, log[Len(log)].cmd.owner)'
      BY <1>1, <2>2, <3>1 DEF GrantOf
    <3>3. \A t, o : t = Len(log') /\ o = log'[Len(log')].cmd.owner => GrantOf(t, n, o)'
      BY <3>2 DEF GrantOf
    <3>. HIDE DEF new
    <3>. QED
      BY <1>1, <2>2, <3>1, <3>3
  <2>3. CASE /\ old \in Leases
             /\ new = [old EXCEPT !.expires = at + cmd.ttl]
    <3>1. new.token = old.token /\ new.owner = old.owner /\ old # None
      BY <2>3, NoneAssumption DEF Leases
    <3>2. GrantOf(old.token, n, old.owner)
      BY <1>4, <3>1
    <3>3. \A t, o : t = old.token /\ o = old.owner => GrantOf(t, n, o)'
      BY <3>2, GrantStays
    <3>. HIDE DEF new, old
    <3>. QED
      BY <3>1, <3>3
  <2>. QED
    BY <1>6, <2>1, <2>2, <2>3
<1>12. ASSUME NEW d \in Clients, held[d][n] # None, held[d][n].expires > now
       PROVE  \/ new # None /\ new.owner = d /\ new.expires >= held[d][n].expires
              \/ d = c /\ cmd.type \in {"lease_heartbeat", "lease_released"} /\ cmd.node = n
  <2>1. /\ old # None /\ old.owner = d /\ old.expires >= held[d][n].expires
        /\ old \in Leases /\ ~(old.expires <= at)
    BY <1>10, <1>12
  <2>. HIDE DEF new, old, cmd, at
  <2>. QED
    BY <1>6, <1>9, <2>1
<1>13. LeaseCall(cmd) /\ cmd.node = n => new # None /\ new.owner = c
  <2>1. CASE cmd.type = "lease_acquired" /\ cmd.node = n
    <3>1. new \in Leases /\ new.owner = c
      BY <1>1, <1>5, <1>6, <1>7, <1>8, <2>1 DEF Leases
    <3>. QED
      BY <3>1, NoneAssumption
  <2>2. CASE cmd.type = "lease_heartbeat" /\ cmd.node = n
    <3>1. old \in Leases /\ old.token = cmd.token
      <4>1. Permits(Current, cmd, at)
        BY AdmittedFacts
      <4>. QED
        BY <1>2, <2>2, <4>1 DEF Permits, HoldsLease, LeaseOf
    <3>2. old.owner = c /\ new = [old EXCEPT !.expires = at + cmd.ttl]
      BY <1>6, <1>9, <2>2, <3>1
    <3>3. new \in Leases /\ new.owner = c
      BY <1>7, <2>2, <3>1, <3>2 DEF Leases
    <3>. QED
      BY <3>3, NoneAssumption
  <2>. QED
    BY <2>1, <2>2 DEF LeaseCall
<1>. HIDE DEF new, cmd
<1>14. QED
  BY <1>6, <1>11, <1>12, <1>13 DEF new, cmd

(* A step that leaves the log alone: each returned lease stays and is      *)
(* still backed, is given up, or becomes the log's lease of its holder.    *)
LEMMA LeaseQuiet ==
  ASSUME StoreInv, LeaseInv, KeysReplayed', log' = log, snaps' = snaps,
         now' \in Nat, now <= now',
         held' \in [Clients -> [Nodes -> Leases \cup {None}]],
         \A d \in Clients : pc'[d] # "idle" => pc'[d] = pc[d] /\ job'[d] = job[d],
         \A d \in Clients, n \in Nodes :
           \/ held'[d][n] = None
           \/ held'[d][n] = held[d][n] /\ (Replacing(d, n) => Replacing(d, n)')
           \/ held'[d][n] = LeaseOf(n) /\ LeaseOf(n).owner = d
  PROVE  LeaseInv'
<1>1. Current' = Current
  BY DEF Current
<1>2. \A n \in Nodes : LeaseOf(n)' = LeaseOf(n)
  BY <1>1 DEF LeaseOf
<1>3. \A t, n, d : GrantOf(t, n, d)' <=> GrantOf(t, n, d)
  BY DEF GrantOf
<1>4. UsedKeys' = UsedKeys
  BY DEF UsedKeys
<1>5. \A n \in Nodes : LeaseGranted(n)'
  BY <1>1 DEF LeaseInv, Granted, LeaseGranted, LeaseOf, GrantOf
<1>6. ASSUME NEW d \in Clients, NEW n \in Nodes, held'[d][n] # None
      PROVE  GrantOf(held[d][n].token, n, d)'
  <2>1. CASE held'[d][n] = held[d][n]
    BY <1>6, <2>1 DEF LeaseInv, Granted, GrantOf
  <2>2. CASE held'[d][n] = LeaseOf(n) /\ LeaseOf(n).owner = d
    <3>1. GrantOf(LeaseOf(n).token, n, LeaseOf(n).owner)
      BY <1>6, <2>2 DEF LeaseInv, Granted, LeaseGranted
    <3>. QED
      BY <2>2, <3>1 DEF GrantOf
  <2>. QED
    BY <1>6, <2>1, <2>2
<1>7. ASSUME NEW d \in Clients, pc'[d] # "idle"
      PROVE  (/\ job[d].cmd.type = "lease_acquired" => job[d].cmd.owner = d
              /\ job[d].cmd.type \in {"lease_heartbeat", "lease_released"} =>
                   GrantOf(job[d].cmd.token, job[d].cmd.node, d))'
  BY <1>3, <1>7 DEF LeaseInv, Granted, GrantOf
<1>8. Granted'
  BY <1>5, <1>6, <1>7 DEF Granted
<1>9. RepliesOwn'
  <2>1. ASSUME NEW d \in Clients
        PROVE  /\ pc'[d] = "decide" /\ LeaseCall(job'[d].cmd) => job'[d].key \notin UsedKeys'
               /\ pc'[d] = "checkpoint" /\ LeaseCall(job'[d].cmd) =>
                    /\ Current'.nodes[job'[d].cmd.node].lease # None
                    /\ Current'.nodes[job'[d].cmd.node].lease.owner = d
               /\ pc'[d] = "checkpoint" /\ job'[d].cmd.type = "lease_released" =>
                    Current'.nodes[job'[d].cmd.node].lease = None
    BY <1>1, <1>4 DEF LeaseInv, RepliesOwn, LeaseOf
  <2>. QED
    BY <2>1 DEF RepliesOwn, LeaseOf, LeaseCall
<1>10. ASSUME NEW d \in Clients, NEW n \in Nodes, held'[d][n] # None, held'[d][n].expires > now'
       PROVE  Backs(d, n)' \/ Replacing(d, n)'
  <2>1. CASE held'[d][n] = held[d][n] /\ (Replacing(d, n) => Replacing(d, n)')
    <3>1. held[d][n] \in Leases /\ now \in Nat
      BY <1>10, <2>1 DEF StoreInv, TypeOK
    <3>2. held[d][n].expires > now
      BY <1>10, <2>1, <3>1 DEF Leases
    <3>3. Backs(d, n) \/ Replacing(d, n)
      BY <1>10, <2>1, <3>2 DEF LeaseInv, HeldBacked
    <3>4. Backs(d, n) => Backs(d, n)'
      BY <1>1, <2>1 DEF Backs, LeaseOf
    <3>. QED
      BY <2>1, <3>3, <3>4
  <2>2. CASE held'[d][n] = LeaseOf(n) /\ LeaseOf(n).owner = d
    <3>1. held'[d][n].expires \in Nat
      BY <1>10 DEF Leases
    <3>2. Backs(d, n)'
      BY <1>1, <1>10, <2>2, <3>1 DEF Backs, LeaseOf
    <3>. QED
      BY <3>2
  <2>. QED
    BY <1>10, <2>1, <2>2
<1>11. HeldBacked'
  BY <1>10 DEF HeldBacked
<1>. QED
  BY <1>8, <1>9, <1>11 DEF LeaseInv

(* A call begins with what the store returned to its caller, under a fresh *)
(* key when it is a lease call.                                            *)
LEMMA LeaseEnter ==
  ASSUME StoreInv, LeaseInv, KeysReplayed', ~RetryLeases, NEW c \in Clients,
         NEW cmd \in CallsOf(c), NEW key \in Keys, Enter(c, cmd, key)
  PROVE  LeaseInv'
<1>1. /\ log' = log /\ snaps' = snaps /\ held' = held /\ now' = now
      /\ pc' = [pc EXCEPT ![c] = "decide"]
      /\ job' = [job EXCEPT ![c] = [cmd |-> cmd, key |-> key, at |-> now]]
      /\ LeaseCall(cmd) => key \notin UsedKeys
  BY DEF Enter, files
<1>2. \A d \in Clients : pc[d] = "idle"
  BY NoneAssumption DEF Enter, StoreInv, InOperation, TypeOK
<1>3. /\ pc'[c] = "decide" /\ job'[c] = [cmd |-> cmd, key |-> key, at |-> now]
      /\ \A d \in Clients : d # c => pc'[d] = "idle"
  BY <1>1, <1>2 DEF StoreInv, TypeOK
<1>4. Current' = Current /\ UsedKeys' = UsedKeys
  BY <1>1 DEF Current, UsedKeys
<1>5. cmd \in Commands
  BY CallsAreCommands DEF StoreInv
<1>6. /\ cmd.type = "lease_acquired" => cmd.owner = c
      /\ cmd.type \in {"lease_heartbeat", "lease_released"} =>
           /\ cmd.node \in Nodes
           /\ held[c][cmd.node] # None /\ held[c][cmd.node].token = cmd.token
  BY <1>5, CommandFields DEF CallsOf
<1>7. cmd.type \in {"lease_heartbeat", "lease_released"} => GrantOf(cmd.token, cmd.node, c)
  BY <1>6 DEF LeaseInv, Granted
<1>8. Granted'
  <2>1. \A n \in Nodes : LeaseGranted(n)'
    BY <1>1, <1>4 DEF LeaseInv, Granted, LeaseGranted, LeaseOf, GrantOf
  <2>2. ASSUME NEW d \in Clients, NEW n \in Nodes, held'[d][n] # None
        PROVE  GrantOf(held[d][n].token, n, d)'
    BY <1>1, <2>2 DEF LeaseInv, Granted, GrantOf
  <2>3. ASSUME NEW d \in Clients, pc'[d] # "idle"
        PROVE  (/\ job[d].cmd.type = "lease_acquired" => job[d].cmd.owner = d
                /\ job[d].cmd.type \in {"lease_heartbeat", "lease_released"} =>
                     GrantOf(job[d].cmd.token, job[d].cmd.node, d))'
    <3>1. d = c /\ job'[d].cmd = cmd
      BY <1>3, <2>3
    <3>. QED
      BY <1>1, <1>6, <1>7, <3>1 DEF GrantOf
  <2>. QED
    BY <2>1, <2>2, <2>3 DEF Granted
<1>9. RepliesOwn'
  <2>1. ASSUME NEW d \in Clients
        PROVE  /\ pc'[d] = "decide" /\ LeaseCall(job'[d].cmd) => job'[d].key \notin UsedKeys'
               /\ pc'[d] # "checkpoint"
    BY <1>1, <1>3, <1>4
  <2>. QED
    BY <2>1 DEF RepliesOwn, LeaseCall
<1>10. HeldBacked'
  <2>. SUFFICES ASSUME NEW d \in Clients, NEW n \in Nodes,
                       held'[d][n] # None, held'[d][n].expires > now'
                PROVE  Backs(d, n)'
    BY DEF HeldBacked
  <2>1. Backs(d, n)
    BY <1>1, <1>2 DEF LeaseInv, HeldBacked, Replacing
  <2>. QED
    BY <1>1, <1>4, <2>1 DEF Backs, LeaseOf
<1>. QED
  BY <1>8, <1>9, <1>10 DEF LeaseInv

(* The event is written and the reply under way.                           *)
LEMMA LeaseAppend ==
  ASSUME StoreInv, ClockInRange, LeaseInv, KeysReplayed', [Next]_vars,
         NEW c \in Clients, AppendEvent(c)
  PROVE  LeaseInv'
<1>1. /\ Admitted(c) /\ WriteEvent(c) /\ pc[c] = "decide"
      /\ pc' = [pc EXCEPT ![c] = "checkpoint"]
      /\ job' = job /\ now' = now /\ held' = held
  BY DEF AppendEvent, Admitted
<1>2. pc'[c] = "checkpoint" /\ \A d \in Clients : d # c => pc'[d] = "idle"
  BY <1>1 DEF StoreInv, InOperation, TypeOK
<1>3. job[c].cmd \in Commands
  BY <1>1, AdmittedFacts
<1>4. \A n \in Nodes : LeaseGranted(n)'
  BY <1>1, LeaseWrite
<1>5. Granted'
  <2>1. ASSUME NEW d \in Clients, NEW n \in Nodes, held'[d][n] # None
        PROVE  GrantOf(held[d][n].token, n, d)'
    <3>1. GrantOf(held[d][n].token, n, d)
      BY <1>1, <2>1 DEF LeaseInv, Granted
    <3>2. \A t : t = held[d][n].token => GrantOf(t, n, d)'
      BY <3>1, GrantStays
    <3>. QED
      BY <1>1, <3>2 DEF GrantOf
  <2>2. ASSUME NEW d \in Clients, pc'[d] # "idle"
        PROVE  (/\ job[d].cmd.type = "lease_acquired" => job[d].cmd.owner = d
                /\ job[d].cmd.type \in {"lease_heartbeat", "lease_released"} =>
                     GrantOf(job[d].cmd.token, job[d].cmd.node, d))'
    <3>1. d = c
      BY <1>2, <2>2
    <3>2. /\ job[c].cmd.type = "lease_acquired" => job[c].cmd.owner = c
          /\ job[c].cmd.type \in {"lease_heartbeat", "lease_released"} =>
               GrantOf(job[c].cmd.token, job[c].cmd.node, c)
      BY <1>1 DEF LeaseInv, Granted
    <3>3. \A t, n : GrantOf(t, n, c) => GrantOf(t, n, c)'
      BY GrantStays
    <3>. QED
      BY <1>1, <3>1, <3>2, <3>3 DEF GrantOf
  <2>. QED
    BY <1>4, <2>1, <2>2 DEF Granted
<1>6. RepliesOwn'
  <2>1. job[c].cmd.type \in {"lease_acquired", "lease_heartbeat", "lease_released"} =>
          job[c].cmd.node \in Nodes
    BY <1>3, CommandFields
  <2>2. /\ LeaseCall(job[c].cmd) =>
             /\ Current'.nodes[job[c].cmd.node].lease # None
             /\ Current'.nodes[job[c].cmd.node].lease.owner = c
        /\ job[c].cmd.type = "lease_released" =>
             Current'.nodes[job[c].cmd.node].lease = None
    BY <1>1, <2>1, LeaseWrite DEF LeaseCall
  <2>3. ASSUME NEW d \in Clients
        PROVE  /\ pc'[d] # "decide"
               /\ pc'[d] = "checkpoint" /\ LeaseCall(job'[d].cmd) =>
                    /\ Current'.nodes[job'[d].cmd.node].lease # None
                    /\ Current'.nodes[job'[d].cmd.node].lease.owner = d
               /\ pc'[d] = "checkpoint" /\ job'[d].cmd.type = "lease_released" =>
                    Current'.nodes[job'[d].cmd.node].lease = None
    BY <1>1, <1>2, <2>2
  <2>. QED
    BY <2>3 DEF RepliesOwn, LeaseOf, LeaseCall
<1>7. HeldBacked'
  <2>. SUFFICES ASSUME NEW d \in Clients, NEW n \in Nodes,
                       held'[d][n] # None, held'[d][n].expires > now'
                PROVE  Backs(d, n)' \/ Replacing(d, n)'
    BY DEF HeldBacked
  <2>1. \/ /\ Current'.nodes[n].lease # None /\ Current'.nodes[n].lease.owner = d
           /\ Current'.nodes[n].lease.expires >= held[d][n].expires
        \/ /\ d = c /\ job[c].cmd.node = n
           /\ job[c].cmd.type \in {"lease_heartbeat", "lease_released"}
    BY <1>1, LeaseWrite
  <2>. QED
    BY <1>1, <1>2, <2>1 DEF Backs, Replacing, LeaseOf
<1>. QED
  BY <1>5, <1>6, <1>7 DEF LeaseInv

(* The event is written and its process died.                              *)
LEMMA LeaseUnterminated ==
  ASSUME StoreInv, ClockInRange, LeaseInv, KeysReplayed', [Next]_vars,
         NEW c \in Clients, CrashUnterminated(c)
  PROVE  LeaseInv'
<1>1. /\ Admitted(c) /\ WriteEvent(c) /\ pc[c] # "idle" /\ Leave(c) /\ now' = now
      /\ held' = [held EXCEPT ![c] = [n \in Nodes |-> None]]
  BY DEF CrashUnterminated, Die, Admitted
<1>2. \A d \in Clients : pc'[d] = "idle"
  BY <1>1, LeaveFacts DEF StoreInv
<1>3. \A d \in Clients, n \in Nodes :
        held'[d][n] # None => d # c /\ held'[d][n] = held[d][n]
  BY <1>1 DEF StoreInv, TypeOK
<1>4. \A n \in Nodes : LeaseGranted(n)'
  BY <1>1, LeaseWrite
<1>5. Granted'
  <2>1. ASSUME NEW d \in Clients, NEW n \in Nodes, held'[d][n] # None
        PROVE  GrantOf(held[d][n].token, n, d)'
    <3>1. GrantOf(held[d][n].token, n, d)
      BY <1>3, <2>1 DEF LeaseInv, Granted
    <3>2. \A t : t = held[d][n].token => GrantOf(t, n, d)'
      BY <3>1, GrantStays
    <3>. QED
      BY <1>3, <2>1, <3>2 DEF GrantOf
  <2>. QED
    BY <1>2, <1>4, <2>1 DEF Granted
<1>6. RepliesOwn'
  BY <1>2 DEF RepliesOwn
<1>7. HeldBacked'
  <2>. SUFFICES ASSUME NEW d \in Clients, NEW n \in Nodes,
                       held'[d][n] # None, held'[d][n].expires > now'
                PROVE  Backs(d, n)'
    BY DEF HeldBacked
  <2>1. d # c /\ held'[d][n] = held[d][n]
    BY <1>3
  <2>2. /\ Current'.nodes[n].lease # None /\ Current'.nodes[n].lease.owner = d
        /\ Current'.nodes[n].lease.expires >= held[d][n].expires
    BY <1>1, <2>1, LeaseWrite
  <2>. QED
    BY <2>1, <2>2 DEF Backs, LeaseOf
<1>. QED
  BY <1>5, <1>6, <1>7 DEF LeaseInv

(* Only the holder of the lock replaces a lease.                           *)
LEMMA ReplacingAlone ==
  ASSUME StoreInv, NEW c \in Clients, pc[c] # "idle", NEW d \in Clients, NEW n,
         Replacing(d, n)
  PROVE  d = c /\ pc[c] = "checkpoint"
BY DEF Replacing, StoreInv, InOperation

(* A repeated call: with fresh keys for lease calls it is none of them.    *)
LEMMA LeaseDuplicate ==
  ASSUME StoreInv, StoreInv', LeaseInv, KeysReplayed', NEW c \in Clients, Duplicate(c)
  PROVE  LeaseInv'
<1>1. /\ log' = log /\ snaps' = snaps /\ now' = now /\ pc[c] = "decide" /\ Leave(c)
      /\ Current.idem[job[c].key] = job[c].cmd
      /\ held' = Returned(c, job[c].cmd, Current)
  BY DEF Duplicate, files
<1>2. job[c].cmd \in Commands /\ job[c].key \in Keys
  BY <1>1 DEF StoreInv, InOperation, Jobs
<1>3. ~LeaseCall(job[c].cmd)
  <2>1. job[c].key \in UsedKeys
    BY <1>1, <1>2, NoneAssumption DEF LeaseInv, KeysReplayed
  <2>. QED
    BY <1>1, <2>1 DEF LeaseInv, RepliesOwn
<1>4. \A d \in Clients : pc'[d] = "idle"
  BY <1>1, LeaveFacts DEF StoreInv
<1>5. held' = held \/ \E n \in Nodes : held' = [held EXCEPT ![c][n] = None]
  BY <1>1, <1>2, <1>3, CommandFields DEF Returned
<1>6. held \in [Clients -> [Nodes -> Leases \cup {None}]] /\ now \in Nat
      /\ held' \in [Clients -> [Nodes -> Leases \cup {None}]]
  BY DEF StoreInv, TypeOK
<1>7. \A d \in Clients, n \in Nodes : held'[d][n] \in {held[d][n], None}
  BY <1>5, <1>6
<1>8. \A d \in Clients, n \in Nodes : ~Replacing(d, n)
  BY <1>1, ReplacingAlone
<1>. QED
  BY <1>1, <1>4, <1>6, <1>7, <1>8, LeaseQuiet

(* What a reply changes: the caller's claim on the node of a lease call.   *)
LEMMA ReturnedCases ==
  ASSUME NEW c, NEW cmd, NEW s
  PROVE  /\ LeaseCall(cmd) =>
              Returned(c, cmd, s) = [held EXCEPT ![c][cmd.node] = s.nodes[cmd.node].lease]
         /\ cmd.type = "lease_released" =>
              Returned(c, cmd, s) = [held EXCEPT ![c][cmd.node] = None]
         /\ ~LeaseCall(cmd) /\ cmd.type # "lease_released" => Returned(c, cmd, s) = held
<1>1. CASE cmd.type \in {"lease_acquired", "lease_heartbeat"}
  <2>1. LeaseCall(cmd) /\ cmd.type # "lease_released"
    BY <1>1 DEF LeaseCall
  <2>2. Returned(c, cmd, s) = [held EXCEPT ![c][cmd.node] = s.nodes[cmd.node].lease]
    BY <2>1, Zenon DEF Returned
  <2>. QED
    BY <2>1, <2>2
<1>2. CASE cmd.type \notin {"lease_acquired", "lease_heartbeat"}
  BY <1>2 DEF Returned, LeaseCall
<1>. QED
  BY <1>1, <1>2

(* The reply of a written lease call is the caller's own lease.            *)
LEMMA LeaseReply ==
  ASSUME StoreInv, StoreInv', LeaseInv, KeysReplayed', NEW c \in Clients, WriteCheckpoint(c)
  PROVE  LeaseInv'
<1>1. /\ log' = log /\ snaps' = snaps /\ now' = now /\ pc[c] = "checkpoint" /\ Leave(c)
      /\ held' = Returned(c, job[c].cmd, Current)
  BY DEF WriteCheckpoint, files
<1>2. job[c].cmd \in Commands
  BY <1>1 DEF StoreInv, InOperation, Jobs
<1>3. \A d \in Clients : pc'[d] = "idle"
  BY <1>1, LeaveFacts DEF StoreInv
<1>4. held \in [Clients -> [Nodes -> Leases \cup {None}]] /\ now \in Nat
      /\ held' \in [Clients -> [Nodes -> Leases \cup {None}]]
  BY DEF StoreInv, TypeOK
<1>5. ASSUME NEW d \in Clients, NEW n \in Nodes
      PROVE  \/ held'[d][n] = None
             \/ held'[d][n] = held[d][n] /\ (Replacing(d, n) => Replacing(d, n)')
             \/ held'[d][n] = LeaseOf(n) /\ LeaseOf(n).owner = d
  <2>1. CASE d = c /\ LeaseCall(job[c].cmd) /\ job[c].cmd.node = n
    <3>1. held' = [held EXCEPT ![c][n] = LeaseOf(n)]
      BY <1>1, <2>1, ReturnedCases DEF LeaseOf
    <3>2. held'[c][n] = LeaseOf(n)
      BY <1>4, <3>1
    <3>3. LeaseOf(n).owner = c
      BY <1>1, <2>1 DEF LeaseInv, RepliesOwn
    <3>. QED
      BY <2>1, <3>2, <3>3
  <2>2. CASE d = c /\ job[c].cmd.type = "lease_released" /\ job[c].cmd.node = n
    <3>1. held' = [held EXCEPT ![c][n] = None]
      BY <1>1, <2>2, ReturnedCases
    <3>2. held'[c][n] = None
      BY <1>4, <3>1
    <3>. QED
      BY <2>2, <3>2
  <2>3. CASE ~(/\ d = c /\ job[c].cmd.node = n
               /\ LeaseCall(job[c].cmd) \/ job[c].cmd.type = "lease_released")
    <3>. DEFINE cmd == job[c].cmd
    <3>1. \/ held' = held
          \/ LeaseCall(cmd) /\ held' = [held EXCEPT ![c][cmd.node] = Current.nodes[cmd.node].lease]
          \/ cmd.type = "lease_released" /\ held' = [held EXCEPT ![c][cmd.node] = None]
      <4>0. held' = Returned(c, cmd, Current)
        BY <1>1
      <4>. HIDE DEF cmd
      <4>1. CASE LeaseCall(cmd)
        BY <4>0, <4>1, ReturnedCases
      <4>2. CASE cmd.type = "lease_released"
        BY <4>0, <4>2, ReturnedCases
      <4>3. CASE ~LeaseCall(cmd) /\ cmd.type # "lease_released"
        BY <4>0, <4>3, ReturnedCases
      <4>. QED
        BY <4>1, <4>2, <4>3
    <3>. HIDE DEF cmd
    <3>2. held'[d][n] = held[d][n]
      BY <1>4, <2>3, <3>1 DEF cmd
    <3>3. ~Replacing(d, n)
      BY <1>1, <2>3, ReplacingAlone DEF Replacing, LeaseCall
    <3>. QED
      BY <3>2, <3>3
  <2>. QED
    BY <2>1, <2>2, <2>3
<1>. QED
  BY <1>1, <1>3, <1>4, <1>5, LeaseQuiet

(* A death forgets what its process held.                                  *)
LEMMA LeaseDeath ==
  ASSUME StoreInv, StoreInv', LeaseInv, KeysReplayed', NEW c \in Clients,
         Crash(c) \/ CrashAfterOpen(c) \/ CrashTorn(c)
  PROVE  LeaseInv'
<1>1. /\ log' = log /\ snaps' = snaps /\ now' = now
      /\ held' = [held EXCEPT ![c] = [n \in Nodes |-> None]]
      /\ Leave(c) \/ (pc' = pc /\ job' = job /\ lock # c)
  BY DEF Crash, CrashAfterOpen, CrashTorn, Die, files, calls
<1>2. held \in [Clients -> [Nodes -> Leases \cup {None}]] /\ now \in Nat
      /\ held' \in [Clients -> [Nodes -> Leases \cup {None}]]
  BY DEF StoreInv, TypeOK
<1>3. \A d \in Clients, n \in Nodes :
        held'[d][n] = None \/ (held'[d][n] = held[d][n] /\ d # c)
  BY <1>1, <1>2
<1>4. \A d \in Clients : /\ d # c => pc'[d] = pc[d] /\ job'[d] = job[d]
                         /\ pc'[d] # "idle" => pc'[d] = pc[d] /\ job'[d] = job[d]
  BY <1>1 DEF Leave, StoreInv, TypeOK
<1>5. \A d \in Clients, n \in Nodes :
        d # c /\ Replacing(d, n) => Replacing(d, n)'
  BY <1>4 DEF Replacing
<1>. QED
  BY <1>1, <1>2, <1>3, <1>4, <1>5, LeaseQuiet

(* Every step keeps LeaseInv while no lease call is repeated. *)
LEMMA LeaseStep ==
  ASSUME StoreInv, ClockInRange, LeaseInv, [Next]_vars, ~RetryLeases
  PROVE  LeaseInv'
<1>1. StoreInv' /\ KeysReplayed'
  BY StepInv, KeysStep DEF LeaseInv
<1>2. ASSUME log' = log, snaps' = snaps, pc' = pc, job' = job, held' = held,
             now' \in Nat, now <= now'
      PROVE  LeaseInv'
  <2>1. \A d \in Clients, n \in Nodes : Replacing(d, n) => Replacing(d, n)'
    BY <1>2 DEF Replacing
  <2>2. held' \in [Clients -> [Nodes -> Leases \cup {None}]]
    BY <1>1 DEF StoreInv, TypeOK
  <2>. QED
    BY <1>1, <1>2, <2>1, <2>2, LeaseQuiet
<1>3. ASSUME NEW c \in Clients, Load(c)
      PROVE  LeaseInv'
  <2>1. log' = log /\ snaps' = snaps /\ pc' = pc /\ job' = job /\ held' = held /\ now' = now
    BY <1>3 DEF Load, files, calls
  <2>2. now \in Nat
    BY DEF StoreInv, TypeOK
  <2>. QED
    BY <1>2, <2>1, <2>2
<1>4. ASSUME NEW c \in Clients, Refuse(c)
      PROVE  LeaseInv'
  <2>1. /\ log' = log /\ snaps' = snaps /\ held' = held /\ now' = now
        /\ pc[c] = "decide" /\ Leave(c)
    BY <1>4 DEF Refuse, files
  <2>2. now \in Nat /\ held' \in [Clients -> [Nodes -> Leases \cup {None}]]
    BY <1>1 DEF StoreInv, TypeOK
  <2>3. \A d \in Clients : pc'[d] = "idle"
    BY <2>1, LeaveFacts DEF StoreInv
  <2>4. \A d \in Clients, n \in Nodes : ~Replacing(d, n)
    BY <2>1, ReplacingAlone
  <2>. QED
    BY <1>1, <2>1, <2>2, <2>3, <2>4, LeaseQuiet
<1>5. CASE Tick
  <2>1. /\ log' = log /\ snaps' = snaps /\ pc' = pc /\ job' = job /\ held' = held
        /\ now' = now + 1 /\ now \in Nat
    BY <1>5 DEF Tick, files, calls, StoreInv, TypeOK
  <2>2. now' \in Nat /\ now <= now'
    BY <2>1
  <2>. QED
    BY <1>2, <2>1, <2>2
<1>6. CASE UNCHANGED vars
  <2>1. /\ log' = log /\ snaps' = snaps /\ pc' = pc /\ job' = job /\ held' = held
        /\ now' = now /\ now \in Nat
    BY <1>6 DEF vars, StoreInv, TypeOK
  <2>. QED
    BY <1>2, <2>1
<1>. QED
  BY <1>1, <1>3, <1>4, <1>5, <1>6, LeaseEnter, LeaseAppend, LeaseUnterminated,
     LeaseDuplicate, LeaseReply, LeaseDeath DEF Next

(* Two workers never both act on an unexpired lease of one node, for any   *)
(* number of clients, nodes, lifetimes and deaths, as long as a lease call *)
(* is not repeated under a key it used before (acquire_lease and heartbeat *)
(* answer such a repetition with whatever lease the node has by then).     *)
THEOREM LeaseMutexHolds ==
  ASSUME ~RetryLeases
  PROVE  Spec => []LeaseMutex
<1>1. Init => LeaseInv
  BY DEF Init, LeaseInv, KeysReplayed, Granted, LeaseGranted, RepliesOwn, HeldBacked,
         LeaseOf, Current, NoRun
<1>2. StoreInv /\ ClockInRange /\ LeaseInv /\ [Next]_vars => LeaseInv'
  BY LeaseStep
<1>3. StoreInv /\ LeaseInv => LeaseMutex
  <2>. SUFFICES ASSUME StoreInv, LeaseInv, NEW c \in Clients, NEW d \in Clients, NEW n \in Nodes,
                       held[c][n] # None, held[c][n].expires > now,
                       held[d][n] # None, held[d][n].expires > now, c # d
                PROVE  FALSE
    BY DEF LeaseMutex
  <2>1. (Backs(c, n) \/ Replacing(c, n)) /\ (Backs(d, n) \/ Replacing(d, n))
    BY DEF LeaseInv, HeldBacked
  <2>2. \A x \in Clients : Replacing(x, n) => LeaseOf(n) = None \/ LeaseOf(n).owner = x
    BY DEF LeaseInv, RepliesOwn, Replacing, LeaseCall
  <2>3. ~(Replacing(c, n) /\ Replacing(d, n))
    BY DEF StoreInv, InOperation, Replacing
  <2>. QED
    BY <2>1, <2>2, <2>3 DEF Backs
<1>. QED
  BY <1>1, <1>2, <1>3, FullInvariance, PTL DEF Spec
=============================================================================
