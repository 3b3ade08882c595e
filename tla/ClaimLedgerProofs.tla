--------------------------- MODULE ClaimLedgerProofs ---------------------------
(***************************************************************************)
(* Theorems about the claim ledger, for any processes, owners, paths and   *)
(* lifetimes, any stale limit and any number of deaths.                    *)
(*                                                                         *)
(* What the lock protects holds until a lock is removed under a living     *)
(* process.  LedgerInv says why: whoever is inside the lock created the    *)
(* lock file that is there (Holder), so the claims it is about to write    *)
(* were worked out from the ledger it replaces (Planned).                  *)
(***************************************************************************)
EXTENDS ClaimLedger, TLAPS

(* Whoever is inside created the lock file.  (_locked) *)
Holder == \A p \in Procs : pc[p] \in Inside => lock # None /\ lock.by = p

(* What a process is about to write follows from the ledger on disk and a  *)
(* clock reading of its own.  (acquire, release, status)                   *)
PlannedAt(p, t) ==
  /\ Writes(Live(ledger, t), req[p])
  /\ plan[p] = After(Live(ledger, t), req[p], t)
(* Whoever is about to write made its plan on the ledger as it still is. *)
Planned == \A p \in Procs : pc[p] = "write" => \E t \in 0..now : PlannedAt(p, t)

(* No path of the ledger has two owners with time left. *)
LedgerExclusive ==
  \A c, d \in ledger :
    c.path = d.path /\ c.expires > now /\ d.expires > now => c.owner = d.owner

(* A granted claim with time left is in the ledger. *)
Kept == \A c \in granted : c.expires > now => c \in ledger

(* What the lock guarantees, until some living process loses it. *)
Guarded == broken \/ (Holder /\ Planned /\ LedgerExclusive /\ Kept)

(* The inductive invariant. *)
LedgerInv == TypeOK /\ now <= MaxTime /\ Guarded

-----------------------------------------------------------------------------
(* The parameters of an operation have the types its kind asks for.        *)
LEMMA RequestParts ==
  ASSUME NEW r \in Requests
  PROVE  /\ r.op \in {"acquire", "release", "status", "check"}
         /\ r.op = "acquire" => r.owner \in Owners /\ r.paths \subseteq Paths /\ r.ttl \in Nat
         /\ r.op = "release" => r.owner \in Owners /\ r.paths \subseteq Paths
  BY ClaimAssumption DEF Requests

(* What an operation writes is a set of claims again.                      *)
LEMMA AfterType ==
  ASSUME NEW r \in Requests, NEW t \in Nat, NEW C \in SUBSET Claims
  PROVE  After(C, r, t) \in SUBSET Claims
<1>1. CASE r.op = "acquire"
  <2>1. r.owner \in Owners /\ r.paths \subseteq Paths /\ t + r.ttl \in Nat
    BY <1>1, RequestParts
  <2>2. NewClaims(r, t) \subseteq Claims
    BY <2>1 DEF NewClaims, Claims
  <2>. QED  BY <1>1, <2>2 DEF After, Others
<1>2. CASE r.op = "release"
  BY <1>2 DEF After, Others
<1>3. CASE r.op # "acquire" /\ r.op # "release"
  BY <1>3 DEF After
<1>. QED  BY <1>1, <1>2, <1>3

(* The active claims of a later moment are among those of an earlier one.  *)
LEMMA LiveShrinks ==
  ASSUME NEW C \in SUBSET Claims, NEW t \in Nat, NEW u \in Nat, t <= u
  PROVE  /\ Live(C, u) \subseteq Live(C, t)
         /\ Live(Live(C, t), u) = Live(C, u)
<1>1. \A c \in C : c.expires \in Nat
  BY DEF Claims
<1>2. \A c \in C : c.expires > u => c.expires > t
  BY <1>1
<1>. QED  BY <1>2 DEF Live

(* An operation leaves alone what it does not name, also among the active. *)
LEMMA OthersLive ==
  ASSUME NEW C \in SUBSET Claims, NEW r, NEW t \in Nat
  PROVE  Live(Others(C, r), t) = Others(Live(C, t), r)
  BY DEF Live, Others

-----------------------------------------------------------------------------
(* It holds at first. *)
LEMMA InitInv == Init => LedgerInv
<1>. SUFFICES ASSUME Init PROVE LedgerInv
  OBVIOUS
<1>1. TypeOK
  BY DEF Init, TypeOK, Inside
<1>2. Holder /\ Planned
  BY DEF Init, Holder, Planned, Inside
<1>3. LedgerExclusive /\ Kept
  BY DEF Init, LedgerExclusive, Kept
<1>4. now <= MaxTime
  BY ClaimAssumption DEF Init
<1>. QED  BY <1>1, <1>2, <1>3, <1>4 DEF LedgerInv, Guarded

(* Types are kept by every step.                                           *)
LEMMA TypeStep == TypeOK /\ [Next]_vars => TypeOK'
<1>. SUFFICES ASSUME TypeOK, [Next]_vars PROVE TypeOK'
  OBVIOUS
<1>. USE DEF TypeOK
<1>1. ASSUME NEW p \in Procs, NEW r \in Requests, Request(p, r) PROVE TypeOK'
  <2>1. requests' \in Nat  BY <1>1 DEF Request
  <2>2. pc' \in [Procs -> {"idle", "wait", "break"} \cup Inside]
    BY <1>1 DEF Request, Goto
  <2>3. req' \in [Procs -> Requests \cup {None}]
    BY <1>1 DEF Request
  <2>4. \A q \in Procs : pc'[q] # "idle" => req'[q] \in Requests
    BY <1>1 DEF Request, Goto
  <2>. QED  BY <1>1, <2>1, <2>2, <2>3, <2>4 DEF Request, Files, History
<1>2. ASSUME NEW p \in Procs, TakeLock(p) PROVE TypeOK'
  BY <1>2 DEF TakeLock, Goto, Inside, History, Bounds
<1>3. ASSUME NEW p \in Procs, JudgeStale(p) PROVE TypeOK'
  BY <1>3 DEF JudgeStale, Goto, Files, History, Bounds
<1>4. ASSUME NEW p \in Procs, Break(p) PROVE TypeOK'
  <2>1. broken' \in BOOLEAN  BY <1>4, Zenon DEF Break
  <2>. QED  BY <1>4, <2>1 DEF Break, Goto, Bounds
<1>5. ASSUME NEW p \in Procs, Read(p) PROVE TypeOK'
  <2>1. req[p] \in Requests  BY <1>5 DEF Read
  <2>2. Live(ledger, now) \in SUBSET Claims  BY DEF Live
  <2>3. After(Live(ledger, now), req[p], now) \in SUBSET Claims
    BY <2>1, <2>2, AfterType
  <2>4. plan' \in [Procs -> SUBSET Claims]
    BY <1>5, <2>3 DEF Read
  <2>5. pc' \in [Procs -> {"idle", "wait", "break"} \cup Inside]
    BY <1>5 DEF Read, Goto, Inside
  <2>6. \A q \in Procs : pc'[q] # "idle" => req'[q] \in Requests
    BY <1>5 DEF Read, Goto
  <2>. QED  BY <1>5, <2>4, <2>5, <2>6 DEF Read, Files, History, Bounds
<1>6. ASSUME NEW p \in Procs, Write(p) PROVE TypeOK'
  <2>1. req[p] \in Requests  BY <1>6 DEF Write
  <2>2. granted' \subseteq Claims
    BY <1>6 DEF Write, Others
  <2>3. ledger' \subseteq Claims  BY <1>6 DEF Write
  <2>. QED  BY <1>6, <2>1, <2>2, <2>3 DEF Write, Goto, Inside, Bounds
<1>7. ASSUME NEW p \in Procs, Leave(p) PROVE TypeOK'
  BY <1>7 DEF Leave, Goto, History, Bounds
<1>8. ASSUME NEW p \in Procs, Crash(p) PROVE TypeOK'
  BY <1>8 DEF Crash, Goto, Files, History
<1>9. CASE Tick
  BY <1>9 DEF Tick, Files, History, Bounds
<1>10. CASE UNCHANGED vars
  BY <1>10 DEF vars
<1>. QED
  BY <1>1, <1>2, <1>3, <1>4, <1>5, <1>6, <1>7, <1>8, <1>9, <1>10 DEF Next, Step

(* When nothing was broken a step of a process inside meets nobody else    *)
(* inside.                                                                 *)
LEMMA Alone ==
  ASSUME Holder, NEW p \in Procs, NEW q \in Procs, pc[p] \in Inside, pc[q] \in Inside
  PROVE  p = q
  BY DEF Holder

(* The lock file belongs to whoever is inside, after every step.           *)
LEMMA HolderStep ==
  ASSUME TypeOK, Holder, [Next]_vars, ~broken'
  PROVE  Holder'
<1>. USE DEF TypeOK
<1>1. ASSUME NEW p \in Procs, NEW r \in Requests, Request(p, r) PROVE Holder'
  BY <1>1 DEF Request, Goto, Files, Holder, Inside
<1>2. ASSUME NEW p \in Procs, TakeLock(p) PROVE Holder'
  <2>1. \A q \in Procs : pc[q] \notin Inside
    BY <1>2 DEF TakeLock, Holder
  <2>2. lock' = [by |-> p, mtime |-> now] /\ lock' # None
    BY <1>2, ClaimAssumption DEF TakeLock
  <2>3. \A q \in Procs : q # p => pc'[q] = pc[q]
    BY <1>2 DEF TakeLock, Goto
  <2>. QED  BY <2>1, <2>2, <2>3 DEF Holder
<1>3. ASSUME NEW p \in Procs, JudgeStale(p) PROVE Holder'
  BY <1>3 DEF JudgeStale, Goto, Files, Holder, Inside
<1>4. ASSUME NEW p \in Procs, Break(p) PROVE Holder'
  <2>1. lock # None => pc[lock.by] \notin Inside
    BY <1>4 DEF Break
  <2>2. \A q \in Procs : pc[q] \notin Inside
    BY <2>1 DEF Holder
  <2>. QED  BY <1>4, <2>2 DEF Break, Goto, Holder, Inside
<1>5. ASSUME NEW p \in Procs, Read(p) PROVE Holder'
  <2>1. \A q \in Procs : pc'[q] \in Inside => pc[q] \in Inside
    BY <1>5 DEF Read, Goto, Inside
  <2>2. lock' = lock  BY <1>5 DEF Read, Files
  <2>. QED  BY <2>1, <2>2 DEF Holder
<1>6. ASSUME NEW p \in Procs, Write(p) PROVE Holder'
  <2>1. \A q \in Procs : pc'[q] \in Inside => pc[q] \in Inside
    BY <1>6 DEF Write, Goto, Inside
  <2>2. lock' = lock  BY <1>6 DEF Write
  <2>. QED  BY <2>1, <2>2 DEF Holder
<1>7. ASSUME NEW p \in Procs, Leave(p) PROVE Holder'
  <2>1. \A q \in Procs : pc[q] \in Inside => q = p
    BY <1>7, Alone DEF Leave, Inside
  <2>. QED  BY <1>7, <2>1 DEF Leave, Goto, Holder, Inside
<1>8. ASSUME NEW p \in Procs, Crash(p) PROVE Holder'
  BY <1>8 DEF Crash, Goto, Files, Holder, Inside
<1>9. CASE Tick
  BY <1>9 DEF Tick, Files, Holder
<1>10. CASE UNCHANGED vars
  BY <1>10 DEF vars, Holder
<1>. QED
  BY <1>1, <1>2, <1>3, <1>4, <1>5, <1>6, <1>7, <1>8, <1>9, <1>10 DEF Next, Step

(* Every step but Read keeps the processes that are about to write among   *)
(* those that were, with their plans; only Write changes the ledger, and   *)
(* only Tick the clock.                                                    *)
LEMMA Frame ==
  ASSUME TypeOK, [Next]_vars
  PROVE  \/ \E p \in Procs : Read(p)
         \/ \E p \in Procs : Write(p)
         \/ /\ ledger' = ledger /\ granted' = granted
            /\ now' \in {now, now + 1} /\ (now' # now => now < MaxTime)
            /\ \A p \in Procs : pc'[p] = "write" =>
                 pc[p] = "write" /\ req'[p] = req[p] /\ plan'[p] = plan[p]
<1>. USE DEF TypeOK
<1>. DEFINE Quiet == /\ ledger' = ledger /\ granted' = granted
                     /\ now' \in {now, now + 1} /\ (now' # now => now < MaxTime)
                     /\ \A p \in Procs : pc'[p] = "write" =>
                          pc[p] = "write" /\ req'[p] = req[p] /\ plan'[p] = plan[p]
<1>1. ASSUME NEW p \in Procs, NEW r \in Requests, Request(p, r) PROVE Quiet
  BY <1>1 DEF Request, Goto, Files, History
<1>2. ASSUME NEW p \in Procs, TakeLock(p) PROVE Quiet
  BY <1>2 DEF TakeLock, Goto, History
<1>3. ASSUME NEW p \in Procs, JudgeStale(p) PROVE Quiet
  BY <1>3 DEF JudgeStale, Goto, Files, History
<1>4. ASSUME NEW p \in Procs, Break(p) PROVE Quiet
  BY <1>4 DEF Break, Goto
<1>5. ASSUME NEW p \in Procs, Leave(p) PROVE Quiet
  BY <1>5 DEF Leave, Goto, History
<1>6. ASSUME NEW p \in Procs, Crash(p) PROVE Quiet
  BY <1>6 DEF Crash, Goto, Files, History
<1>7. CASE Tick
  BY <1>7 DEF Tick, Files, History
<1>8. CASE UNCHANGED vars
  BY <1>8 DEF vars
<1>. QED
  BY <1>1, <1>2, <1>3, <1>4, <1>5, <1>6, <1>7, <1>8 DEF Next, Step

(* A lock once broken stays on record.                                     *)
LEMMA BrokenStays == TypeOK /\ [Next]_vars /\ broken => broken'
  BY DEF Next, Step, Request, TakeLock, JudgeStale, Break, Read, Write, Leave, Crash,
         Tick, History, vars

-----------------------------------------------------------------------------
(* What a written plan is, by the operation.                               *)
LEMMA PlanParts ==
  ASSUME TypeOK, NEW p \in Procs, pc[p] = "write", NEW t \in 0..now, PlannedAt(p, t)
  PROVE  \/ /\ req[p].op = "acquire"
            /\ Conflicts(Live(ledger, t), req[p]) = {}
            /\ plan[p] = Others(Live(ledger, t), req[p]) \cup NewClaims(req[p], t)
         \/ /\ req[p].op = "release"
            /\ plan[p] = Others(Live(ledger, t), req[p])
         \/ /\ req[p].op = "status"
            /\ plan[p] = Live(ledger, t)
<1>1. req[p] \in Requests
  BY DEF TypeOK
<1>2. req[p].op \in {"acquire", "release", "status", "check"}
  BY <1>1, RequestParts
<1>3. CASE req[p].op = "acquire"
  BY <1>3 DEF PlannedAt, Writes, After
<1>4. CASE req[p].op = "release"
  BY <1>4 DEF PlannedAt, After
<1>5. CASE req[p].op = "status"
  BY <1>5 DEF PlannedAt, After
<1>6. CASE req[p].op = "check"
  BY <1>6 DEF PlannedAt, Writes
<1>. QED  BY <1>2, <1>3, <1>4, <1>5, <1>6

(* Every claim a process is about to write was active in the ledger, or is *)
(* its own on a path nobody else holds; what it does not name stays.       *)
LEMMA PlanKeeps ==
  ASSUME TypeOK, NEW p \in Procs, pc[p] = "write", NEW t \in 0..now, PlannedAt(p, t)
  PROVE  /\ \A c \in plan[p] :
              \/ c \in Live(ledger, t)
              \/ /\ req[p].op = "acquire"
                 /\ c.owner = req[p].owner /\ c.path \in req[p].paths
         /\ req[p].op = "acquire" =>
              \A c \in Live(ledger, t) : c.path \in req[p].paths => c.owner = req[p].owner
         /\ \A c \in Live(ledger, t) :
              c \in plan[p]
                \/ (/\ req[p].op \in {"acquire", "release"}
                    /\ c.owner = req[p].owner /\ c.path \in req[p].paths)
<1>1. CASE /\ req[p].op = "acquire"
           /\ Conflicts(Live(ledger, t), req[p]) = {}
           /\ plan[p] = Others(Live(ledger, t), req[p]) \cup NewClaims(req[p], t)
  <2>1. \A c \in NewClaims(req[p], t) : c.owner = req[p].owner /\ c.path \in req[p].paths
    BY DEF NewClaims
  <2>2. \A c \in Live(ledger, t) : c.path \in req[p].paths => c.owner = req[p].owner
    BY <1>1 DEF Conflicts
  <2>3. \A c \in Live(ledger, t) : c \in Others(Live(ledger, t), req[p])
            \/ (c.owner = req[p].owner /\ c.path \in req[p].paths)
    BY DEF Others
  <2>4. Others(Live(ledger, t), req[p]) \subseteq Live(ledger, t)
    BY DEF Others
  <2>. HIDE DEF PlannedAt
  <2>. QED  BY <1>1, <2>1, <2>2, <2>3, <2>4
<1>2. CASE /\ req[p].op = "release"
           /\ plan[p] = Others(Live(ledger, t), req[p])
  BY <1>2 DEF Others
<1>3. CASE /\ req[p].op = "status"
           /\ plan[p] = Live(ledger, t)
  BY <1>3
<1>. QED  BY <1>1, <1>2, <1>3, PlanParts

(* Writing a plan keeps the ledger exclusive.                              *)
LEMMA WriteExclusive ==
  ASSUME TypeOK, LedgerExclusive, NEW p \in Procs, pc[p] = "write",
         NEW t \in 0..now, PlannedAt(p, t),
         NEW c \in plan[p], NEW d \in plan[p],
         c.path = d.path, c.expires > now, d.expires > now
  PROVE  c.owner = d.owner
<1>. DEFINE Own(e) == /\ req[p].op = "acquire"
                      /\ e.owner = req[p].owner /\ e.path \in req[p].paths
<1>1. (c \in Live(ledger, t) \/ Own(c)) /\ (d \in Live(ledger, t) \/ Own(d))
  BY PlanKeeps
<1>2. Live(ledger, t) \subseteq ledger
  BY DEF Live
<1>3. CASE c \in Live(ledger, t) /\ d \in Live(ledger, t)
  BY <1>2, <1>3 DEF LedgerExclusive
<1>4. CASE Own(c) /\ d \in Live(ledger, t)
  BY <1>4, PlanKeeps
<1>5. CASE c \in Live(ledger, t) /\ Own(d)
  BY <1>5, PlanKeeps
<1>6. CASE Own(c) /\ Own(d)
  BY <1>6
<1>. QED  BY <1>1, <1>3, <1>4, <1>5, <1>6

(* Writing a plan loses no granted claim of anybody else.                  *)
LEMMA WriteKeeps ==
  ASSUME TypeOK, Kept, NEW p \in Procs, NEW t \in 0..now, PlannedAt(p, t), Write(p)
  PROVE  Kept'
<1>1. pc[p] = "write" /\ ledger' = plan[p] /\ now' = now
  BY DEF Write
<1>. SUFFICES ASSUME NEW c \in granted', c.expires > now
              PROVE  c \in plan[p]
  BY <1>1 DEF Kept
<1>2. c \in granted /\ ~(/\ req[p].op \in {"acquire", "release"}
                         /\ c.owner = req[p].owner /\ c.path \in req[p].paths)
      => c \in plan[p]
  <2>. SUFFICES ASSUME c \in granted,
                       ~(/\ req[p].op \in {"acquire", "release"}
                         /\ c.owner = req[p].owner /\ c.path \in req[p].paths)
                PROVE  c \in plan[p]
    OBVIOUS
  <2>1. c \in ledger /\ c.expires \in Nat
    BY DEF Kept, TypeOK, Claims
  <2>2. c.expires > t
    BY <2>1 DEF TypeOK
  <2>3. c \in Live(ledger, t)
    BY <2>1, <2>2 DEF Live
  <2>. QED  BY <1>1, <2>3, PlanKeeps
<1>3. CASE req[p].op = "acquire"
  <2>1. granted' = Others(granted, req[p]) \cup (plan[p] \ Others(plan[p], req[p]))
    BY <1>3 DEF Write
  <2>. QED  BY <1>2, <2>1 DEF Others
<1>4. CASE req[p].op = "release"
  <2>1. granted' = Others(granted, req[p])
    BY <1>4 DEF Write
  <2>. QED  BY <1>2, <2>1 DEF Others
<1>5. CASE req[p].op # "acquire" /\ req[p].op # "release"
  <2>1. granted' = granted
    BY <1>5 DEF Write
  <2>. QED  BY <1>2, <1>5, <2>1
<1>. QED  BY <1>3, <1>4, <1>5

(* The invariant is kept by every step.                                    *)
LEMMA StepInv == LedgerInv /\ [Next]_vars => LedgerInv'
<1>. SUFFICES ASSUME LedgerInv, [Next]_vars PROVE LedgerInv'
  OBVIOUS
<1>1. TypeOK /\ TypeOK'
  BY TypeStep DEF LedgerInv
<1>2. now' <= MaxTime
  <2>1. CASE now' = now
    BY <2>1 DEF LedgerInv
  <2>2. CASE now' = now + 1 /\ now < MaxTime
    BY <1>1, <2>2, ClaimAssumption DEF TypeOK
  <2>3. now' = now \/ (now' = now + 1 /\ now < MaxTime)
    <3>1. ASSUME NEW p \in Procs, Read(p) \/ Write(p) PROVE now' = now
      BY <3>1 DEF Read, Write
    <3>. QED  BY <1>1, <3>1, Frame
  <2>. QED  BY <2>1, <2>2, <2>3
<1>3. Guarded'
  <2>. SUFFICES ASSUME ~broken' PROVE (Holder /\ Planned /\ LedgerExclusive /\ Kept)'
    BY DEF Guarded
  <2>1. ~broken
    BY <1>1, BrokenStays
  <2>2. Holder /\ Planned /\ LedgerExclusive /\ Kept
    BY <2>1 DEF LedgerInv, Guarded
  <2>3. Holder'
    BY <1>1, <2>2, HolderStep
  <2>4. ASSUME NEW p \in Procs, Read(p) PROVE (Planned /\ LedgerExclusive /\ Kept)'
    <3>1. ledger' = ledger /\ granted' = granted /\ now' = now /\ req' = req
      BY <2>4 DEF Read, Files, History
    <3>2. LedgerExclusive' /\ Kept'
      BY <2>2, <3>1 DEF LedgerExclusive, Kept
    <3>3. ASSUME NEW q \in Procs, pc'[q] = "write"
          PROVE  \E t \in 0..now' : PlannedAt(q, t)'
      <4>1. CASE q = p
        <5>1. Writes(Live(ledger, now), req[p])
          BY <2>4, <3>3, <4>1, <1>1 DEF Read, Goto, TypeOK
        <5>2. plan'[p] = After(Live(ledger, now), req[p], now)
          BY <2>4, <5>1, <1>1 DEF Read, TypeOK
        <5>3. PlannedAt(p, now)'
          BY <3>1, <5>1, <5>2 DEF PlannedAt
        <5>4. now \in 0..now'
          BY <1>1, <3>1 DEF TypeOK
        <5>. QED  BY <3>1, <4>1, <5>3, <5>4
      <4>2. CASE q # p
        <5>1. pc[q] = "write" /\ pc[p] = "read"
          BY <2>4, <3>3, <4>2, <1>1 DEF Read, Goto, TypeOK
        <5>. QED  BY <2>2, <4>2, <5>1, Alone DEF Inside
      <4>. QED  BY <4>1, <4>2
    <3>. QED  BY <3>2, <3>3 DEF Planned
  <2>5. ASSUME NEW p \in Procs, Write(p) PROVE (Planned /\ LedgerExclusive /\ Kept)'
    <3>1. pc[p] = "write" /\ ledger' = plan[p] /\ now' = now
      BY <2>5 DEF Write
    <3>2. PICK t \in 0..now : PlannedAt(p, t)
      BY <2>2, <3>1 DEF Planned
    <3>3. Kept'
      BY <1>1, <2>2, <2>5, <3>2, WriteKeeps
    <3>4. LedgerExclusive'
      BY <1>1, <2>2, <3>1, <3>2, WriteExclusive DEF LedgerExclusive
    <3>5. \A q \in Procs : pc'[q] # "write"
      <4>. SUFFICES ASSUME NEW q \in Procs, pc'[q] = "write" PROVE FALSE
        OBVIOUS
      <4>1. q # p /\ pc[q] = "write"
        BY <2>5, <1>1 DEF Write, Goto, TypeOK
      <4>. QED  BY <2>2, <3>1, <4>1, Alone DEF Inside
    <3>. QED  BY <3>3, <3>4, <3>5 DEF Planned
  <2>6. CASE /\ ledger' = ledger /\ granted' = granted
             /\ now' \in {now, now + 1} /\ (now' # now => now < MaxTime)
             /\ \A p \in Procs : pc'[p] = "write" =>
                  pc[p] = "write" /\ req'[p] = req[p] /\ plan'[p] = plan[p]
    <3>1. now \in Nat /\ now' \in Nat /\ now <= now'
      BY <1>1, <2>6 DEF TypeOK
    <3>2. \A c \in Claims : c.expires > now' => c.expires > now
      BY <3>1 DEF Claims
    <3>3. ledger \subseteq Claims /\ granted \subseteq Claims
      BY <1>1 DEF TypeOK
    <3>4. LedgerExclusive'
      BY <2>2, <2>6, <3>2, <3>3 DEF LedgerExclusive
    <3>5. Kept'
      BY <2>2, <2>6, <3>2, <3>3 DEF Kept
    <3>6. 0..now \subseteq 0..now'
      BY <3>1
    <3>7. ASSUME NEW q \in Procs, pc'[q] = "write"
          PROVE  \E t \in 0..now' : PlannedAt(q, t)'
      <4>1. PICK t \in 0..now : PlannedAt(q, t)
        BY <2>2, <2>6, <3>7 DEF Planned
      <4>2. PlannedAt(q, t)'
        BY <2>6, <3>7, <4>1 DEF PlannedAt
      <4>. QED  BY <3>6, <4>1, <4>2
    <3>. QED  BY <2>3, <3>4, <3>5, <3>7 DEF Planned
  <2>. QED  BY <1>1, <2>3, <2>4, <2>5, <2>6, Frame
<1>. QED  BY <1>1, <1>2, <1>3 DEF LedgerInv

(* It holds always. *)
LEMMA Invariant == Spec => []LedgerInv
  BY InitInv, StepInv, PTL DEF Spec

-----------------------------------------------------------------------------
(* The state of the files and of every process is well typed at all times. *)
THEOREM TypeCorrect == Spec => []TypeOK
<1>1. LedgerInv => TypeOK
  BY DEF LedgerInv
<1>. QED  BY <1>1, Invariant, PTL

(* _locked excludes: two operations overlap only when a stale-lock break   *)
(* took the lock from a living process.                                    *)
THEOREM OneInsideHolds == Spec => []OneInsideUnlessBroken
<1>1. LedgerInv => OneInsideUnlessBroken
  BY DEF LedgerInv, Guarded, Holder, OneInsideUnlessBroken
<1>. QED  BY <1>1, Invariant, PTL

(* acquire never grants a path that another owner still has, with the same *)
(* proviso.                                                                *)
THEOREM ExclusiveHolds == Spec => []ExclusiveUnlessBroken
<1>1. LedgerInv => ExclusiveUnlessBroken
  BY DEF LedgerInv, Guarded, Kept, LedgerExclusive, ExclusiveUnlessBroken, GrantsExclusive
<1>. QED  BY <1>1, Invariant, PTL

(* No operation loses a granted claim, with the same proviso.              *)
THEOREM GrantsKeptHolds == Spec => []GrantsKeptUnlessBroken
<1>1. LedgerInv => GrantsKeptUnlessBroken
  BY DEF LedgerInv, Guarded, Kept, GrantsKeptUnlessBroken
<1>. QED  BY <1>1, Invariant, PTL

-----------------------------------------------------------------------------
(* A plan, written now, is one operation of the register on the claims     *)
(* that are active now.                                                    *)
LEMMA WriteRefines ==
  ASSUME TypeOK, now <= MaxTime, NEW p \in Procs, NEW t \in 0..now, PlannedAt(p, t), Write(p)
  PROVE  Register!Next \/ (Live(ledger, now)' = Live(ledger, now) /\ now' = now)
<1>1. pc[p] = "write" /\ ledger' = plan[p] /\ now' = now
  BY DEF Write
<1>2. t \in Nat /\ now \in Nat /\ t <= now /\ t \in 0..MaxTime
  BY ClaimAssumption DEF TypeOK
<1>3. req[p] \in Requests
  BY <1>1 DEF TypeOK
<1>4. ledger \in SUBSET Claims /\ Live(ledger, t) \in SUBSET Claims
  BY DEF TypeOK, Live
<1>5. /\ Live(ledger, now) \subseteq Live(ledger, t)
      /\ Live(Live(ledger, t), now) = Live(ledger, now)
  BY <1>2, <1>4, LiveShrinks
<1>6. Live(Others(Live(ledger, t), req[p]), now) = Others(Live(ledger, now), req[p])
  BY <1>2, <1>4, <1>5, OthersLive
<1>7. CASE /\ req[p].op = "acquire"
           /\ Conflicts(Live(ledger, t), req[p]) = {}
           /\ plan[p] = Others(Live(ledger, t), req[p]) \cup NewClaims(req[p], t)
  <2>1. req[p].owner \in Owners /\ req[p].paths \in SUBSET Paths /\ req[p].ttl \in Ttls
    BY <1>3, <1>7 DEF Requests
  <2>2. t + req[p].ttl \in Ends
    BY <1>2, <2>1 DEF Ends
  <2>3. \A c \in Live(ledger, now) : c.path \in req[p].paths => c.owner = req[p].owner
    BY <1>5, <1>7 DEF Conflicts
  <2>4. Live(plan[p], now)
          = Live(Others(Live(ledger, now), req[p]) \cup NewClaims(req[p], t), now)
    <3>1. Live(plan[p], now) = Live(Others(Live(ledger, t), req[p]), now)
                                 \cup Live(NewClaims(req[p], t), now)
      BY <1>7 DEF Live
    <3>2. Live(Others(Live(ledger, now), req[p]), now) = Others(Live(ledger, now), req[p])
      BY DEF Live, Others
    <3>3. Live(Others(Live(ledger, now), req[p]) \cup NewClaims(req[p], t), now)
            = Live(Others(Live(ledger, now), req[p]), now) \cup Live(NewClaims(req[p], t), now)
      BY DEF Live
    <3>. QED  BY <1>6, <3>1, <3>2, <3>3
  <2>5. Register!Grant(req[p].owner, req[p].paths, t + req[p].ttl)
    BY <1>1, <2>3, <2>4
       DEF Register!Grant, Register!Live, Register!Others, Live, Others, NewClaims
  <2>. QED  BY <2>1, <2>2, <2>5 DEF Register!Next
<1>8. CASE /\ req[p].op = "release"
           /\ plan[p] = Others(Live(ledger, t), req[p])
  <2>1. req[p].owner \in Owners /\ req[p].paths \in SUBSET Paths
    BY <1>3, <1>8, RequestParts
  <2>2. Live(ledger', now') = Others(Live(ledger, now), req[p])
    BY <1>1, <1>6, <1>8
  <2>3. Register!GiveBack(req[p].owner, req[p].paths)
    BY <1>1, <2>2 DEF Register!GiveBack, Register!Others, Others
  <2>. QED  BY <2>1, <2>3 DEF Register!Next
<1>9. CASE /\ req[p].op = "status"
           /\ plan[p] = Live(ledger, t)
  <2>1. Live(ledger', now') = Live(ledger, now)
    BY <1>1, <1>5, <1>9
  <2>. QED  BY <1>1, <2>1 DEF Live
<1>. QED  BY <1>1, <1>7, <1>8, <1>9, PlanParts

(* ClaimLedger implements the steps of ClaimRegister: every operation is   *)
(* one change of the register, at its write, until a living process loses  *)
(* its lock.                                                               *)
THEOREM Refinement == Spec => ActsAsRegister
<1>1. LedgerInv /\ [Next]_vars
        => [broken' \/ Register!Next]_<<Live(ledger, now), now>>
  <2>. SUFFICES ASSUME LedgerInv, [Next]_vars, ~broken'
                PROVE  Register!Next \/ (Live(ledger, now)' = Live(ledger, now) /\ now' = now)
    OBVIOUS
  <2>1. TypeOK /\ now <= MaxTime
    BY DEF LedgerInv
  <2>2. Planned
    BY <2>1, BrokenStays DEF LedgerInv, Guarded
  <2>3. ASSUME NEW p \in Procs, Read(p)
        PROVE  Live(ledger, now)' = Live(ledger, now) /\ now' = now
    BY <2>3 DEF Read, Files, Live
  <2>4. ASSUME NEW p \in Procs, Write(p)
        PROVE  Register!Next \/ (Live(ledger, now)' = Live(ledger, now) /\ now' = now)
    <3>1. PICK t \in 0..now : PlannedAt(p, t)
      BY <2>2, <2>4 DEF Planned, Write
    <3>. QED  BY <2>1, <2>4, <3>1, WriteRefines
  <2>5. CASE ledger' = ledger /\ now' = now
    BY <2>5 DEF Live
  <2>6. CASE ledger' = ledger /\ now' = now + 1
    <3>1. now \in Nat /\ now' \in Nat /\ now <= now' /\ ledger \in SUBSET Claims
      BY <2>1, <2>6 DEF TypeOK
    <3>2. Live(Live(ledger, now), now') = Live(ledger, now')
      BY <3>1, LiveShrinks
    <3>3. Register!Tick
      BY <2>6, <3>2 DEF Register!Tick, Register!Live, Live
    <3>. QED  BY <3>3 DEF Register!Next
  <2>. QED  BY <2>1, <2>3, <2>4, <2>5, <2>6, Frame
<1>. QED  BY <1>1, Invariant, PTL DEF Spec, ActsAsRegister
=============================================================================
