------------------------------ MODULE ClaimLedger ------------------------------
(***************************************************************************)
(* ClaimLedger (claim/__init__.py): the path claims of .onmc/claims.json,  *)
(* used by `onmc claim` and by the swarm planner, and the lock file that   *)
(* serializes them.  Any number of processes work on the two files at      *)
(* once; they may be slow anywhere, they may die anywhere, and a lock file *)
(* older than StaleAfter is taken to be a dead process's and removed.      *)
(***************************************************************************)
EXTENDS Naturals, FiniteSets

CONSTANTS
  Procs,        \* the processes
  Owners,       \* the owner names they claim for
  Paths,
  Ttls,         \* ttl_seconds they ask for
  Ops,          \* operations they use, of {"acquire","release","status","check"}
  StaleAfter,   \* LOCK_STALE_SECONDS
  MaxTime,      \* bound: last clock tick explored
  MaxRequests,  \* bound: operations explored
  MaxCrashes,   \* bound: process deaths explored
  None

ASSUME ClaimAssumption ==
  /\ Ttls \subseteq Nat
  /\ StaleAfter \in Nat
  /\ MaxTime \in Nat /\ MaxRequests \in Nat /\ MaxCrashes \in Nat
  /\ None \notin [by : Procs, mtime : Nat]

VARIABLES
  ledger,    \* the claims in claims.json; replaced as a whole by os.replace
  lock,      \* claims.lock: None or who created it and when
  now,       \* the clock
  pc,        \* process -> what it does next, "idle" between operations
  req,       \* process -> the operation it is in
  plan,      \* process -> the claims it is about to write
  granted,   \* history: claims given to acquirers and not given back
  broken,    \* history: a lock was removed under a process still using it
  requests,
  crashes

vars ==
  <<ledger, lock, now, pc, req, plan, granted, broken, requests, crashes>>

Claims == [owner : Owners, path : Paths, expires : Nat]
(* A release names one path or, without --path, all of them.  What check   *)
(* is asked only shapes its answer.                                        *)
Requests ==
  {r \in [op : {"acquire"}, owner : Owners, paths : SUBSET Paths, ttl : Ttls]
         \cup [op : {"release"}, owner : Owners,
               paths : {{x} : x \in Paths} \cup {Paths}]
         \cup [op : {"status", "check"}] : r.op \in Ops}
Ends == {t + d : t \in 0..MaxTime, d \in Ttls}
Inside == {"read", "write", "leave"}

TypeOK ==
  /\ ledger \subseteq Claims
  /\ lock \in [by : Procs, mtime : Nat] \cup {None}
  /\ now \in Nat
  /\ pc \in [Procs -> {"idle", "wait", "break"} \cup Inside]
  /\ req \in [Procs -> Requests \cup {None}]
  /\ \A p \in Procs : pc[p] # "idle" => req[p] \in Requests
  /\ plan \in [Procs -> SUBSET Claims]
  /\ granted \subseteq Claims
  /\ broken \in BOOLEAN
  /\ requests \in Nat
  /\ crashes \in Nat

Init ==
  /\ ledger = {}
  /\ lock = None
  /\ now = 0
  /\ pc = [p \in Procs |-> "idle"]
  /\ req = [p \in Procs |-> None]
  /\ plan = [p \in Procs |-> {}]
  /\ granted = {}
  /\ broken = FALSE
  /\ requests = 0
  /\ crashes = 0

-----------------------------------------------------------------------------
(* _active_claims *)
Live(claims, at) == {c \in claims : c.expires > at}

(* The claims an operation leaves alone, of the given ones. *)
Others(claims, r) == {c \in claims : ~(c.owner = r.owner /\ c.path \in r.paths)}

NewClaims(r, at) ==
  [owner : {r.owner}, path : r.paths, expires : {at + r.ttl}]

(* Fault: a claim of any owner on the path is taken for one's own. *)
ConflictsNone(claims, r) == {}

Conflicts(claims, r) ==
  {c \in claims : c.path \in r.paths /\ c.owner # r.owner}

(* Fault: a release takes the path from whoever has it. *)
AfterReleaseAll(claims, r, at) ==
  CASE r.op = "acquire" -> Others(claims, r) \cup NewClaims(r, at)
    [] r.op = "release" -> {c \in claims : c.path \notin r.paths}
    [] OTHER            -> claims

(* What acquire, release and status write, given the active claims. *)
After(claims, r, at) ==
  CASE r.op = "acquire" -> Others(claims, r) \cup NewClaims(r, at)
    [] r.op = "release" -> Others(claims, r)
    [] OTHER            -> claims

(* acquire and check raise inside the lock when no path is left after      *)
(* normalizing; check and a refused acquire write nothing.                 *)
Writes(claims, r) ==
  /\ r.op # "check"
  /\ r.op = "acquire" => r.paths # {} /\ Conflicts(claims, r) = {}

-----------------------------------------------------------------------------
Goto(p, step) == pc' = [pc EXCEPT ![p] = step]
Files   == <<ledger, lock>>
History == <<granted, broken>>
Bounds  == <<requests, crashes>>

(* Fault: the operation is forgotten while its process waits. *)
RequestUnread(p, r) ==
  /\ pc[p] = "idle"
  /\ requests < MaxRequests
  /\ requests' = requests + 1
  /\ Goto(p, "wait")
  /\ UNCHANGED <<Files, now, req, plan, History, crashes>>

(* A user or the swarm planner runs one operation. *)
Request(p, r) ==
  /\ pc[p] = "idle"
  /\ requests < MaxRequests
  /\ requests' = requests + 1
  /\ Goto(p, "wait")
  /\ req' = [req EXCEPT ![p] = r]
  /\ UNCHANGED <<Files, now, plan, History, crashes>>

(* Fault: the lock file is opened without O_EXCL. *)
TakeLockShared(p) ==
  /\ pc[p] = "wait"
  /\ lock' = [by |-> p, mtime |-> now]
  /\ Goto(p, "read")
  /\ UNCHANGED <<ledger, now, req, plan, History, Bounds>>

(* _locked: O_CREAT | O_EXCL. *)
TakeLock(p) ==
  /\ pc[p] = "wait"
  /\ lock = None
  /\ lock' = [by |-> p, mtime |-> now]
  /\ Goto(p, "read")
  /\ UNCHANGED <<ledger, now, req, plan, History, Bounds>>

(* Fault: a lock is never taken for stale. *)
JudgeNever(p) == FALSE /\ UNCHANGED vars

(* _is_stale_lock answers yes.  When it answers no the waiter sleeps and   *)
(* tries again.                                                            *)
JudgeStale(p) ==
  /\ pc[p] = "wait"
  /\ lock # None
  /\ now > lock.mtime + StaleAfter
  /\ Goto(p, "break")
  /\ UNCHANGED <<Files, now, req, plan, History, Bounds>>

(* lock_path.unlink(): whatever file has that name by now. *)
Break(p) ==
  /\ pc[p] = "break"
  /\ lock' = None
  /\ broken' = (broken \/ (lock # None /\ pc[lock.by] \in Inside))
  /\ Goto(p, "wait")
  /\ UNCHANGED <<ledger, now, req, plan, granted, Bounds>>

(* The clock and the ledger are read, the answer is worked out. *)
Read(p) ==
  LET active == Live(ledger, now)
      writes == Writes(active, req[p])
  IN  /\ pc[p] = "read"
      /\ Goto(p, IF writes THEN "write" ELSE "leave")
      /\ plan' = [plan EXCEPT ![p] =
           IF writes THEN After(active, req[p], now) ELSE {}]
      /\ UNCHANGED <<Files, now, req, History, Bounds>>

(* Fault: the claims are added to the file as it is now. *)
WriteMerged(p) ==
  /\ pc[p] = "write"
  /\ ledger' = ledger \cup plan[p]
  /\ granted' = CASE req[p].op = "acquire" ->
                       Others(granted, req[p])
                         \cup (plan[p] \ Others(plan[p], req[p]))
                  [] req[p].op = "release" -> Others(granted, req[p])
                  [] OTHER -> granted
  /\ Goto(p, "leave")
  /\ UNCHANGED <<lock, now, req, plan, broken, Bounds>>

(* _write *)
Write(p) ==
  /\ pc[p] = "write"
  /\ ledger' = plan[p]
  /\ granted' = CASE req[p].op = "acquire" ->
                       Others(granted, req[p])
                         \cup (plan[p] \ Others(plan[p], req[p]))
                  [] req[p].op = "release" -> Others(granted, req[p])
                  [] OTHER -> granted
  /\ Goto(p, "leave")
  /\ UNCHANGED <<lock, now, req, plan, broken, Bounds>>

(* The finally clause unlinks the lock file, whoever's it is by now, and   *)
(* the operation returns or raises.                                        *)
Leave(p) ==
  /\ pc[p] = "leave"
  /\ lock' = None
  /\ Goto(p, "idle")
  /\ req' = [req EXCEPT ![p] = None]
  /\ plan' = [plan EXCEPT ![p] = {}]
  /\ UNCHANGED <<ledger, now, History, Bounds>>

(* The process dies; a lock file it holds stays.  Bounded so that there is *)
(* time left to see that lock go stale.                                    *)
Crash(p) ==
  /\ pc[p] # "idle"
  /\ crashes < MaxCrashes
  /\ now + StaleAfter < MaxTime
  /\ crashes' = crashes + 1
  /\ Goto(p, "idle")
  /\ req' = [req EXCEPT ![p] = None]
  /\ plan' = [plan EXCEPT ![p] = {}]
  /\ UNCHANGED <<Files, now, History, requests>>

Tick ==
  /\ now < MaxTime
  /\ now' = now + 1
  /\ UNCHANGED <<Files, pc, req, plan, History, Bounds>>

Step(p) ==
  TakeLock(p) \/ JudgeStale(p) \/ Break(p) \/ Read(p) \/ Write(p) \/ Leave(p)

Next ==
  \/ \E p \in Procs, r \in Requests : Request(p, r)
  \/ \E p \in Procs : Step(p)
  \/ \E p \in Procs : Crash(p)
  \/ Tick

Spec == Init /\ [][Next]_vars

(* A living process goes on and the clock runs. *)
FairSpec == Spec /\ WF_vars(Tick) /\ \A p \in Procs : WF_vars(Step(p))

-----------------------------------------------------------------------------
(* Two owners are never both given the same path for the same moment, by   *)
(* however many processes and over any crash, unless a lock was removed    *)
(* under a process that still used it.                                     *)
GrantsExclusive ==
  \A c, d \in granted :
    c.path = d.path /\ c.expires > now /\ d.expires > now => c.owner = d.owner
ExclusiveUnlessBroken == broken \/ GrantsExclusive

(* No operation of another process loses a claim that was granted, has     *)
(* time left and was not given back (with the same proviso).               *)
GrantsKeptUnlessBroken ==
  broken \/ \A c \in granted : c.expires > now => c \in ledger

(* The only way two operations overlap is a stale-lock break that removes  *)
(* a living process's lock: a lock left by a dead process, the restart of  *)
(* that process and any number of waiters do not by themselves.            *)
OneInsideUnlessBroken ==
  broken \/ \A p, q \in Procs : pc[p] \in Inside /\ pc[q] \in Inside => p = q

(* Every completed operation is one step of the abstract register: nothing *)
(* in between is visible in the ledger (with the same proviso).            *)
Register == INSTANCE ClaimRegister WITH held <- Live(ledger, now)
ActsAsRegister == [][broken' \/ Register!Next]_<<Live(ledger, now), now>>

(* Whoever waits for the lock gets its answer, also when the process that  *)
(* held the lock died.                                                     *)
EveryoneServed == \A p \in Procs : (pc[p] = "wait") ~> (pc[p] = "idle")
=============================================================================
