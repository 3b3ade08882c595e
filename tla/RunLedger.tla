------------------------------ MODULE RunLedger ------------------------------
(***************************************************************************)
(* What one durable run promises its callers, without files, locks or      *)
(* crashes: a snapshot that changes by whole commands, each one admitted   *)
(* by the store's checks and each idempotency key used at most once.       *)
(* Module RuntimeStore, which has the log, the checkpoint, the lock and    *)
(* the failures, implements this specification.                            *)
(***************************************************************************)
EXTENDS RunCommands

VARIABLES
  run,    \* the snapshot callers observe
  count   \* events committed so far (last_sequence)

ledgerVars == <<run, count>>

LedgerInit == run = NoRun /\ count = 0

(* A command takes effect as a whole, once per key, at some clock reading. *)
Commit(cmd, key, at) ==
  /\ run.idem[key] = None
  /\ Permits(run, cmd, at)
  /\ run' = Apply(run, EventOf(run, cmd, key, at), count + 1)
  /\ count' = count + 1

LedgerNext ==
  \E cmd \in CommandsWith(0..count), key \in Keys, at \in 0..MaxTime :
    Commit(cmd, key, at)

LedgerSpec == LedgerInit /\ [][LedgerNext]_ledgerVars
=============================================================================
