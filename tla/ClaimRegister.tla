----------------------------- MODULE ClaimRegister -----------------------------
(***************************************************************************)
(* What the claim ledger promises: a register of path claims that several  *)
(* owners share, changed one whole operation at a time.  A path somebody   *)
(* else holds is never granted, a claim ends when its owner gives it back  *)
(* or its time is over, and nothing else changes the register.             *)
(*                                                                         *)
(* An abstract specification; ClaimLedger is the code.                     *)
(***************************************************************************)
EXTENDS Naturals

CONSTANTS
  Owners,
  Paths,
  Ends     \* the times a claim may be given until

VARIABLES
  held,  \* the claims that have time left
  now

Live(claims, at) == {c \in claims : c.expires > at}
Others(claims, owner, paths) ==
  {c \in claims : ~(c.owner = owner /\ c.path \in paths)}

Init == held = {} /\ now = 0

Grant(owner, paths, end) ==
  /\ \A c \in held : c.path \in paths => c.owner = owner
  /\ held' = Live(Others(held, owner, paths)
                    \cup [owner : {owner}, path : paths, expires : {end}], now)
  /\ now' = now

GiveBack(owner, paths) ==
  /\ held' = Others(held, owner, paths)
  /\ now' = now

Tick ==
  /\ now' = now + 1
  /\ held' = Live(held, now')

Next ==
  \/ \E owner \in Owners, paths \in SUBSET Paths, end \in Ends :
       Grant(owner, paths, end)
  \/ \E owner \in Owners, paths \in SUBSET Paths : GiveBack(owner, paths)
  \/ Tick

Spec == Init /\ [][Next]_<<held, now>>
=============================================================================
