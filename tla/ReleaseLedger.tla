---------------------------- MODULE ReleaseLedger ----------------------------
(***************************************************************************)
(* What coordinated releases promise, without queues, containers or        *)
(* images: one release is attempted at a time, its outcome is final, only  *)
(* a release that serves becomes current, and once there is a current      *)
(* release the project never stops being served.                           *)
(***************************************************************************)
CONSTANTS Releases, None

VARIABLES
  phase,    \* "none", "waiting", "trying", "succeeded" or "failed", by release
  cur,      \* the project's current release
  serving   \* the releases all of whose runtime services are up and routed

ledgerVars == <<phase, cur, serving>>

LedgerInit ==
  /\ phase = [r \in Releases |-> "none"]
  /\ cur = None
  /\ serving = {}

Move(r, from, to) == /\ phase[r] = from
                     /\ phase' = [phase EXCEPT ![r] = to]

Submit(r) == Move(r, "none", "waiting") /\ UNCHANGED <<cur, serving>>

\* The queue refused it.
Refuse(r) == Move(r, "waiting", "failed") /\ UNCHANGED <<cur, serving>>

Attempt(r) ==
  /\ \A q \in Releases : phase[q] # "trying"
  /\ Move(r, "waiting", "trying")
  /\ UNCHANGED <<cur, serving>>

\* The candidate set of the attempted release is complete.
ComeUp(r) ==
  /\ phase[r] = "trying" /\ r \notin serving
  /\ serving' = serving \cup {r}
  /\ UNCHANGED <<phase, cur>>

\* A release leaves service only when another one stays, or nothing was ever live.
GoDown(r) ==
  /\ r \in serving
  /\ cur # None => serving \ {r} # {}
  /\ serving' = serving \ {r}
  /\ UNCHANGED <<phase, cur>>

Succeed(r) ==
  /\ r \in serving
  /\ Move(r, "trying", "succeeded")
  /\ cur' = r
  /\ UNCHANGED serving

Fail(r) == Move(r, "trying", "failed") /\ UNCHANGED <<cur, serving>>

LedgerNext ==
  \E r \in Releases : \/ Submit(r) \/ Refuse(r) \/ Attempt(r) \/ ComeUp(r)
                      \/ GoDown(r) \/ Succeed(r) \/ Fail(r)

LedgerSpec == LedgerInit /\ [][LedgerNext]_ledgerVars
=============================================================================
