----------------------------- MODULE M2Contract -----------------------------
(***************************************************************************)
(* What verify_m2_claim promises its three callers: one verdict, the one   *)
(* the claim deserves.                                                     *)
(***************************************************************************)
CONSTANTS
  Claims,
  Verdicts(_),      (* what may be said of a claim                         *)
  Deserves(_, _),   (* what has to be said of it                           *)
  Pending

VARIABLES claim, verdict

Init == claim \in Claims /\ verdict = Pending

Decide ==
  /\ verdict = Pending
  /\ \E v \in Verdicts(claim) : Deserves(claim, v) /\ verdict' = v
  /\ UNCHANGED claim

Spec == Init /\ [][Decide]_<<claim, verdict>> /\ WF_<<claim, verdict>>(Decide)
=============================================================================
