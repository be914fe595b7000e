------------------------- MODULE ConsumerLifecycle -------------------------
(***************************************************************************)
(* What the provider promises of one onboarded consumer, whatever races,   *)
(* retries, failed calls and restarts happen on the way: it is created     *)
(* disabled, enabled once, configured by the controller only after that,   *)
(* and once it is on its way out it never comes back.                      *)
(***************************************************************************)
CONSTANT UIDs

VARIABLE phase    \* the phase of every consumer that ever exists, by UID

Phases == {"none", "pending", "enabled", "configured", "deleting", "gone"}

(* The phases one step may lead to.  A resource without finalizers may be  *)
(* gone at once, so "deleting" may be skipped.                             *)
Successors(p) ==
  CASE p = "none"       -> {"pending"}
    [] p = "pending"    -> {"enabled", "deleting", "gone"}
    [] p = "enabled"    -> {"configured", "deleting", "gone"}
    [] p = "configured" -> {"deleting", "gone"}
    [] p = "deleting"   -> {"gone"}
    [] OTHER            -> {}

Init == phase = [u \in UIDs |-> "none"]

Advance(u) ==
  /\ phase'[u] \in Successors(phase[u])
  /\ phase' = [phase EXCEPT ![u] = phase'[u]]

Next == \E u \in UIDs : Advance(u)

Spec == Init /\ [][Next]_phase
=============================================================================
