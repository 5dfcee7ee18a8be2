-------------------------- MODULE VersionedConfig --------------------------
(***************************************************************************)
(* What the API server promises the pollers of GetStateVersion (the        *)
(* gateway, the relay controllers and the ruleset watcher): a view of the  *)
(* configuration and a version of it, where the view never changes under   *)
(* an unchanged version and a version that was left never comes back.      *)
(***************************************************************************)
EXTENDS Naturals

VARIABLES view, version

vars == <<view, version>>

Init == version = 0

\* The view may stay as it is: pollers then list once more than they need to.
NewVersion == version' \in Nat /\ version' > version

Next == NewVersion

Spec == Init /\ [][Next]_vars
=============================================================================
