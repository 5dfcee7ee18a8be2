--------------------------- MODULE ActiveRuleSets ---------------------------
(***************************************************************************)
(* What the API server promises the ruleset watcher about the active rule  *)
(* sets of the protections.  A protection that exists has an active        *)
(* version from the start, the default one; nothing deactivates or deletes *)
(* a version, so a second active version, a clash that makes the watcher   *)
(* skip the protection, is there to stay.                                  *)
(***************************************************************************)
CONSTANTS
  Protections, RuleSets,
  None,     \* there is no such protection yet
  Clash     \* several versions are active

VARIABLE active

Init == active = [p \in Protections |-> None]

MayBecome(before, after) ==
  after = before \/ (before # Clash /\ after \in RuleSets \cup {Clash})

Change ==
  /\ active' \in [Protections -> RuleSets \cup {None, Clash}]
  /\ \A p \in Protections : MayBecome(active[p], active'[p])

Spec == Init /\ [][Change]_active
=============================================================================
