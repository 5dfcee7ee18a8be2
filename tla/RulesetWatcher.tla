-------------------------- MODULE RulesetWatcher --------------------------
(***************************************************************************)
(* The ruleset watcher of the external processor (ModeSec).  Every three   *)
(* seconds it lists the protections, fetches the active rule set of each,  *)
(* writes it to a directory named after its MD5 sum unless the directory   *)
(* has files, and has libwafie load the directories when one was written.  *)
(* Directories that are not in use are then removed.                       *)
(*                                                                         *)
(* The API server is present by the rule sets it has active, which change  *)
(* as ActiveRuleSets says.  A rule set stands for its MD5 sum and files.   *)
(* libwafie is external: loading replaces the rule sets it had by those it *)
(* is given, as the watcher passes all of them whenever one changed.       *)
(***************************************************************************)
EXTENDS Naturals, FiniteSets

CONSTANTS
  Protections, RuleSets,
  None,        \* no rule set
  Clash,       \* several versions are active
  MaxChanges,  \* bound: changes of the active rule sets
  MaxFaults    \* bound: failing calls, failing file operations, restarts

ASSUME WatcherAssumption ==
  /\ None \notin RuleSets /\ Clash \notin RuleSets /\ Clash # None
  /\ MaxChanges \in Nat /\ MaxFaults \in Nat

VARIABLES
  active,   \* active[p]: the active rule set of protection p in the API server
  disk,     \* disk[p][r]: the directory of rule set r of protection p
  loaded,   \* loaded[p]: what libwafie applies for p
  pc,
  todo,     \* listed protections not handled in this round
  config,   \* ruleSetConfigForReload, by protection
  reload,   \* reloadRequire
  firstRun,
  fetched,  \* history: fetched[p]: what p had active when last fetched
  failed,   \* history: protections for which a fetch, a file or a removal
            \* failed since they were last loaded whole
  changes, faults

vars == <<active, disk, loaded, pc, todo, config, reload, firstRun, fetched,
          failed, changes, faults>>

Directories == {"absent", "partial", "complete"}
Loadable == [rules: RuleSets, files: Directories]

ASSUME LoadableAssumption == None \notin Loadable

Nothing == [p \in Protections |-> None]
EmptyDisk == [p \in Protections |-> [r \in RuleSets |-> "absent"]]

Init ==
  /\ active \in [Protections -> RuleSets \cup {None, Clash}]
  /\ disk = EmptyDisk /\ loaded = Nothing
  /\ pc = "wait" /\ todo = {} /\ config = Nothing
  /\ reload = FALSE /\ firstRun = TRUE
  /\ fetched = Nothing /\ failed = {}
  /\ changes = 0 /\ faults = 0

Api == INSTANCE ActiveRuleSets

-----------------------------------------------------------------------------
\* A protection is created, the rules of its active version change, or change
\* back, or a second version becomes active.
Activate(p, r) ==
  /\ changes < MaxChanges /\ r # active[p] /\ Api!MayBecome(active[p], r)
  /\ active' = [active EXCEPT ![p] = r]
  /\ changes' = changes + 1
  /\ UNCHANGED <<disk, loaded, pc, todo, config, reload, firstRun, fetched,
                 failed, faults>>

\* The ticker fires; a list that fails counts as empty.
listProtections ==
  /\ pc = "wait"
  /\ \/ todo' = Protections /\ UNCHANGED faults
     \/ todo' = {} /\ faults < MaxFaults /\ faults' = faults + 1
  /\ pc' = "protections"
  /\ config' = Nothing /\ reload' = FALSE
  /\ UNCHANGED <<active, disk, loaded, firstRun, fetched, failed, changes>>

\* getProtectionRules fails, and the protection is left out of this round.
getProtectionRulesFails(p) ==
  /\ pc = "protections" /\ p \in todo /\ faults < MaxFaults
  /\ todo' = todo \ {p}
  /\ failed' = failed \cup {p}
  /\ faults' = faults + 1
  /\ UNCHANGED <<active, disk, loaded, pc, config, reload, firstRun, fetched,
                 changes>>

Whole(p, r) == r # None /\ disk[p][r] = "complete"

shouldWrite(p, r) == disk[p][r] = "absent"

\* A protection that has not exactly one active version is left out.
NoActiveRuleSet(p) ==
  /\ pc = "protections" /\ p \in todo /\ active[p] \notin RuleSets
  /\ todo' = todo \ {p}
  /\ fetched' = [fetched EXCEPT ![p] = active[p]]
  /\ UNCHANGED <<active, disk, loaded, pc, config, reload, firstRun, failed,
                 changes, faults>>

\* Mutant: rules are fetched once and then taken from a cache.
writeRulesCached(p) ==
  LET r == IF fetched[p] \in RuleSets THEN fetched[p] ELSE active[p]
  IN /\ pc = "protections" /\ p \in todo /\ r \in RuleSets
     /\ disk' = [disk EXCEPT ![p][r] = IF shouldWrite(p, r) THEN "complete" ELSE @]
     /\ reload' = (reload \/ shouldWrite(p, r))
     /\ config' = [config EXCEPT ![p] = r]
     /\ todo' = todo \ {p}
     /\ fetched' = [fetched EXCEPT ![p] = r]
     /\ UNCHANGED <<active, loaded, pc, firstRun, failed, changes, faults>>

\* Mutant: only protections whose rules were written are loaded.
writeRulesChangedOnly(p) ==
  LET r == active[p]
  IN /\ pc = "protections" /\ p \in todo /\ r \in RuleSets
     /\ disk' = [disk EXCEPT ![p][r] = IF shouldWrite(p, r) THEN "complete" ELSE @]
     /\ reload' = (reload \/ shouldWrite(p, r))
     /\ config' = IF shouldWrite(p, r) THEN [config EXCEPT ![p] = r] ELSE config
     /\ todo' = todo \ {p}
     /\ fetched' = [fetched EXCEPT ![p] = r]
     /\ UNCHANGED <<active, loaded, pc, firstRun, failed, changes, faults>>

\* getProtectionRules and writeRules.
writeRules(p) ==
  LET r == active[p]
  IN /\ pc = "protections" /\ p \in todo /\ r \in RuleSets
     /\ disk' = [disk EXCEPT ![p][r] = IF shouldWrite(p, r) THEN "complete" ELSE @]
     /\ reload' = (reload \/ shouldWrite(p, r))
     /\ config' = [config EXCEPT ![p] = r]
     /\ todo' = todo \ {p}
     /\ fetched' = [fetched EXCEPT ![p] = r]
     /\ UNCHANGED <<active, loaded, pc, firstRun, failed, changes, faults>>

\* A file cannot be written: the directory keeps what was written before,
\* and is part of the configuration all the same.
writeRulesFails(p) ==
  LET r == active[p]
  IN /\ pc = "protections" /\ p \in todo /\ r \in RuleSets
     /\ shouldWrite(p, r) /\ faults < MaxFaults
     /\ \E left \in {"absent", "partial"} : disk' = [disk EXCEPT ![p][r] = left]
     /\ config' = [config EXCEPT ![p] = r]
     /\ todo' = todo \ {p}
     /\ fetched' = [fetched EXCEPT ![p] = r]
     /\ failed' = failed \cup {p}
     /\ faults' = faults + 1
     /\ UNCHANGED <<active, loaded, pc, reload, firstRun, changes>>

\* Mutant: the rule sets in use are swept away with the others.
cleanupRulesAll(kept) ==
  [p \in Protections |-> [r \in RuleSets |->
     IF config[p] = None \/ r \in kept[p] THEN disk[p][r] ELSE "absent"]]

\* cleanupRules; kept are directories that cannot be removed.
cleanupRules(kept) ==
  [p \in Protections |-> [r \in RuleSets |->
     IF config[p] \in {None, r} \/ r \in kept[p] THEN disk[p][r] ELSE "absent"]]

\* wafie_load_rule_sets, which reads what the directories hold.
wafie_load_rule_sets ==
  [p \in Protections |->
     IF config[p] = None THEN None
     ELSE [rules |-> config[p], files |-> disk[p][config[p]]]]

\* The end of a round.  reloadCRSRules and cleanupRules do nothing with an
\* empty configuration.
reloadCRSRules ==
  /\ pc = "protections" /\ todo = {}
  /\ pc' = "wait"
  /\ IF reload \/ firstRun
     THEN /\ firstRun' = FALSE
          /\ loaded' = IF config = Nothing THEN loaded ELSE wafie_load_rule_sets
          /\ \E kept \in [Protections -> SUBSET RuleSets] :
               /\ \A p \in Protections : \A r \in kept[p] :
                    disk[p][r] # "absent" /\ config[p] \notin {None, r}
               /\ kept = [p \in Protections |-> {}] \/ faults < MaxFaults
               /\ disk' = cleanupRules(kept)
               /\ faults' = IF \E p \in Protections : kept[p] # {} THEN faults + 1
                            ELSE faults
               /\ failed' = {p \in Protections :
                               \/ kept[p] # {}
                               \/ p \in failed /\ ~Whole(p, config[p])}
     ELSE UNCHANGED <<firstRun, loaded, disk, faults, failed>>
  /\ UNCHANGED <<active, todo, config, reload, fetched, changes>>

\* The container starts anew.  /rules is not on a volume.
NewModSec ==
  /\ faults < MaxFaults
  /\ disk' = EmptyDisk /\ loaded' = Nothing
  /\ pc' = "wait" /\ todo' = {} /\ config' = Nothing
  /\ reload' = FALSE /\ firstRun' = TRUE
  /\ fetched' = Nothing /\ failed' = {}
  /\ faults' = faults + 1
  /\ UNCHANGED <<active, changes>>

-----------------------------------------------------------------------------
Watcher ==
  \/ listProtections
  \/ \E p \in Protections : NoActiveRuleSet(p) \/ writeRules(p)
  \/ reloadCRSRules

Next ==
  \/ \E p \in Protections, r \in RuleSets \cup {Clash} : Activate(p, r)
  \/ Watcher
  \/ \E p \in Protections : getProtectionRulesFails(p) \/ writeRulesFails(p)
  \/ NewModSec

Spec == Init /\ [][Next]_vars

\* The ticker keeps firing.
FairSpec == Spec /\ WF_vars(Watcher)

-----------------------------------------------------------------------------
(* What the watcher must provide.                                          *)

\* The watcher's state is well formed; its configuration has protections
\* handled in this round only.
TypeOK ==
  /\ active \in [Protections -> RuleSets \cup {None, Clash}]
  /\ disk \in [Protections -> [RuleSets -> Directories]]
  /\ loaded \in [Protections -> Loadable \cup {None}]
  /\ pc \in {"wait", "protections"} /\ todo \subseteq Protections
  /\ config \in [Protections -> RuleSets \cup {None}]
  /\ \A p \in todo : config[p] = None
  /\ reload \in BOOLEAN /\ firstRun \in BOOLEAN
  /\ fetched \in [Protections -> RuleSets \cup {None, Clash}]
  /\ failed \subseteq Protections
  /\ changes \in 0..MaxChanges /\ faults \in 0..MaxFaults

Applies(p, r) == loaded[p] = [rules |-> r, files |-> "complete"]

\* Between two rounds libwafie applies to every protection the rule set the
\* watcher fetched last, whole, unless something failed for the protection.
LoadedIsFetched ==
  pc = "wait"
    => \A p \in Protections \ failed :
         fetched[p] \in RuleSets => Applies(p, fetched[p])

\* cleanupRules spares what is in use: the directory of a rule set that is
\* applied whole stays whole.
LoadedStaysOnDisk ==
  \A p \in Protections :
    loaded[p] # None /\ loaded[p].files = "complete"
      => Whole(p, loaded[p].rules)

\* In the end every protection has its active rule set applied, unless
\* something failed for it.
RuleSetsConverge ==
  <>[](\A p \in Protections \ failed :
         active[p] \in RuleSets => Applies(p, active[p]))

\* The inductive strengthening.  What is on disk for a protection is what is
\* applied to it, or, once it was handled in this round, what is about to be.
\* A protection found with several active versions is out for good.
Synced(p) ==
  \/ fetched[p] = Clash
  \/ /\ \A r \in RuleSets : disk[p][r] # "absent" => Applies(p, r)
     /\ IF fetched[p] = None THEN loaded[p] = None ELSE Applies(p, fetched[p])

LeftOut(p) ==
  /\ config[p] = None /\ Synced(p)
  /\ fetched[p] \notin RuleSets \/ (config = Nothing /\ todo = {})

Prepared(p) ==
  /\ config[p] # None /\ Whole(p, config[p])
  /\ reload = TRUE \/ firstRun = TRUE \/ Synced(p)

RoundInv ==
  \A p \in Protections \ failed :
    IF pc = "wait" \/ p \in todo THEN Synced(p) ELSE LeftOut(p) \/ Prepared(p)

FetchedInv ==
  \A p \in Protections : /\ active[p] = None => fetched[p] = None
                         /\ fetched[p] = Clash => active[p] = Clash
                         /\ config[p] \in {None, fetched[p]}

IInv == TypeOK /\ LoadedStaysOnDisk /\ FetchedInv /\ RoundInv
=============================================================================
