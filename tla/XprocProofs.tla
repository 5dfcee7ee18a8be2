---------------------------- MODULE XprocProofs ----------------------------
(***************************************************************************)
(* Proofs about the two parts of the process xproc: the ruleset watcher    *)
(* (RulesetWatcher), for every number of protections, rule sets, changes   *)
(* and failures, and the external processor (Processor), for any number of *)
(* streams and crashes.  Their states are disjoint.                        *)
(***************************************************************************)
EXTENDS RulesetWatcher, Processor, TLAPS

-----------------------------------------------------------------------------
(* The ruleset watcher.                                                    *)

USE DEF Directories, Loadable

\* NewModSec: the container begins with a well-formed, synchronized state.
LEMMA InitIInv == Init => IInv
<1> SUFFICES ASSUME Init PROVE IInv
  OBVIOUS
<1>b. reload \in BOOLEAN /\ firstRun \in BOOLEAN
  BY Zenon DEF Init
<1>1. TypeOK
  BY <1>b, WatcherAssumption DEF Init, TypeOK, Nothing, EmptyDisk
<1>2. LoadedStaysOnDisk
  BY DEF Init, LoadedStaysOnDisk, Nothing
<1>3. RoundInv
  BY WatcherAssumption DEF Init, RoundInv, Synced, Nothing, EmptyDisk
<1>4. FetchedInv
  BY WatcherAssumption DEF Init, FetchedInv, Nothing
<1> QED BY <1>1, <1>2, <1>3, <1>4 DEF IInv

\* Every step of the watcher and around it keeps the types.
LEMMA TypeNext == TypeOK /\ [Next]_vars => TypeOK'
<1> SUFFICES ASSUME TypeOK, [Next]_vars PROVE TypeOK'
  OBVIOUS
<1> USE WatcherAssumption DEF TypeOK, Nothing, EmptyDisk
<1>1. ASSUME NEW p \in Protections, NEW r \in RuleSets \cup {Clash}, Activate(p, r)
      PROVE TypeOK'
  BY <1>1 DEF Activate
<1>2. CASE listProtections
  <2>1. reload' \in BOOLEAN /\ firstRun' \in BOOLEAN
    BY <1>2, Zenon DEF listProtections
  <2> QED BY <1>2, <2>1 DEF listProtections
<1>3. ASSUME NEW p \in Protections, NoActiveRuleSet(p) PROVE TypeOK'
  BY <1>3 DEF NoActiveRuleSet
<1>4. ASSUME NEW p \in Protections, writeRules(p) PROVE TypeOK'
  BY <1>4 DEF writeRules, shouldWrite
<1>5. ASSUME NEW p \in Protections, getProtectionRulesFails(p) PROVE TypeOK'
  BY <1>5 DEF getProtectionRulesFails
<1>6. ASSUME NEW p \in Protections, writeRulesFails(p) PROVE TypeOK'
  BY <1>6 DEF writeRulesFails, shouldWrite
<1>7. CASE reloadCRSRules
  <2>1. CASE reload \/ firstRun
    <3>1. loaded' \in [Protections -> Loadable \cup {None}]
      BY <1>7, <2>1 DEF reloadCRSRules, wafie_load_rule_sets
    <3>2. /\ disk' \in [Protections -> [RuleSets -> Directories]]
          /\ faults' \in 0..MaxFaults /\ failed' \subseteq Protections
      BY <1>7, <2>1 DEF reloadCRSRules, cleanupRules
    <3> QED BY Zenon, <1>7, <2>1, <3>1, <3>2 DEF reloadCRSRules
  <2>2. CASE ~(reload \/ firstRun)
    BY <1>7, <2>2 DEF reloadCRSRules
  <2> QED BY <2>1, <2>2
<1>8. CASE NewModSec
  <2>1. reload' \in BOOLEAN /\ firstRun' \in BOOLEAN
    BY <1>8, Zenon DEF NewModSec
  <2> QED BY <1>8, <2>1 DEF NewModSec
<1>9. CASE UNCHANGED vars
  BY <1>9 DEF vars
<1> QED
  BY <1>1, <1>2, <1>3, <1>4, <1>5, <1>6, <1>7, <1>8, <1>9 DEF Next, Watcher

\* cleanupRules and writeRules never touch the directory of a rule set that
\* is applied whole.
LEMMA DiskNext == TypeOK /\ LoadedStaysOnDisk /\ [Next]_vars => LoadedStaysOnDisk'
<1> SUFFICES ASSUME TypeOK, LoadedStaysOnDisk, [Next]_vars,
                    NEW q \in Protections,
                    loaded'[q] # None, loaded'[q].files = "complete"
             PROVE  /\ loaded'[q].rules # None
                    /\ disk'[q][loaded'[q].rules] = "complete"
  BY DEF LoadedStaysOnDisk, Whole
<1>t. /\ loaded[q] \in Loadable \cup {None}
      /\ disk[q] \in [RuleSets -> Directories]
      /\ config[q] \in RuleSets \cup {None}
      /\ disk \in [Protections -> [RuleSets -> Directories]]
  BY DEF TypeOK
<1>o. loaded[q] # None /\ loaded[q].files = "complete"
        => /\ loaded[q].rules # None
           /\ disk[q][loaded[q].rules] = "complete"
  BY DEF LoadedStaysOnDisk, Whole
<1> USE WatcherAssumption
<1>1. CASE UNCHANGED <<disk, loaded>>
  BY <1>1, <1>o
<1>2. ASSUME NEW p \in Protections, writeRules(p) \/ writeRulesFails(p)
      PROVE  /\ loaded'[q].rules # None
             /\ disk'[q][loaded'[q].rules] = "complete"
  <2>1. loaded' = loaded
    BY <1>2 DEF writeRules, writeRulesFails
  <2>2. disk[q][loaded[q].rules] = "complete" /\ loaded[q] \in Loadable
    BY <1>o, <1>t, <2>1
  <2>3. active[p] \in RuleSets
    BY <1>2 DEF writeRules, writeRulesFails, TypeOK
  <2>4. disk'[q][loaded[q].rules] = disk[q][loaded[q].rules]
    BY <1>2, <1>t, <2>2, <2>3 DEF writeRules, writeRulesFails, shouldWrite
  <2> QED BY <2>1, <2>2, <2>4, <1>o
<1>3. CASE reloadCRSRules /\ (reload \/ firstRun)
  <2>1. PICK kept \in [Protections -> SUBSET RuleSets] : disk' = cleanupRules(kept)
    BY <1>3 DEF reloadCRSRules
  <2>2. CASE config[q] = None
    <3>1. loaded'[q] = loaded[q]
      BY <1>3, <2>2 DEF reloadCRSRules, wafie_load_rule_sets
    <3>2. \A r \in RuleSets : disk'[q][r] = disk[q][r]
      BY <2>1, <2>2 DEF cleanupRules
    <3> QED BY <3>1, <3>2, <1>o, <1>t
  <2>3. CASE config[q] # None
    <3>1. loaded'[q] = [rules |-> config[q], files |-> disk[q][config[q]]]
      BY <1>3, <2>3 DEF reloadCRSRules, wafie_load_rule_sets, Nothing
    <3>2. disk'[q][config[q]] = disk[q][config[q]]
      BY <2>1, <2>3, <1>t DEF cleanupRules
    <3> QED BY <3>1, <3>2, <2>3
  <2> QED BY <2>2, <2>3
<1>4. CASE NewModSec
  BY <1>4 DEF NewModSec, Nothing
<1> QED
  BY Zenon, <1>1, <1>2, <1>3, <1>4
  DEF Next, Watcher, Activate, listProtections, NoActiveRuleSet,
      getProtectionRulesFails, reloadCRSRules, vars

\* What is about to be loaded for a protection is what was fetched, which
\* was active and is never withdrawn.
LEMMA FetchedNext == TypeOK /\ FetchedInv /\ [Next]_vars => FetchedInv'
<1> SUFFICES ASSUME TypeOK, FetchedInv, [Next]_vars,
                    NEW q \in Protections
             PROVE  /\ active'[q] = None => fetched'[q] = None
                    /\ fetched'[q] = Clash => active'[q] = Clash
                    /\ config'[q] \in {None, fetched'[q]}
  BY DEF FetchedInv
<1> QED
  BY WatcherAssumption
  DEF TypeOK, FetchedInv, Next, Watcher, Activate, listProtections,
      NoActiveRuleSet, writeRules, getProtectionRulesFails, writeRulesFails,
      reloadCRSRules, NewModSec, Nothing, vars, Api!MayBecome

\* A protection for which nothing failed stays synchronized through a round.
LEMMA RoundNext == IInv /\ [Next]_vars => RoundInv'
<1> DEFINE Fine(q) == IF pc = "wait" \/ q \in todo THEN Synced(q)
                      ELSE LeftOut(q) \/ Prepared(q)
<1> SUFFICES ASSUME IInv, [Next]_vars, NEW q \in Protections, q \notin failed'
             PROVE  Fine(q)'
  BY DEF RoundInv
<1>f. q \notin failed => Fine(q)
  BY DEF IInv, RoundInv
<1>t. /\ loaded \in [Protections -> Loadable \cup {None}]
      /\ disk \in [Protections -> [RuleSets -> Directories]]
      /\ config \in [Protections -> RuleSets \cup {None}]
      /\ fetched \in [Protections -> RuleSets \cup {None, Clash}]
      /\ active \in [Protections -> RuleSets \cup {None, Clash}]
      /\ pc \in {"wait", "protections"} /\ todo \subseteq Protections
      /\ \A p \in todo : config[p] = None
  BY DEF IInv, TypeOK
<1> USE WatcherAssumption, LoadableAssumption
<1>1. ASSUME NEW p \in Protections, NEW r \in RuleSets \cup {Clash}, Activate(p, r)
      PROVE Fine(q)'
  BY <1>1, <1>f DEF Activate, Synced, LeftOut, Prepared, Applies, Whole, Nothing
<1>2. CASE listProtections
  BY <1>2, <1>f, <1>t
  DEF listProtections, Synced, LeftOut, Applies, Nothing
<1>3. ASSUME NEW p \in Protections, NoActiveRuleSet(p) PROVE Fine(q)'
  <2>1. CASE active[p] = Clash /\ p = q
    BY <1>3, <1>t, <2>1 DEF NoActiveRuleSet, LeftOut, Synced
  <2>2. CASE active[p] = None /\ p = q
    <3>1. fetched[p] = None
      BY <2>2 DEF IInv, FetchedInv
    <3> QED
      BY <1>3, <1>f, <1>t, <2>2, <3>1 DEF NoActiveRuleSet, Synced, LeftOut, Applies
  <2>3. CASE p # q
    BY <1>3, <1>f, <1>t, <2>3
    DEF NoActiveRuleSet, Synced, LeftOut, Prepared, Applies, Whole, Nothing
  <2> QED BY <1>3, <1>t, <2>1, <2>2, <2>3 DEF NoActiveRuleSet
<1>4. ASSUME NEW p \in Protections, writeRules(p) PROVE Fine(q)'
  <2>1. CASE p = q
    <3>1. Synced(q) /\ active[q] \in RuleSets /\ fetched[q] # Clash
      BY <1>4, <1>f, <1>t, <2>1 DEF writeRules, IInv, FetchedInv
    <3>2. disk[q][active[q]] # "absent" => Whole(q, active[q])
      <4>1. SUFFICES ASSUME disk[q][active[q]] # "absent"
                     PROVE  Whole(q, active[q])
        OBVIOUS
      <4>2. loaded[q] = [rules |-> active[q], files |-> "complete"]
        BY <3>1, <4>1 DEF Synced, Applies
      <4>3. loaded[q] # None /\ loaded[q].files = "complete"
            /\ loaded[q].rules = active[q]
        BY <3>1, <4>2
      <4> QED BY <4>3 DEF IInv, LoadedStaysOnDisk
    <3>3. /\ config'[q] = active[q] /\ fetched'[q] = active[q]
          /\ disk'[q][active[q]] = "complete"
      BY <1>4, <1>t, <2>1, <3>1, <3>2 DEF writeRules, shouldWrite, Whole
    <3>4. CASE shouldWrite(q, active[q])
      BY Zenon, <1>4, <1>t, <2>1, <3>1, <3>3, <3>4 DEF writeRules, Prepared, Whole
    <3>5. CASE ~shouldWrite(q, active[q])
      <4>1. disk' = disk
        BY <1>4, <1>t, <2>1, <3>5 DEF writeRules
      <4>2. Synced(q)'
        BY <1>4, <2>1, <3>1, <3>3, <3>5, <4>1
        DEF writeRules, shouldWrite, Synced, Applies
      <4> QED BY <1>4, <2>1, <3>1, <3>3, <4>2 DEF writeRules, Prepared, Whole
    <3> QED BY <3>4, <3>5
  <2>2. CASE p # q
    <3>1. /\ q \notin failed /\ (q \in todo' <=> q \in todo) /\ todo # {}
          /\ pc' = pc /\ pc # "wait" /\ loaded' = loaded /\ firstRun' = firstRun
          /\ disk'[q] = disk[q] /\ fetched'[q] = fetched[q]
          /\ config'[q] = config[q] /\ (reload = TRUE => reload' = TRUE)
      BY Zenon, <1>4, <1>t, <2>2 DEF writeRules
    <3> QED
      BY <3>1, <1>f DEF Synced, LeftOut, Prepared, Applies, Whole
  <2> QED BY <2>1, <2>2
<1>5. ASSUME NEW p \in Protections, getProtectionRulesFails(p) PROVE Fine(q)'
  BY <1>5, <1>f, <1>t
  DEF getProtectionRulesFails, Synced, LeftOut, Prepared, Applies, Whole, Nothing
<1>6. ASSUME NEW p \in Protections, writeRulesFails(p) PROVE Fine(q)'
  <2>1. /\ q # p /\ q \notin failed /\ (q \in todo' <=> q \in todo) /\ todo # {}
        /\ pc' = pc /\ pc # "wait" /\ loaded' = loaded /\ firstRun' = firstRun
        /\ disk'[q] = disk[q] /\ fetched'[q] = fetched[q]
        /\ config'[q] = config[q] /\ reload' = reload
    BY <1>6, <1>t DEF writeRulesFails
  <2> QED
    BY <2>1, <1>f DEF Synced, LeftOut, Prepared, Applies, Whole
<1>7. CASE reloadCRSRules /\ (reload \/ firstRun)
  <2>1. PICK kept \in [Protections -> SUBSET RuleSets] :
           /\ disk' = cleanupRules(kept)
           /\ failed' = {p \in Protections :
                           \/ kept[p] # {}
                           \/ p \in failed /\ ~Whole(p, config[p])}
    BY <1>7 DEF reloadCRSRules
  <2>2. kept[q] = {} /\ (q \in failed => Whole(q, config[q]))
    BY <2>1
  <2>3. pc' = "wait" /\ fetched' = fetched /\ pc # "wait" /\ todo = {}
    BY <1>7 DEF reloadCRSRules
  <2>4. CASE config[q] = None
    <3>1. q \notin failed
      BY <2>2, <2>4 DEF Whole
    <3>2. Synced(q) /\ (fetched[q] \notin RuleSets \/ config = Nothing)
      BY <3>1, <1>f, <2>3, <2>4 DEF LeftOut, Prepared
    <3>3. fetched[q] = Clash \/ loaded'[q] = loaded[q]
      BY <1>7, <1>t, <2>4, <3>2 DEF reloadCRSRules, wafie_load_rule_sets, Synced
    <3>4. \A r \in RuleSets : disk'[q][r] = disk[q][r]
      BY <2>1, <2>4 DEF cleanupRules
    <3> QED BY <2>3, <3>2, <3>3, <3>4 DEF Synced, Applies
  <2>5. CASE config[q] # None
    <3>1. loaded'[q] = [rules |-> config[q], files |-> disk[q][config[q]]]
      BY <1>7, <2>5 DEF reloadCRSRules, wafie_load_rule_sets, Nothing
    <3>2. Whole(q, config[q]) /\ config[q] = fetched[q]
      BY <1>f, <2>2, <2>3, <2>5 DEF LeftOut, Prepared, IInv, FetchedInv
    <3>3. \A r \in RuleSets : disk'[q][r] # "absent" => r = config[q]
      BY <2>1, <2>2, <2>5 DEF cleanupRules
    <3> QED BY <2>3, <2>5, <3>1, <3>2, <3>3 DEF Synced, Applies, Whole
  <2> QED BY <2>4, <2>5
<1>8. CASE reloadCRSRules /\ ~(reload \/ firstRun)
  BY <1>8, <1>f
  DEF reloadCRSRules, Synced, LeftOut, Prepared, Applies, IInv
<1>9. CASE NewModSec
  BY <1>9 DEF NewModSec, Synced, Nothing, EmptyDisk
<1>10. CASE UNCHANGED vars
  BY <1>10, <1>f
  DEF vars, Synced, LeftOut, Prepared, Applies, Whole, Nothing
<1> QED
  BY <1>1, <1>2, <1>3, <1>4, <1>5, <1>6, <1>7, <1>8, <1>9, <1>10 DEF Next, Watcher

(* IInv holds in every state of every behaviour.                           *)
LEMMA Invariant == Spec => []IInv
<1>1. IInv /\ [Next]_vars => IInv'
  BY TypeNext, DiskNext, FetchedNext, RoundNext DEF IInv
<1> QED BY InitIInv, <1>1, PTL DEF Spec

\* The watcher's state is always well formed, whatever fails.
THEOREM TypeCorrect == Spec => []TypeOK
<1>1. IInv => TypeOK
  BY DEF IInv
<1> QED BY Invariant, <1>1, PTL

\* runRulesetWatcher: between two rounds every protection for which nothing
\* failed has the rule set applied that was fetched for it last, whole.
THEOREM Applied == Spec => []LoadedIsFetched
<1>1. IInv => LoadedIsFetched
  BY WatcherAssumption DEF IInv, RoundInv, Synced, LoadedIsFetched
<1> QED BY Invariant, <1>1, PTL

\* cleanupRules: no step takes away the files of a rule set that is applied.
THEOREM InUseKept == Spec => []LoadedStaysOnDisk
<1>1. IInv => LoadedStaysOnDisk
  BY DEF IInv
<1> QED BY Invariant, <1>1, PTL

-----------------------------------------------------------------------------
(* The external processor.                                                 *)

\* IInv of one stream, without the types.
StreamOK(s) ==
  /\ InUse(s) => Matching(s) /\ LetPass(s)
  /\ envoy[s] = "answered" => toProcessor[s] = "nothing"
  /\ envoy[s] \in {"upstream", "responseHeaders", "answered"}
       => /\ "requestHeaders" \in evaluated[s]
          /\ body[s] => "requestBody" \in evaluated[s]
          /\ intervened[s] \subseteq {"responseHeaders"}
  /\ envoy[s] = "answered"
       => "responseHeaders" \in evaluated[s] /\ intervened[s] = {}

\* IInv is the type invariant and StreamOK of every stream,
LEMMA StreamsSplit == ProcInv <=> ProcTypeOK /\ \A s \in Streams : StreamOK(s)
  BY DEF ProcInv, StreamInv, NothingPassesUnevaluated, StreamOK

\* in the next state too.
LEMMA StreamsSplitNext == ProcTypeOK' /\ (\A s \in Streams : StreamOK(s)') => ProcInv'
  BY DEF ProcInv, StreamInv, NothingPassesUnevaluated, StreamOK

\* It holds before a request came in.
LEMMA StreamsInit == ProcInit => ProcInv
<1> SUFFICES ASSUME ProcInit PROVE ProcTypeOK /\ \A s \in Streams : StreamOK(s)
  BY StreamsSplit
<1>1. ProcTypeOK
  <2>1. /\ up \in BOOLEAN /\ cacheWrite \in BOOLEAN
        /\ body \in [Streams -> BOOLEAN] /\ closed \in [Streams -> BOOLEAN]
    BY Zenon DEF ProcInit
  <2> QED BY <2>1, ProcessorAssumption DEF ProcInit, ProcTypeOK, Phases
<1>2. \A s \in Streams : StreamOK(s)
  BY Zenon
  DEF ProcInit, StreamOK, InUse, Matching, LetPass, AtWork, Phases
<1> QED BY <1>1, <1>2

\* The steps of Process leave a stream that is fine fine.
LEMMA ProcessStep ==
  ASSUME ProcInv, NEW s \in Streams, Process(s)
  PROVE  ProcInv'
<1>0. ProcTypeOK /\ \A t \in Streams : StreamOK(t)
  BY StreamsSplit
<1>1. ASSUME NEW phase \in Phases, NEW hit \in BOOLEAN, Evaluate(s, phase, hit)
      PROVE  ProcTypeOK' /\ \A t \in Streams : StreamOK(t)'
  <2>1. ProcTypeOK'
    BY <1>0, <1>1 DEF ProcTypeOK, Evaluate, Phases
  <2>2. ASSUME NEW t \in Streams PROVE StreamOK(t)'
    <3>1. CASE t # s
      BY <1>0, <1>1, <3>1
      DEF ProcTypeOK, Evaluate, StreamOK, InUse, Matching, LetPass,
          AtWork
    <3>2. CASE t = s
      BY <1>0, <1>1, <3>2
      DEF ProcTypeOK, Evaluate, StreamOK, InUse, Matching, LetPass,
          AtWork, Phases
    <3> QED BY <3>1, <3>2
  <2> QED BY <2>1, <2>2
<1>2. CASE EnrichWithInterventionContext(s)
  <2>1. ProcTypeOK'
    BY <1>0, <1>2 DEF ProcTypeOK, EnrichWithInterventionContext, Phases
  <2>2. ASSUME NEW t \in Streams PROVE StreamOK(t)'
    BY <1>0, <1>2
    DEF ProcTypeOK, EnrichWithInterventionContext, StreamOK, InUse,
        Matching, LetPass, AtWork
  <2> QED BY <2>1, <2>2, StreamsSplitNext
<1>3. CASE Send(s)
  <2>1. ProcTypeOK'
    BY <1>0, <1>3 DEF ProcTypeOK, Send, Return, Phases
  <2>2. ASSUME NEW t \in Streams PROVE StreamOK(t)'
    BY <1>0, <1>3
    DEF ProcTypeOK, Send, Return, StreamOK, InUse, Matching, LetPass,
        AtWork
  <2> QED BY <2>1, <2>2, StreamsSplitNext
<1>4. CASE RecvEnd(s)
  <2>1. ProcTypeOK'
    BY <1>0, <1>4 DEF ProcTypeOK, RecvEnd, Return, Phases
  <2>2. ASSUME NEW t \in Streams PROVE StreamOK(t)'
    BY <1>0, <1>4
    DEF ProcTypeOK, RecvEnd, Return, StreamOK, InUse, Matching, LetPass,
        AtWork
  <2> QED BY <2>1, <2>2, StreamsSplitNext
<1> QED BY <1>1, <1>2, <1>3, <1>4, StreamsSplitNext DEF Process

\* So do the steps of Envoy.
LEMMA EnvoyStep ==
  ASSUME ProcInv, NEW s \in Streams,
         Open(s) \/ Envoy(s) \/ MessageTimeout(s) \/ Cancel(s)
  PROVE  ProcInv'
<1>0. ProcTypeOK /\ \A t \in Streams : StreamOK(t)
  BY StreamsSplit
<1>1. CASE Open(s)
  <2>1. ProcTypeOK'
    BY <1>0, <1>1
    DEF ProcTypeOK, Open, SendPhase, Broken, rest, Phases, StreamOK,
        InUse, Matching
  <2>2. ASSUME NEW t \in Streams PROVE StreamOK(t)'
    BY <1>0, <1>1
    DEF ProcTypeOK, Open, SendPhase, Broken, rest, StreamOK, InUse,
        Matching, LetPass, AtWork, Phases
  <2> QED BY <2>1, <2>2, StreamsSplitNext
<1>2. CASE Continue(s)
  <2>1. ProcTypeOK'
    <3>1. transaction[s] = "live"
      BY <1>0, <1>2
      DEF ProcTypeOK, Continue, StreamOK, InUse, Matching, Phases
    <3>2. closed' \in [Streams -> BOOLEAN]
      BY Zenon, <1>0, <1>2 DEF ProcTypeOK, Continue, Close
    <3> QED
      BY <1>0, <1>2, <3>1, <3>2
      DEF ProcTypeOK, Continue, SendPhase, Close, rest, Phases
  <2>2. ASSUME NEW t \in Streams PROVE StreamOK(t)'
    BY <1>0, <1>2
    DEF ProcTypeOK, Continue, SendPhase, Close, rest, StreamOK, InUse,
        Matching, LetPass, AtWork, Phases
  <2> QED BY <2>1, <2>2, StreamsSplitNext
<1>3. CASE Block(s)
  <2>1. ProcTypeOK'
    BY <1>0, <1>3 DEF ProcTypeOK, Block, Close, rest, Phases
  <2>2. ASSUME NEW t \in Streams PROVE StreamOK(t)'
    BY <1>0, <1>3
    DEF ProcTypeOK, Block, Close, rest, StreamOK, InUse, Matching,
        LetPass, AtWork, Phases
  <2> QED BY <2>1, <2>2, StreamsSplitNext
<1>4. CASE Responds(s)
  <2>1. ProcTypeOK'
    BY <1>0, <1>4
    DEF ProcTypeOK, Responds, SendPhase, rest, Phases, StreamOK, InUse,
        LetPass
  <2>2. ASSUME NEW t \in Streams PROVE StreamOK(t)'
    BY <1>0, <1>4
    DEF ProcTypeOK, Responds, SendPhase, rest, StreamOK, InUse,
        Matching, LetPass, AtWork, Phases
  <2> QED BY <2>1, <2>2, StreamsSplitNext
<1>5. CASE MessageTimeout(s)
  <2>1. ProcTypeOK'
    BY <1>0, <1>5
    DEF ProcTypeOK, MessageTimeout, Close, Broken, rest, Phases
  <2>2. ASSUME NEW t \in Streams PROVE StreamOK(t)'
    BY <1>0, <1>5
    DEF ProcTypeOK, MessageTimeout, Close, Broken, rest, StreamOK,
        InUse, Matching, LetPass, AtWork, Phases
  <2> QED BY <2>1, <2>2, StreamsSplitNext
<1>6. CASE Cancel(s)
  <2>1. ProcTypeOK'
    BY <1>0, <1>6 DEF ProcTypeOK, Cancel, Close, rest, Phases
  <2>2. ASSUME NEW t \in Streams PROVE StreamOK(t)'
    BY <1>0, <1>6
    DEF ProcTypeOK, Cancel, Close, rest, StreamOK, InUse, Matching,
        LetPass, AtWork, Phases
  <2> QED BY <2>1, <2>2, StreamsSplitNext
<1> QED BY <1>1, <1>2, <1>3, <1>4, <1>5, <1>6 DEF Envoy

\* A processor that dies leaves Envoy no stream in use but new ones.
LEMMA DiesStep == ProcInv /\ crashes < MaxCrashes /\ Dies => ProcInv'
<1> SUFFICES ASSUME ProcInv, crashes < MaxCrashes, Dies
             PROVE  ProcTypeOK' /\ \A t \in Streams : StreamOK(t)'
  BY StreamsSplitNext
<1>0. ProcTypeOK /\ \A t \in Streams : StreamOK(t)
  BY StreamsSplit
<1>1. ProcTypeOK'
  <2>1. up' \in BOOLEAN /\ cacheWrite' \in BOOLEAN
    BY Zenon DEF Dies
  <2>2. crashes' \in 0..MaxCrashes
    BY <1>0, ProcessorAssumption DEF ProcTypeOK, Dies
  <2> QED BY <1>0, <2>1, <2>2 DEF ProcTypeOK, Dies, Broken, Phases
<1>2. ASSUME NEW t \in Streams PROVE StreamOK(t)'
  BY <1>0
  DEF ProcTypeOK, Dies, Broken, StreamOK, InUse, Matching, LetPass,
      AtWork, Phases
<1> QED BY <1>1, <1>2

\* No step of Process, Envoy or the watcher violates it.
LEMMA StreamsInductive == ProcInv /\ [ProcNext]_procVars => ProcInv'
<1> SUFFICES ASSUME ProcInv, [ProcNext]_procVars PROVE ProcInv'
  OBVIOUS
<1>1. ASSUME NEW s \in Streams, Process(s) PROVE ProcInv'
  BY <1>1, ProcessStep
<1>2. ASSUME NEW s \in Streams,
             Open(s) \/ Envoy(s) \/ MessageTimeout(s) \/ Cancel(s)
      PROVE  ProcInv'
  BY <1>2, EnvoyStep
<1>3. ASSUME NEW s \in Streams, ConcurrentMapAccess(s) PROVE ProcInv'
  BY <1>3, DiesStep DEF ConcurrentMapAccess
<1>4. CASE Crash
  BY <1>4, DiesStep DEF Crash
<1>5. CASE WriteProtectionCache
  <2>0. ProcTypeOK BY DEF ProcInv
  <2>1. cacheWrite' \in BOOLEAN
    BY <1>5 DEF WriteProtectionCache
  <2>2. ProcTypeOK'
    BY <1>5, <2>0, <2>1 DEF ProcTypeOK, WriteProtectionCache
  <2>3. StreamInv' /\ NothingPassesUnevaluated'
    BY <1>5
    DEF ProcInv, WriteProtectionCache, StreamInv, NothingPassesUnevaluated,
        InUse, Matching, LetPass, AtWork
  <2> QED BY <2>2, <2>3 DEF ProcInv
<1>6. CASE Restart
  <2>1. ProcTypeOK'
    BY <1>6 DEF ProcInv, ProcTypeOK, Restart
  <2>2. StreamInv' /\ NothingPassesUnevaluated'
    BY <1>6
    DEF ProcInv, Restart, StreamInv, NothingPassesUnevaluated, InUse,
        Matching, LetPass, AtWork
  <2> QED BY <2>1, <2>2 DEF ProcInv
<1>7. CASE UNCHANGED procVars
  BY <1>7
  DEF procVars, ProcInv, ProcTypeOK, StreamInv, NothingPassesUnevaluated,
      InUse, Matching, LetPass, AtWork
<1> QED BY <1>1, <1>2, <1>3, <1>4, <1>5, <1>6, <1>7 DEF ProcNext

\* What each stream holds is always about the phase Envoy waits for.
THEOREM StreamsInvariant == ProcSpec => []ProcInv
  BY StreamsInit, StreamsInductive, PTL DEF ProcSpec

\* In every behaviour of the processor the streams are well formed, and
\* Process uses its transaction only between creation and destruction.
THEOREM StreamsTypeCorrect == ProcSpec => []ProcTypeOK
<1>1. ProcInv => ProcTypeOK BY DEF ProcInv
<1> QED BY <1>1, StreamsInvariant, PTL

\* For any number of streams, nothing passes Envoy that libmodsecurity has
\* not evaluated, whatever times out, is cancelled or crashes.
THEOREM Evaluated == ProcSpec => []NothingPassesUnevaluated
<1>1. ProcInv => NothingPassesUnevaluated BY DEF ProcInv
<1> QED BY <1>1, StreamsInvariant, PTL
=============================================================================
