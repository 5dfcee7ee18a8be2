----------------------- MODULE RelayControllerProofs -----------------------
(***************************************************************************)
(* Proofs about RelayController, for every set of hosts, services,         *)
(* addresses, pods and ports, any number of versions and of failures.      *)
(***************************************************************************)
EXTENDS RelayController, StoreProofs

\* The options of a container port row that has a proxy port.
LEMMA OptionsType ==
  ASSUME NEW row \in ContainerRows, row.proxy # None
  PROVE  /\ discoverRelayOptions(row) \in Options
         /\ discoverRelayOptions(row) # None
         /\ discoverRelayOptions(row).number = row.number
BY OptionsAssumption
DEF OptionsAssumption, discoverRelayOptions, Options, ContainerRows, PortRows

\* The rows of protections make a list with nothing but modes in it,
LEMMA QueryProtectionsEffect ==
  ASSUME StoreTypeOK, QueryProtections
  PROVE  /\ list' \in Lists
         /\ \A h \in Hosts : h \in Listed(list') <=> db.modes[h] # None
         /\ \A h \in Listed(list') :
              /\ list'[h].mode = db.modes[h] /\ list'[h].svc = None
              /\ list'[h].first = None /\ Keys(list'[h].eps) = {}
<1>1. list' = ProtectionRows(db, Modes)
  BY DEF QueryProtections
<1> QED BY <1>1, ProtectionRowsEffect, ProtectedMode

\* the ingresses fill in svc,
LEMMA QueryIngressesEffect ==
  ASSUME StoreTypeOK, list \in Lists, QueryIngresses
  PROVE  /\ list' \in Lists /\ Listed(list') = Listed(list)
         /\ \A h \in Listed(list) :
              /\ list'[h].mode = list[h].mode /\ list'[h].first = list[h].first
              /\ list'[h].eps = list[h].eps /\ list'[h].svc = db.ingresses[h]
<1>1. list' = WithIngresses(db, list)
  BY DEF QueryIngresses
<1> QED BY <1>1, WithIngressesEffect

\* the upstreams fill in eps.
LEMMA QueryUpstreamsEffect ==
  ASSUME StoreTypeOK, list \in Lists, QueryUpstreams
  PROVE  /\ list' \in Lists /\ Listed(list') = Listed(list)
         /\ \A h \in Listed(list) :
              /\ list'[h].mode = list[h].mode /\ list'[h].first = list[h].first
              /\ list'[h].svc = list[h].svc
              /\ list'[h].eps = IF list[h].svc = None THEN list[h].eps
                                ELSE db.endpoints[list[h].svc]
<1>1. list' = WithUpstreams(db, list)
  BY DEF QueryUpstreams
<1> QED BY <1>1, WithUpstreamsEffect

\* The ports of one host fill in rows and first.
LEMMA QueryPortsEffect ==
  ASSUME StoreTypeOK, StoreInv, list \in Lists, todo \subseteq Listed(list),
         NEW h \in Hosts, QueryPorts(h)
  PROVE  /\ list' \in Lists /\ Listed(list') = Listed(list) /\ h \in Listed(list)
         /\ \A x \in Hosts \ {h} : list'[x] = list[x]
         /\ list'[h].mode = list[h].mode /\ list'[h].svc = list[h].svc
         /\ list'[h].eps = list[h].eps
         /\ IsFirst(list'[h].first, PortsFound(db, list, h))
         /\ list'[h].first # None => list'[h].first.proxy # None
<1> DEFINE rows == PortsFound(db, list, h)
<1>1. PICK f \in rows \cup {None} :
        IsFirst(f, rows) /\ list' = WithPorts(list, h, rows, f)
  BY DEF QueryPorts
<1>2. \A r \in rows : r.proxy # None
  BY StoreAssumption DEF PortsFound, StoreInv, PortKeys, StoreAssumption
<1>3. h \in Listed(list)
  BY DEF QueryPorts
<1>4. rows = PortsFound(db, list, h)
  OBVIOUS
<1> HIDE DEF rows
<1>5. /\ list' \in Lists /\ Listed(list') = Listed(list)
      /\ \A x \in Hosts \ {h} : list'[x] = list[x]
      /\ list'[h].mode = list[h].mode /\ list'[h].svc = list[h].svc
      /\ list'[h].eps = list[h].eps /\ list'[h].first = f
  BY <1>1, <1>3, <1>4, WithPortsEffect
<1> QED BY <1>1, <1>2, <1>3, <1>4, <1>5

-----------------------------------------------------------------------------
(* What the operations do to the relay of a pod.                           *)

\* A pod that starts anew has a well formed relay.
LEMMA FreshSound == Sound(Fresh) /\ Clean(Fresh)
BY DEF Sound, Clean, Fresh, Relays

\* StopRelay leaves neither command nor rule.
LEMMA StopRelaySound ==
  ASSUME NEW s, Sound(s)
  PROVE  /\ Sound(StopRelay(s))
         /\ StopRelay(s).proc = s.proc /\ StopRelay(s).conf = s.conf
         /\ StopRelay(s).cmd = "none" /\ StopRelay(s).rule = None
         /\ StopRelay(s).socat = IF s.cmd = "running" THEN None ELSE s.socat
         /\ Clean(s) => Clean(StopRelay(s))
<1>1. s \in Relays
  BY DEF Sound
<1> DEFINE x == IF s.cmd = "running" THEN None ELSE s.socat
           t == [s EXCEPT !.cmd = "none", !.rule = None, !.socat = x]
<1>2. x \in Options \cup {None}
  BY <1>1 DEF Relays
<1>3. StopRelay(s) = t
  BY DEF StopRelay
<1> HIDE DEF x
<1>4. /\ t \in Relays /\ t.proc = s.proc /\ t.conf = s.conf /\ t.cmd = "none"
      /\ t.rule = None /\ t.socat = x
  BY Zenon, <1>1, <1>2 DEF Relays
<1> HIDE DEF t
<1> QED BY <1>3, <1>4 DEF Sound, Clean, x

\* StartRelay leaves a relay with the options it is given, running as it was
\* or to be launched.
LEMMA StartRelaySound ==
  ASSUME NEW s, Sound(s), NEW o \in Options
  PROVE  LET t == StartRelay(s, o)
         IN /\ Sound(t)
            /\ t.proc = s.proc /\ t.conf = o /\ t.cmd \in {"running", "launching"}
            /\ Clean(s) /\ s.proc = "up" => Clean(t)
<1> DEFINE c == IF s.conf \in {None, o} THEN s ELSE StopRelay(s)
           t == StartRelay(s, o)
<1>1. s \in Relays /\ o # None
  BY OptionsAssumption DEF Sound, OptionsAssumption
<1>2. Sound(c) /\ c.proc = s.proc
  BY StopRelaySound
<1>3. c.cmd = "running" => s.cmd = "running" /\ s.conf = o /\ c = s
  BY <1>1, StopRelaySound DEF Sound
<1>4. /\ c.rule \in {s.rule, None} /\ c.socat \in {s.socat, None}
      /\ c.cmd # "running" /\ s.cmd = "running" => c.rule = None /\ c.socat = None
  BY StopRelaySound
<1>5. t = [c EXCEPT !.conf = o, !.cmd = IF @ = "running" THEN @ ELSE "launching"]
  BY DEF StartRelay
<1> HIDE DEF c, t
<1>6. c \in Relays
  BY <1>2 DEF Sound
<1>7. t = [proc |-> c.proc, conf |-> o,
           cmd |-> IF c.cmd = "running" THEN "running" ELSE "launching",
           socat |-> c.socat, rule |-> c.rule]
  BY Zenon, <1>5, <1>6 DEF Relays
<1>8. /\ t \in Relays /\ t.proc = c.proc /\ t.conf = o /\ t.socat = c.socat
      /\ t.rule = c.rule
      /\ t.cmd = IF c.cmd = "running" THEN "running" ELSE "launching"
  BY <1>6, <1>7 DEF Relays
<1>9. Sound(t)
  BY <1>1, <1>2, <1>8 DEF Sound
<1>10. Clean(s) /\ s.proc = "up" => Clean(t)
  BY <1>2, <1>3, <1>4, <1>8 DEF Clean
<1> QED BY <1>2, <1>8, <1>9, <1>10 DEF t

\* A launch in a clean namespace leaves socat and rule as the options say.
LEMMA LaunchedSound ==
  ASSUME NEW s, Sound(s), s.cmd = "launching"
  PROVE  LET t == Launched(s)
         IN /\ Sound(t) /\ t.proc = s.proc /\ t.conf = s.conf
            /\ Clean(s) => Clean(t) /\ t.cmd = "running"
<1>1. s \in Relays /\ s.conf \in Options
  BY DEF Sound, Relays
<1>2. s.conf # None
  BY DEF Sound
<1>3. s.conf.number \in ContainerPorts
  BY <1>1, <1>2 DEF Options
<1> DEFINE c == IF s.socat = None THEN "running" ELSE "none"
           x == IF s.socat = None THEN s.conf ELSE s.socat
           n == IF s.rule = None THEN s.conf.number ELSE s.rule
           t == [s EXCEPT !.cmd = c, !.socat = x, !.rule = n]
<1>4. c \in {"none", "running"} /\ x \in Options /\ n \in ContainerPorts
  BY <1>1, <1>3 DEF Relays
<1>5. Launched(s) = t
  BY <1>1 DEF Launched, Relays
<1> HIDE DEF c, x, n
<1>6. /\ t \in Relays /\ t.proc = s.proc /\ t.conf = s.conf /\ t.cmd = c
      /\ t.socat = x /\ t.rule = n
  BY Zenon, <1>1, <1>4 DEF Relays
<1> HIDE DEF t
<1>7. x # None
  BY <1>4, OptionsAssumption DEF OptionsAssumption
<1> QED BY <1>2, <1>5, <1>6, <1>7 DEF Sound, Clean, c, x, n

\* A torn launch leaves some mixture, which is still well formed.
LEMMA TornSound ==
  ASSUME NEW s, Sound(s), s.cmd = "launching", NEW t \in Torn(s)
  PROVE  /\ Sound(t) /\ t.cmd = "launching"
<1>1. s \in Relays /\ s.conf \in Options
  BY DEF Sound, Relays
<1>2. s.conf.number \in ContainerPorts
  BY <1>1 DEF Options
<1>3. PICK x \in {s.socat, s.conf}, n \in {s.rule, s.conf.number} :
        t = [s EXCEPT !.socat = x, !.rule = n]
  BY DEF Torn
<1>4. t = [proc |-> s.proc, conf |-> s.conf, cmd |-> s.cmd, socat |-> x, rule |-> n]
  BY Zenon, <1>1, <1>3 DEF Relays
<1> QED BY <1>1, <1>2, <1>4 DEF Sound, Relays

\* So is what a call that meets a launch leaves.
LEMMA TornCallSound ==
  ASSUME NEW s, Sound(s), s.cmd = "launching", NEW o \in Options,
         NEW t \in TornCall(s, o)
  PROVE  Sound(t)
<1>1. s \in Relays /\ o # None
  BY OptionsAssumption DEF Sound, OptionsAssumption
<1>2. /\ Sound([s EXCEPT !.conf = o]) /\ [s EXCEPT !.conf = o].cmd = "launching"
  BY <1>1 DEF Sound, Relays
<1>3. /\ Sound([s EXCEPT !.rule = None]) /\ [s EXCEPT !.rule = None].cmd = "launching"
  BY <1>1 DEF Sound, Relays
<1>4. PICK u \in Torn(s) \cup Torn([s EXCEPT !.conf = o])
                   \cup Torn([s EXCEPT !.rule = None]) :
        t \in {u, [u EXCEPT !.conf = o], [u EXCEPT !.conf = o, !.cmd = "none"]}
  BY Zenon DEF TornCall
<1>5. Sound(u) /\ u.cmd = "launching"
  BY Zenon, <1>2, <1>3, <1>4, TornSound
<1>6. u \in Relays
  BY <1>5 DEF Sound
<1>7. Sound([u EXCEPT !.conf = o])
  BY <1>1, <1>5, <1>6 DEF Sound, Relays
<1>8. Sound([u EXCEPT !.conf = o, !.cmd = "none"])
  BY Zenon, <1>1, <1>6 DEF Sound, Relays
<1> QED BY <1>4, <1>5, <1>7, <1>8

\* A step that concerns one pod.
LEMMA OneRelay ==
  ASSUME relay \in [LocalPods -> Relays], NEW p \in LocalPods, NEW t, Sound(t),
         relay' = [relay EXCEPT ![p] = t]
  PROVE  /\ relay' \in [LocalPods -> Relays] /\ relay'[p] = t
         /\ \A q \in LocalPods \ {p} : relay'[q] = relay[q]
BY DEF Sound

-----------------------------------------------------------------------------
(* Every step keeps TypeOK, with the parts of IInv it needs.               *)

\* Only the API server writes to the store.
LEMMA StoreFrame ==
  ASSUME [Next]_vars PROVE StoreNext \/ UNCHANGED storeVars
BY Zenon DEF Next, Own, Controller, StateVersionChanged, QueryProtections, QueryIngresses,
       QueryUpstreams, QueryPorts, GotList, getRelayInstanceSpecs, StartSpec,
       runRelayBinary, StopSpec, CallMeetsLaunch, Sleep, InstanceUp, Launch,
       ListProtectionsFails, SpecFails, ProxyFails, PodRestarts, InstanceDies,
       NewController, vars, storeVars

\* The constraints of the tables.
LEMMA StoreInvNext ==
  ASSUME TypeOK, StoreInv, [Next]_vars PROVE StoreTypeOK' /\ StoreInv'
<1>1. CASE StoreNext
  BY <1>1, StatementInv DEF StoreNext, TypeOK
<1>2. CASE UNCHANGED storeVars
  BY <1>2 DEF storeVars, TypeOK, StoreTypeOK, StoreInv, ForeignKeys, PortKeys,
              FirstVersion, PortRow
<1> QED BY <1>1, <1>2, StoreFrame

\* The options the controller gives to an instance are options.
LEMMA CurOptionsType ==
  ASSUME TypeOK, ControllerInv, specs # {}, list[cur].mode = "ON"
  PROVE  /\ CurOptions \in Options /\ list[cur].first \in ContainerRows
         /\ list[cur].first.proxy # None
<1>1. cur \in Listed(list) /\ list[cur].first # None
  BY DEF ControllerInv
<1>2. list[cur] \in ListEntries
  BY <1>1 DEF TypeOK, Lists, Listed
<1>3. list[cur].first \in ContainerRows /\ list[cur].first.proxy # None
  BY <1>1, <1>2 DEF ControllerInv, ListEntries
<1> QED BY <1>3, OptionsType DEF CurOptions

\* What runs in the pods stays well formed, and clean where nothing crashed
\* and no call met a launch.
LEMMA InstanceInvNext ==
  ASSUME TypeOK, ControllerInv, \A p \in LocalPods : InstanceInv(p), [Next]_vars
  PROVE  relay' \in [LocalPods -> Relays] /\ \A p \in LocalPods : InstanceInv(p)'
<1>0. /\ relay \in [LocalPods -> Relays]
      /\ \A p \in LocalPods : Sound(relay[p])
      /\ \A p \in LocalPods : p \notin dirty \cup raced => Clean(relay[p])
  BY DEF TypeOK, InstanceInv
<1>1. ASSUME NEW p \in LocalPods, NEW t, Sound(t),
             relay' = [relay EXCEPT ![p] = t],
             \A q \in LocalPods \ {p} : q \in dirty \cup raced
                                          => q \in dirty' \cup raced',
             p \notin dirty' \cup raced' => Clean(t)
      PROVE  /\ relay' \in [LocalPods -> Relays]
             /\ \A q \in LocalPods : InstanceInv(q)'
  <2>1. /\ relay' \in [LocalPods -> Relays] /\ relay'[p] = t
        /\ \A q \in LocalPods \ {p} : relay'[q] = relay[q]
    BY Zenon, <1>0, <1>1, OneRelay
  <2> QED BY <1>0, <1>1, <2>1 DEF InstanceInv
<1>2. CASE UNCHANGED <<relay, dirty, raced>>
  BY <1>0, <1>2 DEF InstanceInv
<1>3. ASSUME NEW p \in LocalPods, StartSpec(p)
      PROVE  relay' \in [LocalPods -> Relays] /\ \A q \in LocalPods : InstanceInv(q)'
  <2>1. CurOptions \in Options
    BY <1>3, CurOptionsType DEF StartSpec
  <2>2. relay' = [relay EXCEPT ![p] = StartRelay(relay[p], CurOptions)]
    BY <1>0, <1>3 DEF StartSpec
  <2>3. /\ Sound(StartRelay(relay[p], CurOptions))
        /\ p \notin dirty \cup raced => Clean(StartRelay(relay[p], CurOptions))
    BY <1>0, <1>3, <2>1, StartRelaySound DEF StartSpec
  <2> QED BY Zenon, <1>1, <1>3, <2>2, <2>3 DEF StartSpec
<1>4. ASSUME NEW p \in LocalPods, runRelayBinary(p) \/ InstanceUp(p)
      PROVE  relay' \in [LocalPods -> Relays] /\ \A q \in LocalPods : InstanceInv(q)'
  <2>1. PICK x \in {"starting", "up"} :
          /\ relay' = [relay EXCEPT ![p].proc = x]
          /\ relay[p].proc # "up"
    BY <1>4 DEF runRelayBinary, InstanceUp
  <2> DEFINE t == [relay[p] EXCEPT !.proc = x]
  <2>2. relay' = [relay EXCEPT ![p] = t]
    BY <1>0, <2>1
  <2>3. /\ t \in Relays /\ t.cmd = relay[p].cmd /\ t.conf = relay[p].conf
        /\ t.socat = relay[p].socat /\ t.rule = relay[p].rule
    BY <1>0 DEF Relays
  <2> HIDE DEF t
  <2>4. Sound(t) /\ (p \notin dirty \cup raced => Clean(t))
    BY <1>0, <2>1, <2>3 DEF Sound, Clean
  <2> QED BY Zenon, <1>1, <1>4, <2>2, <2>4 DEF runRelayBinary, InstanceUp
<1>5. ASSUME NEW p \in LocalPods, StopSpec(p)
      PROVE  relay' \in [LocalPods -> Relays] /\ \A q \in LocalPods : InstanceInv(q)'
  <2> DEFINE t == IF relay[p].proc = "up" THEN StopRelay(relay[p]) ELSE relay[p]
  <2>1. relay' = [relay EXCEPT ![p] = t]
    BY <1>0, <1>5 DEF StopSpec
  <2>2. Sound(t) /\ (p \notin dirty \cup raced => Clean(t))
    BY <1>0, StopRelaySound
  <2> HIDE DEF t
  <2> QED BY Zenon, <1>1, <1>5, <2>1, <2>2 DEF StopSpec
<1>6. ASSUME NEW p \in LocalPods, CallMeetsLaunch(p)
      PROVE  relay' \in [LocalPods -> Relays] /\ \A q \in LocalPods : InstanceInv(q)'
  <2> DEFINE o == IF list[cur].mode = "ON" THEN CurOptions ELSE relay[p].conf
  <2>1. PICK t \in TornCall(relay[p], o) : relay' = [relay EXCEPT ![p] = t]
    BY Zenon, <1>6 DEF CallMeetsLaunch
  <2>2. o \in Options
    BY <1>0, <1>6, CurOptionsType DEF CallMeetsLaunch, Sound, Relays
  <2>3. Sound(t)
    BY <1>0, <1>6, <2>1, <2>2, TornCallSound DEF CallMeetsLaunch
  <2> QED BY Zenon, <1>1, <1>6, <2>1, <2>3 DEF CallMeetsLaunch
<1>7. ASSUME NEW p \in LocalPods, SpecFails(p)
      PROVE  relay' \in [LocalPods -> Relays] /\ \A q \in LocalPods : InstanceInv(q)'
  <2> DEFINE s == relay[p]
             called == IF s.proc # "up" \/ s.cmd = "launching" THEN s
                       ELSE IF list[cur].mode = "ON" THEN StartRelay(s, CurOptions)
                       ELSE StopRelay(s)
  <2>1. PICK t \in {s, called} : relay' = [relay EXCEPT ![p] = t]
    BY Zenon, <1>7 DEF SpecFails
  <2>2. /\ specs # {} /\ UNCHANGED <<dirty, raced>>
    BY <1>7 DEF SpecFails
  <2>3. CASE s.proc # "up" \/ s.cmd = "launching"
    <3>1. called = s
      BY <2>3
    <3> HIDE DEF called
    <3> QED BY Zenon, <1>0, <1>1, <2>1, <2>2, <3>1
  <2>4. CASE ~ (s.proc # "up" \/ s.cmd = "launching") /\ list[cur].mode = "ON"
    <3>1. called = StartRelay(s, CurOptions)
      BY <2>4
    <3>2. CurOptions \in Options
      BY <2>2, <2>4, CurOptionsType
    <3>3. Sound(called) /\ (p \notin dirty \cup raced => Clean(called))
      BY <1>0, <2>4, <3>1, <3>2, StartRelaySound
    <3> HIDE DEF called
    <3> QED BY Zenon, <1>0, <1>1, <2>1, <2>2, <3>3
  <2>5. CASE ~ (s.proc # "up" \/ s.cmd = "launching") /\ list[cur].mode # "ON"
    <3>1. called = StopRelay(s)
      BY <2>5
    <3>2. Sound(called) /\ (p \notin dirty \cup raced => Clean(called))
      BY <1>0, <3>1, StopRelaySound
    <3> HIDE DEF called
    <3> QED BY Zenon, <1>0, <1>1, <2>1, <2>2, <3>2
  <2> QED BY <2>3, <2>4, <2>5
<1>8. ASSUME NEW p \in LocalPods, Launch(p)
      PROVE  relay' \in [LocalPods -> Relays] /\ \A q \in LocalPods : InstanceInv(q)'
  <2>1. relay' = [relay EXCEPT ![p] = Launched(relay[p])]
    BY <1>0, <1>8 DEF Launch
  <2>2. /\ Sound(Launched(relay[p]))
        /\ p \notin dirty \cup raced => Clean(Launched(relay[p]))
    BY <1>0, <1>8, LaunchedSound DEF Launch
  <2> QED BY Zenon, <1>1, <1>8, <2>1, <2>2 DEF Launch
<1>9. ASSUME NEW p \in LocalPods, ProxyFails(p)
      PROVE  relay' \in [LocalPods -> Relays] /\ \A q \in LocalPods : InstanceInv(q)'
  <2> DEFINE t == [relay[p] EXCEPT !.cmd = "launching", !.socat = None, !.rule = None]
  <2>1. relay' = [relay EXCEPT ![p] = t] /\ relay[p].cmd = "running"
    BY Zenon, <1>0, <1>9 DEF ProxyFails
  <2>2. /\ t \in Relays /\ t.proc = relay[p].proc /\ t.conf = relay[p].conf
        /\ t.cmd = "launching" /\ t.socat = None /\ t.rule = None
    BY Zenon, <1>0 DEF Relays
  <2> HIDE DEF t
  <2>3. Sound(t) /\ (p \notin dirty \cup raced => Clean(t))
    BY <1>0, <2>1, <2>2 DEF Sound, Clean
  <2> QED BY Zenon, <1>1, <1>9, <2>1, <2>3 DEF ProxyFails
<1>10. ASSUME NEW p \in LocalPods, PodRestarts(p)
       PROVE  relay' \in [LocalPods -> Relays] /\ \A q \in LocalPods : InstanceInv(q)'
  BY Zenon, <1>1, <1>10, FreshSound DEF PodRestarts
<1>11. ASSUME NEW p \in LocalPods, NEW t \in MayLeave(p)
       PROVE  t.socat \in Options \cup {None} /\ t.rule \in ContainerPorts \cup {None}
  <2>1. Sound(t)
    BY <1>0, <1>11, TornSound DEF MayLeave
  <2> QED BY <2>1 DEF Sound, Relays
<1>12. ASSUME NEW p \in LocalPods, InstanceDies(p)
       PROVE  relay' \in [LocalPods -> Relays] /\ \A q \in LocalPods : InstanceInv(q)'
  <2>1. PICK t \in MayLeave(p) :
          /\ relay' = [relay EXCEPT ![p] = [Fresh EXCEPT !.socat = t.socat,
                                                         !.rule = t.rule]]
          /\ dirty' = IF t.socat # None \/ t.rule # None THEN dirty \cup {p}
                      ELSE dirty
    BY Zenon, <1>12 DEF InstanceDies
  <2> DEFINE u == [Fresh EXCEPT !.socat = t.socat, !.rule = t.rule]
  <2>2. /\ u \in Relays /\ u.cmd = "none" /\ u.socat = t.socat /\ u.rule = t.rule
    BY Zenon, <1>11 DEF Fresh, Relays
  <2> HIDE DEF u
  <2>3. Sound(u) /\ (p \notin dirty' => Clean(u))
    BY <2>1, <2>2 DEF Sound, Clean
  <2> QED BY Zenon, <1>1, <1>12, <2>1, <2>3 DEF InstanceDies, u
<1>13. CASE NewController
  <2>1. PICK left \in [LocalPods -> ContainerPorts \cup {None}] :
          /\ relay' = [p \in LocalPods |-> [Fresh EXCEPT !.rule = left[p]]]
          /\ dirty' = {p \in LocalPods : left[p] # None}
    BY <1>13 DEF NewController
  <2>2. ASSUME NEW p \in LocalPods
        PROVE  /\ Sound([Fresh EXCEPT !.rule = left[p]])
               /\ left[p] = None => Clean([Fresh EXCEPT !.rule = left[p]])
    BY DEF Fresh, Relays, Sound, Clean
  <2> QED BY Zenon, <2>1, <2>2 DEF InstanceInv, Sound
<1>14. CASE \/ StoreNext \/ StateVersionChanged \/ QueryProtections
            \/ QueryIngresses \/ QueryUpstreams \/ (\E h \in Hosts : QueryPorts(h))
            \/ GotList \/ ListProtectionsFails \/ Sleep \/ UNCHANGED vars
            \/ \E h \in Hosts, lost \in SUBSET LocalPods :
                 getRelayInstanceSpecs(h, lost)
  BY <1>2, <1>14
  DEF StoreNext, StateVersionChanged, QueryProtections, QueryIngresses,
      QueryUpstreams, QueryPorts, GotList, ListProtectionsFails, Sleep, vars,
      getRelayInstanceSpecs
<1> QED BY <1>3, <1>4, <1>5, <1>6, <1>7, <1>8, <1>9, <1>10, <1>12, <1>13, <1>14
        DEF Next, Own, Controller

\* The types, one case per action.
LEMMA TypeNext ==
  ASSUME TypeOK, StoreInv, ControllerInv, \A p \in LocalPods : InstanceInv(p),
         [Next]_vars
  PROVE  TypeOK'
<1>1. StoreTypeOK' /\ relay' \in [LocalPods -> Relays]
  BY StoreInvNext, InstanceInvNext
<1>2. \A p \in LocalPods : relay'[p].cmd = "running"
                             => relay'[p].conf # None /\ relay'[p].socat # None
  BY InstanceInvNext DEF InstanceInv, Sound
<1>3. version \in Nat /\ stateVersion \in Nat /\ faults \in Nat /\ MaxFaults \in Nat
  BY RelayAssumption DEF TypeOK, StoreTypeOK, RelayAssumption
<1> DEFINE Rest ==
      /\ pc \in {"sleep", "protections", "ingresses", "upstreams", "ports", "specs"}
      /\ stateVersion \in 0..version
      /\ list \in Lists /\ todo \subseteq Listed(list)
      /\ pending \subseteq Listed(list) /\ cur \in Hosts \cup {None}
      /\ specs \subseteq LocalPods
      /\ missed \cup dirty \cup raced \subseteq LocalPods
      /\ faults \in 0..MaxFaults
<1>4. Rest
  BY DEF TypeOK
<1> SUFFICES Rest'
  BY <1>1, <1>2 DEF TypeOK
<1>5. CASE StoreNext
  <2>1. version' \in Nat /\ version' >= version
    BY <1>5, StatementMonotonic DEF StoreNext, TypeOK
  <2> QED BY <1>3, <1>4, <1>5, <2>1 DEF StoreNext, controllerVars
<1>6. CASE StateVersionChanged
  BY <1>3, <1>4, <1>6 DEF StateVersionChanged, storeVars
<1>7. CASE QueryProtections
  <2>1. list' \in Lists
    BY <1>7, QueryProtectionsEffect DEF TypeOK
  <2>2. todo = {} /\ pending = {}
    BY <1>7 DEF QueryProtections, ControllerInv
  <2> QED BY <1>4, <1>7, <2>1, <2>2 DEF QueryProtections, storeVars
<1>8. CASE QueryIngresses
  <2>1. list' \in Lists /\ Listed(list') = Listed(list)
    BY <1>8, QueryIngressesEffect DEF TypeOK
  <2> QED BY <1>4, <1>8, <2>1 DEF QueryIngresses, storeVars
<1>9. CASE QueryUpstreams
  <2>1. list' \in Lists /\ Listed(list') = Listed(list)
    BY <1>9, QueryUpstreamsEffect DEF TypeOK
  <2> QED BY <1>4, <1>9, <2>1 DEF QueryUpstreams, WithoutPorts, storeVars
<1>10. CASE \E h \in Hosts : QueryPorts(h)
  <2> PICK h \in Hosts : QueryPorts(h)
    BY <1>10
  <2>1. list' \in Lists /\ Listed(list') = Listed(list)
    BY QueryPortsEffect DEF TypeOK
  <2> QED BY <1>4, <2>1 DEF QueryPorts, storeVars
<1>11. CASE GotList
  BY <1>4, <1>11 DEF GotList, storeVars
<1>12. CASE ListProtectionsFails
  <2>1. pending = {}
    BY <1>12 DEF ListProtectionsFails, ControllerInv
  <2> QED BY <1>3, <1>4, <1>12, <2>1, EmptyListType
          DEF ListProtectionsFails, storeVars
<1>13. CASE \E h \in Hosts, lost \in SUBSET LocalPods : getRelayInstanceSpecs(h, lost)
  BY <1>3, <1>4, <1>13 DEF getRelayInstanceSpecs, storeVars
<1>14. CASE Sleep
  <2>1. todo = {}
    BY <1>14 DEF Sleep, ControllerInv
  <2> QED BY <1>4, <1>14, <2>1, EmptyListType DEF Sleep, storeVars
<1>15. CASE NewController
  <2>1. /\ pc' = "sleep" /\ stateVersion' = 0 /\ list' = EmptyList /\ todo' = {}
        /\ pending' = {} /\ cur' = None /\ specs' = {} /\ version' = version
        /\ dirty' \subseteq LocalPods /\ missed' = {} /\ raced' = {}
        /\ faults' = faults + 1 /\ faults < MaxFaults
    BY <1>15 DEF NewController, storeVars
  <2> QED BY <1>3, <1>4, <2>1, EmptyListType
<1>16. CASE \E p \in LocalPods :
              \/ StartSpec(p) \/ StopSpec(p) \/ CallMeetsLaunch(p) \/ SpecFails(p)
  BY <1>3, <1>4, <1>16 DEF StartSpec, StopSpec, CallMeetsLaunch, SpecFails,
                           HandledSpec, storeVars
<1>17. CASE \E p \in LocalPods :
              \/ runRelayBinary(p) \/ InstanceUp(p) \/ Launch(p) \/ ProxyFails(p)
              \/ PodRestarts(p) \/ InstanceDies(p)
  <2>1. /\ UNCHANGED <<version, pc, stateVersion, list, todo, pending, cur, specs>>
    BY Zenon, <1>17 DEF runRelayBinary, InstanceUp, Launch, ProxyFails, PodRestarts,
                 InstanceDies, controllerVars, storeVars
  <2>2. faults' \in 0..MaxFaults
    <3>1. faults' = faults \/ (faults < MaxFaults /\ faults' = faults + 1)
      BY Zenon, <1>17 DEF runRelayBinary, InstanceUp, Launch, ProxyFails, PodRestarts,
                   InstanceDies
    <3> QED BY <1>3, <1>4, <3>1
  <2>3. PICK p \in LocalPods :
          /\ missed' \in {missed, missed \cup {p}}
          /\ dirty' \in {dirty, dirty \cup {p}, dirty \ {p}}
          /\ raced' \in {raced, raced \ {p}}
    BY Zenon, <1>17 DEF runRelayBinary, InstanceUp, Launch, ProxyFails, PodRestarts,
                 InstanceDies
  <2> QED BY <1>4, <2>1, <2>2, <2>3
<1>18. CASE UNCHANGED vars
  BY <1>4, <1>18 DEF vars
<1> QED BY Zenon, <1>5, <1>6, <1>7, <1>8, <1>9, <1>10, <1>11, <1>12, <1>13, <1>14,
           <1>15, <1>16, <1>17, <1>18 DEF Next, Own, Controller

\* The controller only holds what it can work on.
LEMMA ControllerInvNext ==
  ASSUME TypeOK, StoreInv, ControllerInv, [Next]_vars PROVE ControllerInv'
<1> USE DEF ControllerInv
<1>1. CASE StoreNext
  <2>1. \A h \in Hosts : db.ingresses[h] # None
                           => db'.ingresses[h] = db.ingresses[h]
    BY <1>1, StatementMonotonic DEF StoreNext, TypeOK
  <2>2. UNCHANGED <<pc, list, todo, pending, cur, specs>>
    BY <1>1 DEF StoreNext, controllerVars
  <2>3. \A h \in Listed(list) : list[h].svc # None => list[h].svc = db'.ingresses[h]
    BY <2>1 DEF Listed
  <2> QED BY <2>2, <2>3 DEF ListedPods
<1>2. CASE StateVersionChanged
  BY <1>2 DEF StateVersionChanged, storeVars, ListedPods
<1>3. CASE QueryProtections
  <2>1. \A h \in Listed(list') : list'[h].svc = None /\ list'[h].first = None
    BY <1>3, QueryProtectionsEffect DEF TypeOK
  <2> QED BY <1>3, <2>1 DEF QueryProtections, storeVars
<1>4. CASE QueryIngresses
  <2>1. /\ Listed(list') = Listed(list)
        /\ \A h \in Listed(list) : /\ list'[h].first = list[h].first
                                   /\ list'[h].svc = db.ingresses[h]
    BY <1>4, QueryIngressesEffect DEF TypeOK
  <2> QED BY <1>4, <2>1 DEF QueryIngresses, storeVars
<1>5. CASE QueryUpstreams
  <2>1. /\ Listed(list') = Listed(list)
        /\ \A h \in Listed(list) : /\ list'[h].first = list[h].first
                                   /\ list'[h].svc = list[h].svc
    BY <1>5, QueryUpstreamsEffect DEF TypeOK
  <2> QED BY <1>5, <2>1 DEF QueryUpstreams, storeVars
<1>6. CASE \E h \in Hosts : QueryPorts(h)
  <2> PICK h \in Hosts : QueryPorts(h)
    BY <1>6
  <2>1. /\ Listed(list') = Listed(list) /\ h \in Listed(list)
        /\ \A x \in Hosts \ {h} : list'[x] = list[x]
        /\ list'[h].svc = list[h].svc
        /\ list'[h].first # None => list'[h].first.proxy # None
    BY QueryPortsEffect DEF TypeOK
  <2>2. specs = {} /\ pending = {} /\ UNCHANGED <<db, pc, pending, specs>>
    BY DEF QueryPorts, storeVars
  <2>3. \A x \in Listed(list) : x \in Hosts
    BY DEF Listed
  <2> QED BY <2>1, <2>2, <2>3 DEF QueryPorts
<1>7. CASE GotList
  BY <1>7 DEF GotList, storeVars
<1>8. CASE ListProtectionsFails
  BY <1>8, EmptyListType DEF ListProtectionsFails, storeVars
<1>9. CASE \E h \in Hosts, lost \in SUBSET LocalPods : getRelayInstanceSpecs(h, lost)
  <2> PICK h \in Hosts, lost \in SUBSET LocalPods : getRelayInstanceSpecs(h, lost)
    BY <1>9
  <2>1. h \in Listed(list) /\ cur' = h /\ pending' = pending \ {h} /\ pc' = pc
    BY DEF getRelayInstanceSpecs, TypeOK
  <2>2. /\ specs' = IF list[h].mode = "ON" /\ list[h].first = None THEN {}
                    ELSE (ListedPods(h) \cap LocalPods) \ lost
        /\ UNCHANGED <<db, list, todo>> /\ pc = "specs"
    BY DEF getRelayInstanceSpecs, storeVars, ListedPods
  <2>3. ListedPods(cur)' = ListedPods(h)
    BY <2>1, <2>2 DEF ListedPods
  <2> HIDE DEF ListedPods
  <2> QED BY <2>1, <2>2, <2>3
<1>10. CASE Sleep
  BY <1>10, EmptyListType DEF Sleep, storeVars
<1>11. CASE NewController
  BY <1>11, EmptyListType DEF NewController, storeVars
<1>12. CASE \E p \in LocalPods :
              \/ StartSpec(p) \/ StopSpec(p) \/ CallMeetsLaunch(p) \/ SpecFails(p)
  <2>1. /\ UNCHANGED <<db, pc, list, todo, pending, cur>> /\ specs' \subseteq specs
        /\ pc = "specs"
    BY <1>12 DEF StartSpec, StopSpec, CallMeetsLaunch, SpecFails, HandledSpec,
                 storeVars
  <2> QED BY <2>1 DEF ListedPods
<1>13. CASE \/ UNCHANGED vars
            \/ \E p \in LocalPods :
                 \/ runRelayBinary(p) \/ InstanceUp(p) \/ Launch(p) \/ ProxyFails(p)
                 \/ PodRestarts(p) \/ InstanceDies(p)
  <2>1. UNCHANGED <<db, pc, list, todo, pending, cur, specs>>
    BY Zenon, <1>13 DEF runRelayBinary, InstanceUp, Launch, ProxyFails, PodRestarts,
                 InstanceDies, controllerVars, storeVars, vars
  <2> QED BY <2>1 DEF ListedPods
<1> QED BY Zenon, <1>1, <1>2, <1>3, <1>4, <1>5, <1>6, <1>7, <1>8, <1>9, <1>10, <1>11,
           <1>12, <1>13 DEF Next, Own, Controller

-----------------------------------------------------------------------------
(* What was read, and what was done with it, under a version that stands.  *)

\* A statement without a new version changes nothing for a pod that is not
\* counted as missed.
LEMMA PodStable ==
  ASSUME TypeOK, StoreInv, StoreNext, version' = version,
         NEW p \in LocalPods, p \notin missed'
  PROVE  /\ p \notin missed
         /\ \A h \in Hosts : p \in PodsOf(db', h) <=> p \in PodsOf(db, h)
         /\ HostsOf(db', p) = HostsOf(db, p)
         /\ ProtectedHosts(p)' = ProtectedHosts(p)
         /\ UnprotectedHosts(p)' = UnprotectedHosts(p)
<1>1. p \notin missed /\ HostsOf(db', p) = HostsOf(db, p)
  BY DEF StoreNext
<1>2. \A h \in Hosts : p \in PodsOf(db', h) <=> p \in PodsOf(db, h)
  BY <1>1 DEF HostsOf
<1>3. \A h \in Hosts : /\ db'.modes[h] = db.modes[h]
                       /\ ContainerPortRows(db', h) = ContainerPortRows(db, h)
  BY StatementCovered DEF StoreNext, TypeOK
<1>4. \A h \in HostsOf(db, p) : h \in Hosts
  BY DEF HostsOf
<1>5. ProtectedHosts(p)' = ProtectedHosts(p)
  BY <1>1, <1>3, <1>4 DEF ProtectedHosts
<1>6. UnprotectedHosts(p)' = UnprotectedHosts(p)
  BY <1>1, <1>3, <1>4 DEF UnprotectedHosts
<1> QED BY <1>1, <1>2, <1>5, <1>6

\* A query reads what is there, and a statement that would invalidate it
\* changes the version or is counted as missed.
LEMMA ListInvNext ==
  ASSUME TypeOK, StoreInv, ControllerInv, ListInv, [Next]_vars PROVE ListInv'
<1>0. version \in Nat /\ stateVersion \in 0..version
  BY DEF TypeOK, StoreTypeOK
<1> SUFFICES ASSUME pc' \notin {"sleep", "protections"}, stateVersion' = version',
                    NEW h \in Hosts
             PROVE  ReadAgrees(h)'
  BY DEF ListInv
<1>1. CASE StoreNext
  <2>1. version' >= version /\ version' \in Nat
    BY <1>1, StatementMonotonic DEF StoreNext, TypeOK
  <2>2. /\ UNCHANGED <<pc, stateVersion, list, todo>>
        /\ version' = version /\ stateVersion = version
    BY <1>0, <1>1, <2>1 DEF StoreNext, controllerVars
  <2>3. ReadAgrees(h)
    BY <2>2 DEF ListInv
  <2>4. /\ db'.modes[h] = db.modes[h]
        /\ ContainerPortRows(db', h) = ContainerPortRows(db, h)
        /\ ContainerPortRows(db, h) # {} => db'.ingresses[h] = db.ingresses[h]
    BY <1>1, <2>2, StatementCovered DEF StoreNext, TypeOK
  <2>5. \A p \in LocalPods \ missed' :
          p \notin missed /\ (p \in PodsOf(db', h) <=> p \in PodsOf(db, h))
    BY <1>1, <2>2, PodStable
  <2>6. PodsOf(db, h) \cap LocalPods \subseteq missed
          => PodsOf(db', h) \cap LocalPods \subseteq missed'
    BY <2>5
  <2>7. ListedPods(h)' = ListedPods(h)
    BY <2>2 DEF ListedPods
  <2> QED BY <2>2, <2>3, <2>4, <2>5, <2>6, <2>7 DEF ReadAgrees
<1>2. CASE QueryProtections
  <2>1. pc' = "ingresses" /\ db' = db
    BY <1>2 DEF QueryProtections, storeVars
  <2>2. /\ h \in Listed(list') <=> db.modes[h] # None
        /\ h \in Listed(list') => /\ list'[h].mode = db.modes[h]
                                  /\ list'[h].first = None
                                  /\ Keys(list'[h].eps) = {}
    BY <1>2, QueryProtectionsEffect DEF TypeOK
  <2> QED BY <2>1, <2>2 DEF ReadAgrees
<1>3. CASE QueryIngresses
  <2>1. /\ pc = "ingresses" /\ pc' = "upstreams" /\ db' = db /\ missed' = missed
        /\ version' = version /\ stateVersion' = stateVersion
    BY <1>3 DEF QueryIngresses, storeVars
  <2>2. ReadAgrees(h)
    BY <2>1 DEF ListInv
  <2>3. /\ Listed(list') = Listed(list)
        /\ h \in Listed(list) => /\ list'[h].mode = list[h].mode
                                 /\ list'[h].first = list[h].first
                                 /\ list'[h].eps = list[h].eps
                                 /\ list'[h].svc = db.ingresses[h]
    BY <1>3, QueryIngressesEffect DEF TypeOK
  <2>4. db.ingresses[h] = None => PodsOf(db, h) = {}
    BY DEF PodsOf
  <2> QED BY <2>1, <2>2, <2>3, <2>4 DEF ReadAgrees
<1>4. CASE QueryUpstreams
  <2>1. /\ pc = "upstreams" /\ pc' = "ports" /\ db' = db /\ missed' = missed
        /\ version' = version /\ stateVersion' = stateVersion
        /\ todo' = {x \in Listed(list) : list[x].svc # None}
    BY <1>4 DEF QueryUpstreams, WithoutPorts, storeVars
  <2>2. ReadAgrees(h)
    BY <2>1 DEF ListInv
  <2>3. /\ Listed(list') = Listed(list)
        /\ h \in Listed(list) =>
             /\ list'[h].mode = list[h].mode /\ list'[h].first = list[h].first
             /\ list'[h].svc = list[h].svc
             /\ list'[h].eps = IF list[h].svc = None THEN list[h].eps
                               ELSE db.endpoints[list[h].svc]
    BY <1>4, QueryUpstreamsEffect DEF TypeOK
  <2>4. ContainerPortRows(db, h) # {} => db.ingresses[h] # None
    BY DEF StoreInv, ForeignKeys, ContainerPortRows, ListedPorts
  <2>5. ASSUME h \in Listed(list), h \notin todo'
        PROVE  IsFirst(list'[h].first, ContainerPortRows(db, h))
    BY <2>1, <2>2, <2>3, <2>4, <2>5 DEF ReadAgrees, IsFirst
  <2>6. ASSUME h \in Listed(list), NEW p \in LocalPods \ missed
        PROVE  p \in ListedPods(h)' <=> p \in PodsOf(db, h)
    <3>1. CASE list[h].svc = None
      <4>1. ListedPods(h)' = {}
        BY <2>1, <2>2, <2>3, <2>6, <3>1 DEF ReadAgrees, ListedPods, Keys
      <4>2. p \notin PodsOf(db, h)
        BY <2>1, <2>2, <2>6, <3>1 DEF ReadAgrees
      <4> QED BY <4>1, <4>2
    <3>2. CASE list[h].svc # None
      <4>1. list[h].svc = db.ingresses[h]
        BY <2>6, <3>2 DEF ControllerInv
      <4> QED BY <2>3, <2>6, <3>2, <4>1 DEF ListedPods, PodsOf, Keys
    <3> QED BY <3>1, <3>2
  <2> QED BY <2>1, <2>2, <2>3, <2>5, <2>6 DEF ReadAgrees
<1>5. CASE \E x \in Hosts : QueryPorts(x)
  <2> PICK x \in Hosts : QueryPorts(x)
    BY <1>5
  <2>1. /\ pc = "ports" /\ pc' = "ports" /\ db' = db /\ missed' = missed
        /\ version' = version /\ stateVersion' = stateVersion
        /\ todo' = todo \ {x}
    BY DEF QueryPorts, storeVars
  <2>2. ReadAgrees(h)
    BY <2>1 DEF ListInv
  <2>3. /\ Listed(list') = Listed(list) /\ x \in Listed(list)
        /\ \A y \in Hosts \ {x} : list'[y] = list[y]
        /\ list'[x].mode = list[x].mode /\ list'[x].svc = list[x].svc
        /\ list'[x].eps = list[x].eps
        /\ IsFirst(list'[x].first, PortsFound(db, list, x))
    BY QueryPortsEffect DEF TypeOK
  <2>4. ListedPods(h)' = ListedPods(h)
    BY <2>3 DEF ListedPods
  <2>5. CASE h # x
    BY <2>1, <2>2, <2>3, <2>4, <2>5 DEF ReadAgrees
  <2>6. CASE h = x
    <3>1. list[h].svc # None => list[h].svc = db.ingresses[h]
      BY <2>3, <2>6 DEF ControllerInv
    <3>2. ContainerPortRows(db, h) # {} => list[h].svc = db.ingresses[h]
      BY <2>1, <2>2, <2>3, <2>6 DEF ReadAgrees
    <3>3. \A r \in db.ports : r.svc # None
      BY StoreAssumption DEF StoreAssumption, TypeOK, StoreTypeOK, Tables, PortRows
    <3>4. PortsFound(db, list, h) = ContainerPortRows(db, h)
      BY <3>1, <3>2, <3>3 DEF PortsFound, ContainerPortRows, ListedPorts
    <3> QED BY <2>1, <2>2, <2>3, <2>4, <2>6, <3>4 DEF ReadAgrees
  <2> QED BY <2>5, <2>6
<1>6. CASE GotList
  <2>1. /\ pc = "ports" /\ pc' = "specs" /\ db' = db /\ list' = list
        /\ todo' = todo /\ missed' = missed
        /\ version' = version /\ stateVersion' = stateVersion
    BY <1>6 DEF GotList, storeVars
  <2>2. ReadAgrees(h)
    BY <2>1 DEF ListInv
  <2> QED BY <2>1, <2>2 DEF ReadAgrees, ListedPods
<1>7. CASE /\ UNCHANGED <<db, version, pc, stateVersion, list, todo>>
           /\ missed \subseteq missed'
  <2>1. ReadAgrees(h)
    BY <1>7 DEF ListInv
  <2>2. ListedPods(h)' = ListedPods(h) /\ PodsOf(db', h) = PodsOf(db, h)
    BY <1>7 DEF ListedPods
  <2> QED BY <1>7, <2>1, <2>2 DEF ReadAgrees
<1>8. CASE UNCHANGED vars
  BY <1>7, <1>8 DEF vars
<1>9. ASSUME NEW x \in Hosts, NEW lost \in SUBSET LocalPods,
             getRelayInstanceSpecs(x, lost)
      PROVE  ReadAgrees(h)'
  BY <1>7, <1>9 DEF getRelayInstanceSpecs, storeVars
<1>10. ASSUME NEW p \in LocalPods,
              \/ StartSpec(p) \/ StopSpec(p) \/ CallMeetsLaunch(p) \/ SpecFails(p)
       PROVE  ReadAgrees(h)'
  BY <1>7, <1>10 DEF StartSpec, StopSpec, CallMeetsLaunch, SpecFails, storeVars
<1>11. ASSUME NEW p \in LocalPods,
              \/ runRelayBinary(p) \/ InstanceUp(p) \/ Launch(p)
              \/ ProxyFails(p) \/ PodRestarts(p) \/ InstanceDies(p)
       PROVE  ReadAgrees(h)'
  <2>1. /\ UNCHANGED <<db, version, pc, stateVersion, list, todo>>
        /\ missed' \in {missed, missed \cup {p}}
    BY Zenon, <1>11 DEF runRelayBinary, InstanceUp, Launch, ProxyFails,
       PodRestarts, InstanceDies, controllerVars, storeVars
  <2> QED BY <1>7, <2>1
<1>12. CASE StateVersionChanged \/ ListProtectionsFails \/ Sleep \/ NewController
  BY <1>12 DEF StateVersionChanged, ListProtectionsFails, Sleep, NewController
<1> QED BY <1>1, <1>2, <1>3, <1>4, <1>5, <1>6, <1>8, <1>9, <1>10, <1>11, <1>12
        DEF Next, Own, Controller

\* The hosts of a pod depend on the tables alone.
LEMMA HostsKept ==
  ASSUME NEW p \in LocalPods, db' = db
  PROVE  /\ ProtectedHosts(p)' = ProtectedHosts(p)
         /\ UnprotectedHosts(p)' = UnprotectedHosts(p)
         /\ HostsOf(db', p) = HostsOf(db, p)
         /\ \A h : ContainerPortRows(db', h) = ContainerPortRows(db, h)
BY DEF ProtectedHosts, UnprotectedHosts

\* A host of a pod is on or off, not both.
LEMMA HostModes ==
  ASSUME NEW p \in LocalPods
  PROVE  /\ \A h \in ProtectedHosts(p) : h \in HostsOf(db, p) /\ db.modes[h] = "ON"
         /\ \A h \in UnprotectedHosts(p) : h \in HostsOf(db, p) /\ db.modes[h] = "OFF"
         /\ HostsOf(db, p) \subseteq Hosts
BY DEF ProtectedHosts, UnprotectedHosts, HostsOf

\* HandledInv stays when nothing it is about changes for p, or more is spared.
LEMMA HandledKept ==
  ASSUME NEW p \in LocalPods, HandledInv(p),
         UNCHANGED <<db, version, stateVersion>>,
         relay'[p] = relay[p], Spared(p) => Spared(p)',
         \A h \in Hosts : Handled(h, p)' =>
           Handled(h, p) \/ h \notin ProtectedHosts(p) \cup UnprotectedHosts(p)
  PROVE  HandledInv(p)'
BY HostsKept, HostModes DEF HandledInv, Told

\* A statement of the API server.
LEMMA HandledStoreNext ==
  ASSUME TypeOK, StoreInv, ControllerInv, ListInv, NEW p \in LocalPods,
         InstanceInv(p), HandledInv(p), StoreNext
  PROVE  HandledInv(p)'
<1>0. /\ version \in Nat /\ stateVersion \in 0..version
      /\ relay \in [LocalPods -> Relays] /\ relay[p] \in Relays
      /\ Sound(relay[p]) /\ (p \notin dirty \cup raced => Clean(relay[p]))
  BY DEF TypeOK, StoreTypeOK, InstanceInv
<1> SUFFICES ASSUME stateVersion' = version', ~ Spared(p)'
             PROVE  HandledInv(p)'
  BY DEF HandledInv
<1>00. p \notin missed' /\ p \notin dirty' /\ p \notin raced'
  BY DEF Spared
<1>1. version' >= version /\ version' \in Nat
  BY StatementMonotonic DEF StoreNext, TypeOK
<1>2. /\ UNCHANGED <<pc, stateVersion, pending, cur, specs, relay, dirty, raced>>
      /\ version' = version /\ stateVersion = version
  BY <1>0, <1>1 DEF StoreNext, controllerVars
<1>3. /\ p \notin missed /\ HostsOf(db', p) = HostsOf(db, p)
      /\ ProtectedHosts(p)' = ProtectedHosts(p)
      /\ UnprotectedHosts(p)' = UnprotectedHosts(p)
  BY <1>00, <1>2, PodStable
<1>4. \A h \in Hosts : /\ db'.modes[h] = db.modes[h]
                       /\ ContainerPortRows(db', h) = ContainerPortRows(db, h)
  BY <1>2, StatementCovered DEF StoreNext, TypeOK
<1>5. ~ Spared(p)
  BY <1>00, <1>2, <1>3 DEF Spared
<1>6. \A h : Handled(h, p)' <=> Handled(h, p)
  BY <1>2 DEF Handled
<1>7. Told(p) => Told(p)'
  BY HostModes, <1>2, <1>3, <1>4 DEF Told
<1> QED BY HostModes, <1>2, <1>3, <1>4, <1>5, <1>6, <1>7 DEF HandledInv

\* The reply of ListProtections arrives.
LEMMA HandledGotList ==
  ASSUME TypeOK, StoreInv, ControllerInv, ListInv, NEW p \in LocalPods,
         InstanceInv(p), HandledInv(p), GotList
  PROVE  HandledInv(p)'
<1> SUFFICES ASSUME stateVersion' = version', ~ Spared(p)'
             PROVE  HandledInv(p)'
  BY DEF HandledInv
<1>00. p \notin missed' /\ p \notin dirty' /\ p \notin raced'
  BY DEF Spared
<1>1. /\ UNCHANGED <<db, version, stateVersion, list, relay, missed, dirty, raced>>
      /\ pc = "ports" /\ pc' = "specs" /\ pending' = Listed(list)
  BY DEF GotList, storeVars
<1>2. \A h \in Hosts : h \in Listed(list) <=> db.modes[h] # None
  BY <1>1 DEF ListInv, ReadAgrees
<1>3. \A h \in ProtectedHosts(p) \cup UnprotectedHosts(p) : h \in Listed(list)
  BY HostModes, <1>2, StoreAssumption DEF StoreAssumption
<1>4. \A h \in Hosts : Handled(h, p)' => h \notin Listed(list)
  BY <1>1 DEF Handled
<1>5. Spared(p) => Spared(p)'
  BY <1>1 DEF Spared
<1> QED BY HandledKept, <1>1, <1>3, <1>4, <1>5

\* The specs of a host are made.
LEMMA HandledSpecs ==
  ASSUME TypeOK, StoreInv, ControllerInv, ListInv, NEW p \in LocalPods,
         InstanceInv(p), HandledInv(p),
         NEW x \in Hosts, NEW lost \in SUBSET LocalPods,
         getRelayInstanceSpecs(x, lost)
  PROVE  HandledInv(p)'
<1> SUFFICES ASSUME stateVersion' = version', ~ Spared(p)'
             PROVE  HandledInv(p)'
  BY DEF HandledInv
<1>00. p \notin missed' /\ p \notin dirty' /\ p \notin raced'
  BY DEF Spared
<1>1. /\ UNCHANGED <<db, version, pc, stateVersion, list, todo, relay, dirty, raced>>
      /\ pc = "specs" /\ specs = {} /\ x \in pending /\ cur' = x
      /\ pending' = pending \ {x} /\ missed' = missed \cup lost
      /\ specs' = IF list[x].mode = "ON" /\ list[x].first = None THEN {}
                  ELSE (ListedPods(x) \cap LocalPods) \ lost
  BY DEF getRelayInstanceSpecs, storeVars, ListedPods
<1>2. ReadAgrees(x) /\ x \in Listed(list) /\ todo = {}
  BY <1>1 DEF ListInv, ControllerInv, TypeOK
<1>3. p \notin lost /\ p \notin missed
  BY <1>00, <1>1
<1>4. p \in ListedPods(x) <=> p \in PodsOf(db, x)
  BY <1>1, <1>2, <1>3 DEF ReadAgrees
<1>5. /\ list[x].mode = db.modes[x]
      /\ list[x].first = None => ContainerPortRows(db, x) = {}
  <2>1. list[x].mode = db.modes[x]
        /\ IsFirst(list[x].first, ContainerPortRows(db, x))
    BY <1>1, <1>2 DEF ReadAgrees
  <2>2. None \notin ContainerPortRows(db, x)
    BY RowAssumption DEF RowAssumption, ContainerPortRows, ListedPorts, TypeOK,
                         StoreTypeOK, Tables
  <2> QED BY <2>1, <2>2 DEF IsFirst
<1>6. x \in ProtectedHosts(p) \cup UnprotectedHosts(p) => p \in specs'
  <2> SUFFICES ASSUME x \in ProtectedHosts(p) \cup UnprotectedHosts(p)
               PROVE  p \in specs'
    OBVIOUS
  <2>1. p \in PodsOf(db, x)
    BY DEF ProtectedHosts, UnprotectedHosts, HostsOf
  <2>2. ~ (list[x].mode = "ON" /\ list[x].first = None)
    BY <1>5 DEF ProtectedHosts, UnprotectedHosts
  <2> QED BY <1>1, <1>3, <1>4, <2>1, <2>2
<1>7. \A h \in Hosts : Handled(h, p)' =>
        Handled(h, p) \/ h \notin ProtectedHosts(p) \cup UnprotectedHosts(p)
  BY <1>1, <1>6 DEF Handled
<1>8. Spared(p) => Spared(p)'
  BY <1>1 DEF Spared
<1> QED BY HandledKept, <1>1, <1>7, <1>8

\* A spec of p, or of another pod, is handled.
LEMMA OneHandled ==
  ASSUME TypeOK, StoreInv, ControllerInv, ListInv, NEW p \in LocalPods,
         InstanceInv(p), HandledInv(p),
         NEW q \in LocalPods, pc = "specs", q \in specs, HandledSpec(q),
         UNCHANGED <<db, version, pc, stateVersion, pending, cur>>,
         missed \subseteq missed', dirty' = dirty, raced \subseteq raced',
         q # p => relay'[p] = relay[p],
         q = p => \/ p \in missed' \cup raced'
                  \/ relay'[p].cmd = "none" /\ db.modes[cur] = "OFF"
                  \/ db.modes[cur] = "ON" /\ Told(p)'
  PROVE  HandledInv(p)'
<1> SUFFICES ASSUME stateVersion' = version', ~ Spared(p)'
             PROVE  HandledInv(p)'
  BY DEF HandledInv
<1>00. p \notin missed' /\ p \notin dirty' /\ p \notin raced'
  BY DEF Spared
<1>1. CASE q # p
  <2>1. \A h \in Hosts : Handled(h, p)' => Handled(h, p)
    BY <1>1 DEF Handled, HandledSpec
  <2>2. Spared(p) => Spared(p)'
    BY DEF Spared
  <2> QED BY HandledKept, <1>1, <2>1, <2>2
<1>2. CASE q = p
  <2>1. /\ cur \in Listed(list) /\ p \in ListedPods(cur) /\ cur \in Hosts
    BY <1>2 DEF ControllerInv, Listed
  <2>2. ReadAgrees(cur)
    BY <2>1 DEF ListInv
  <2>3. p \in LocalPods \ missed
    BY <1>00
  <2>4. cur \in HostsOf(db, p)
    BY <2>1, <2>2, <2>3 DEF ReadAgrees, HostsOf
  <2>5. CASE relay'[p].cmd = "none" /\ db.modes[cur] = "OFF"
    <3>1. UnprotectedHosts(p) # {}
      BY <2>4, <2>5 DEF UnprotectedHosts
    <3> QED BY HostsKept, <2>5, <3>1 DEF HandledInv
  <2>6. CASE db.modes[cur] = "ON" /\ Told(p)'
    BY <2>4, <2>6 DEF HandledInv
  <2> QED BY <1>00, <1>2, <2>5, <2>6
<1> QED BY <1>1, <1>2

\* The controller knows the mode of the host whose specs it handles.
LEMMA CurMode ==
  ASSUME ControllerInv, ListInv, specs # {}, pc = "specs", stateVersion = version
  PROVE  list[cur].mode = db.modes[cur] /\ cur \in Hosts
<1>1. cur \in Listed(list) /\ cur \in Hosts
  BY DEF ControllerInv, Listed
<1>2. ReadAgrees(cur)
  BY <1>1 DEF ListInv
<1> QED BY <1>1, <1>2 DEF ReadAgrees

\* The instance of a pod is told to relay,
LEMMA HandledStart ==
  ASSUME TypeOK, StoreInv, ControllerInv, ListInv, NEW p \in LocalPods,
         InstanceInv(p), HandledInv(p), NEW q \in LocalPods, StartSpec(q)
  PROVE  HandledInv(p)'
<1>0. /\ version \in Nat /\ stateVersion \in 0..version
      /\ relay \in [LocalPods -> Relays] /\ relay[p] \in Relays
      /\ Sound(relay[p]) /\ (p \notin dirty \cup raced => Clean(relay[p]))
  BY DEF TypeOK, StoreTypeOK, InstanceInv
<1> SUFFICES ASSUME stateVersion' = version', ~ Spared(p)'
             PROVE  HandledInv(p)'
  BY DEF HandledInv
<1>00. p \notin missed' /\ p \notin dirty' /\ p \notin raced'
  BY DEF Spared
<1>1. /\ pc = "specs" /\ q \in specs /\ list[cur].mode = "ON" /\ relay[q].proc = "up"
      /\ UNCHANGED <<db, version, pc, stateVersion, list, pending, cur, missed,
                     dirty, raced>> /\ HandledSpec(q)
      /\ relay' = [relay EXCEPT ![q] = StartRelay(relay[q], CurOptions)]
  BY <1>0 DEF StartSpec, storeVars
<1>2. q # p => relay'[p] = relay[p]
  BY <1>0, <1>1
<1>3. ASSUME q = p PROVE db.modes[cur] = "ON" /\ Told(p)'
  <2>1. db.modes[cur] = "ON" /\ cur \in Hosts
    BY CurMode, <1>1
  <2>2. CurOptions \in Options
    BY <1>1, CurOptionsType
  <2> DEFINE t == StartRelay(relay[p], CurOptions)
  <2>3. relay'[p] = t /\ relay[p].proc = "up"
    BY <1>0, <1>1, <1>3
  <2>4. t.proc = "up" /\ t.conf = CurOptions /\ t.cmd \in {"running", "launching"}
    BY <1>0, <2>2, <2>3, StartRelaySound
  <2> HIDE DEF t
  <2>5. /\ cur \in Listed(list) /\ p \in ListedPods(cur) /\ todo = {}
        /\ list[cur].first # None
    BY <1>1, <1>3 DEF ControllerInv
  <2>6. ReadAgrees(cur)
    BY <1>1, <2>1 DEF ListInv
  <2>7. list[cur].first \in ContainerPortRows(db, cur)
    BY <1>1, <2>5, <2>6 DEF ReadAgrees, IsFirst
  <2>8. p \in PodsOf(db, cur)
    BY <1>00, <1>1, <2>5, <2>6 DEF ReadAgrees
  <2>9. cur \in ProtectedHosts(p)
    BY <2>1, <2>7, <2>8 DEF ProtectedHosts, HostsOf
  <2>10. relay'[p].conf = discoverRelayOptions(list[cur].first)
    BY <2>3, <2>4 DEF CurOptions
  <2> QED BY HostsKept, <1>1, <2>1, <2>3, <2>4, <2>7, <2>9, <2>10 DEF Told
<1> QED BY OneHandled, <1>1, <1>2, <1>3

\* or to stop,
LEMMA HandledStop ==
  ASSUME TypeOK, StoreInv, ControllerInv, ListInv, NEW p \in LocalPods,
         InstanceInv(p), HandledInv(p), NEW q \in LocalPods, StopSpec(q)
  PROVE  HandledInv(p)'
<1>0. /\ version \in Nat /\ stateVersion \in 0..version
      /\ relay \in [LocalPods -> Relays] /\ relay[p] \in Relays
      /\ Sound(relay[p]) /\ (p \notin dirty \cup raced => Clean(relay[p]))
  BY DEF TypeOK, StoreTypeOK, InstanceInv
<1> SUFFICES ASSUME stateVersion' = version', ~ Spared(p)'
             PROVE  HandledInv(p)'
  BY DEF HandledInv
<1>00. p \notin missed' /\ p \notin dirty' /\ p \notin raced'
  BY DEF Spared
<1>1. /\ pc = "specs" /\ q \in specs /\ list[cur].mode = "OFF"
      /\ relay[q].cmd # "launching"
      /\ UNCHANGED <<db, version, pc, stateVersion, list, pending, cur, missed,
                     dirty, raced>> /\ HandledSpec(q)
      /\ relay' = [relay EXCEPT ![q] = IF relay[q].proc = "up"
                                       THEN StopRelay(relay[q]) ELSE relay[q]]
  BY <1>0 DEF StopSpec, storeVars
<1>2. q # p => relay'[p] = relay[p]
  BY <1>0, <1>1
<1>3. ASSUME q = p PROVE relay'[p].cmd = "none" /\ db.modes[cur] = "OFF"
  <2>1. relay'[p] = IF relay[p].proc = "up" THEN StopRelay(relay[p]) ELSE relay[p]
    BY <1>0, <1>1, <1>3
  <2>2. Clean(relay[p])
    BY <1>0, <1>00, <1>1
  <2>3. Sound(relay[p]) /\ (relay[p].proc # "up" => relay[p].cmd = "none")
    BY <1>0, <2>2 DEF Clean
  <2>4. StopRelay(relay[p]).cmd = "none"
    BY <2>3, StopRelaySound
  <2> QED BY CurMode, <1>1, <2>1, <2>3, <2>4
<1> QED BY OneHandled, <1>1, <1>2, <1>3

\* or the call fails or meets a launch.
LEMMA HandledFails ==
  ASSUME TypeOK, StoreInv, ControllerInv, ListInv, NEW p \in LocalPods,
         InstanceInv(p), HandledInv(p),
         NEW q \in LocalPods, CallMeetsLaunch(q) \/ SpecFails(q)
  PROVE  HandledInv(p)'
<1>0. /\ version \in Nat /\ stateVersion \in 0..version
      /\ relay \in [LocalPods -> Relays] /\ relay[p] \in Relays
      /\ Sound(relay[p]) /\ (p \notin dirty \cup raced => Clean(relay[p]))
  BY DEF TypeOK, StoreTypeOK, InstanceInv
<1> SUFFICES ASSUME stateVersion' = version', ~ Spared(p)'
             PROVE  HandledInv(p)'
  BY DEF HandledInv
<1>00. p \notin missed' /\ p \notin dirty' /\ p \notin raced'
  BY DEF Spared
<1>1. /\ pc = "specs" /\ q \in specs /\ HandledSpec(q)
      /\ UNCHANGED <<db, version, pc, stateVersion, pending, cur, dirty>>
      /\ missed \subseteq missed' /\ raced \subseteq raced'
      /\ q \in missed' \cup raced'
      /\ \E t : relay' = [relay EXCEPT ![q] = t]
  BY DEF CallMeetsLaunch, SpecFails, storeVars
<1>2. q # p => relay'[p] = relay[p]
  BY <1>0, <1>1
<1> QED BY OneHandled, <1>1, <1>2

\* Instances and pods come and go.
LEMMA HandledInstance ==
  ASSUME TypeOK, StoreInv, ControllerInv, ListInv, NEW p \in LocalPods,
         InstanceInv(p), HandledInv(p),
         NEW q \in LocalPods,
         \/ runRelayBinary(q) \/ InstanceUp(q) \/ Launch(q) \/ ProxyFails(q)
         \/ PodRestarts(q) \/ InstanceDies(q)
  PROVE  HandledInv(p)'
<1>0. /\ version \in Nat /\ stateVersion \in 0..version
      /\ relay \in [LocalPods -> Relays] /\ relay[p] \in Relays
      /\ Sound(relay[p]) /\ (p \notin dirty \cup raced => Clean(relay[p]))
  BY DEF TypeOK, StoreTypeOK, InstanceInv
<1> SUFFICES ASSUME stateVersion' = version', ~ Spared(p)'
             PROVE  HandledInv(p)'
  BY DEF HandledInv
<1>00. p \notin missed' /\ p \notin dirty' /\ p \notin raced'
  BY DEF Spared
<1>1. /\ UNCHANGED <<db, version, stateVersion, pc, pending, cur, specs>>
      /\ missed \subseteq missed'
  BY Zenon DEF runRelayBinary, InstanceUp, Launch, ProxyFails, PodRestarts,
               InstanceDies, controllerVars, storeVars
<1>2. \A h \in Hosts : Handled(h, p)' <=> Handled(h, p)
  BY <1>1 DEF Handled
<1>3. CASE q # p
  <2>1. relay'[p] = relay[p]
    BY Zenon, <1>0, <1>3 DEF runRelayBinary, InstanceUp, Launch, ProxyFails,
                             PodRestarts, InstanceDies
  <2>2. p \in dirty \cup raced => p \in dirty' \cup raced'
    BY Zenon, <1>3 DEF runRelayBinary, InstanceUp, Launch, ProxyFails,
                       PodRestarts, InstanceDies
  <2>3. Spared(p) => Spared(p)'
    BY <1>1, <2>2 DEF Spared
  <2> QED BY HandledKept, <1>1, <1>2, <2>1, <2>3
<1>4. CASE q = p /\ (PodRestarts(q) \/ InstanceDies(q))
  BY Zenon, <1>00, <1>4 DEF PodRestarts, InstanceDies
<1>5. CASE q = p /\ (runRelayBinary(q) \/ InstanceUp(q) \/ Launch(q) \/ ProxyFails(q))
  <2>1. UNCHANGED <<missed, dirty, raced>>
    BY <1>5 DEF runRelayBinary, InstanceUp, Launch, ProxyFails
  <2>2. ~ Spared(p) /\ Clean(relay[p])
    BY <1>0, <1>00, <2>1 DEF Spared
  <2>3. /\ relay[p].cmd = "none" => relay'[p].cmd = "none"
        /\ relay[p].proc = "up" /\ relay[p].cmd # "none" =>
             /\ relay'[p].proc = "up" /\ relay'[p].cmd # "none"
             /\ relay'[p].conf = relay[p].conf
    <3>1. CASE runRelayBinary(p) \/ InstanceUp(p)
      BY <1>0, <3>1 DEF runRelayBinary, InstanceUp, Relays
    <3>2. CASE Launch(p)
      <4>1. relay'[p] = Launched(relay[p]) /\ relay[p].cmd = "launching"
        BY <1>0, <3>2 DEF Launch
      <4> QED BY <1>0, <2>2, <4>1, LaunchedSound
    <3>3. CASE ProxyFails(p)
      <4> DEFINE t == [relay[p] EXCEPT !.cmd = "launching", !.socat = None,
                                       !.rule = None]
      <4>1. relay'[p] = t /\ relay[p].cmd = "running"
        BY <1>0, <3>3 DEF ProxyFails
      <4>2. t.proc = relay[p].proc /\ t.conf = relay[p].conf /\ t.cmd = "launching"
        BY <1>0 DEF Relays
      <4> HIDE DEF t
      <4> QED BY <4>1, <4>2
    <3> QED BY <1>5, <3>1, <3>2, <3>3
  <2>4. Told(p) => Told(p)'
    BY HostsKept, <1>1, <2>3 DEF Told
  <2> QED BY HostsKept, HostModes, <1>1, <1>2, <2>2, <2>3, <2>4 DEF HandledInv
<1> QED BY <1>3, <1>4, <1>5

\* Under a version that stands, every pod that is behind a handled host is
\* treated as the tables say.
LEMMA HandledInvNext ==
  ASSUME TypeOK, StoreInv, ControllerInv, ListInv, NEW p \in LocalPods,
         InstanceInv(p), HandledInv(p), [Next]_vars
  PROVE  HandledInv(p)'
<1>0. /\ version \in Nat /\ stateVersion \in 0..version
      /\ relay \in [LocalPods -> Relays] /\ relay[p] \in Relays
      /\ Sound(relay[p]) /\ (p \notin dirty \cup raced => Clean(relay[p]))
  BY DEF TypeOK, StoreTypeOK, InstanceInv
<1> SUFFICES ASSUME stateVersion' = version', ~ Spared(p)'
             PROVE  HandledInv(p)'
  BY DEF HandledInv
<1>00. p \notin missed' /\ p \notin dirty' /\ p \notin raced'
  BY DEF Spared
<1>5. CASE \/ StateVersionChanged \/ QueryProtections \/ QueryIngresses
           \/ QueryUpstreams \/ \E h \in Hosts : QueryPorts(h)
  BY <1>5 DEF StateVersionChanged, QueryProtections, QueryIngresses,
              QueryUpstreams, QueryPorts, Handled, HandledInv
<1>6. CASE ListProtectionsFails
  BY <1>00, <1>6 DEF ListProtectionsFails, HandledInv
<1>9. CASE Sleep
  <2>1. /\ UNCHANGED <<db, version, stateVersion, relay, missed, dirty, raced>>
        /\ \A h \in Hosts : Handled(h, p)
    BY <1>9 DEF Sleep, storeVars, Handled
  <2>2. Spared(p) => Spared(p)'
    BY <2>1 DEF Spared
  <2> QED BY HandledKept, <2>1, <2>2
<1>10. CASE NewController
  <2>1. db' = db /\ version = 0
    BY Zenon, <1>0, <1>10 DEF NewController, storeVars
  <2>2. \A h \in Hosts : db.modes[h] = None
    BY <2>1 DEF StoreInv, FirstVersion
  <2>3. ProtectedHosts(p) = {} /\ UnprotectedHosts(p) = {}
    BY HostModes, <2>2, StoreAssumption DEF StoreAssumption
  <2> QED BY HostsKept, <2>1, <2>3 DEF HandledInv
<1>11. CASE \E x \in Hosts, lost \in SUBSET LocalPods : getRelayInstanceSpecs(x, lost)
  BY <1>11, HandledSpecs
<1>12. CASE \E q \in LocalPods :
              StartSpec(q) \/ StopSpec(q) \/ CallMeetsLaunch(q) \/ SpecFails(q)
  BY <1>12, HandledStart, HandledStop, HandledFails
<1>13. CASE \E q \in LocalPods :
              \/ runRelayBinary(q) \/ InstanceUp(q) \/ Launch(q) \/ ProxyFails(q)
              \/ PodRestarts(q) \/ InstanceDies(q)
  BY <1>13, HandledInstance
<1>17. CASE UNCHANGED vars
  <2>1. /\ UNCHANGED <<db, version, stateVersion, relay, missed, dirty, raced>>
        /\ \A h \in Hosts : Handled(h, p)' <=> Handled(h, p)
    BY <1>17 DEF vars, Handled
  <2>2. Spared(p) => Spared(p)'
    BY <2>1 DEF Spared
  <2> QED BY HandledKept, <2>1, <2>2
<1> QED BY <1>5, <1>6, <1>9, <1>10, <1>11, <1>12, <1>13, <1>17, HandledStoreNext,
           HandledGotList DEF Next, Own, Controller

-----------------------------------------------------------------------------
\* IInv holds of the initial state and every step keeps it.
LEMMA IInvInvariant == Spec => []IInv
<1>1. Init => IInv
  <2> SUFFICES ASSUME Init PROVE IInv
    OBVIOUS
  <2>1. StoreTypeOK /\ StoreInv /\ db.modes = [h \in Hosts |-> None] /\ version = 0
    BY StoreInitInv DEF Init, StoreInit
  <2>2. /\ pc = "sleep" /\ stateVersion = 0 /\ list = EmptyList /\ todo = {}
        /\ pending = {} /\ cur = None /\ specs = {} /\ faults = 0
        /\ missed = {} /\ dirty = {} /\ raced = {}
    BY DEF Init
  <2>3. /\ relay \in [LocalPods -> Relays]
        /\ \A p \in LocalPods : Sound(relay[p]) /\ Clean(relay[p])
    BY FreshSound DEF Init, Sound
  <2>4. TypeOK
    <3>1. faults \in 0..MaxFaults /\ stateVersion \in 0..version
      BY <2>1, <2>2, RelayAssumption DEF RelayAssumption
    <3> QED BY <2>1, <2>2, <2>3, <3>1, EmptyListType DEF TypeOK, Sound
  <2>5. ControllerInv /\ ListInv
    BY <2>2, EmptyListType DEF ControllerInv, ListInv
  <2>6. ASSUME NEW p \in LocalPods PROVE InstanceInv(p) /\ HandledInv(p)
    <3>1. ProtectedHosts(p) = {} /\ UnprotectedHosts(p) = {}
      BY <2>1, StoreAssumption
      DEF ProtectedHosts, UnprotectedHosts, HostsOf, StoreAssumption
    <3> QED BY <2>3, <3>1 DEF InstanceInv, HandledInv
  <2> QED BY <2>1, <2>4, <2>5, <2>6 DEF IInv
<1>2. IInv /\ [Next]_vars => IInv'
  <2> SUFFICES ASSUME IInv, [Next]_vars PROVE IInv'
    OBVIOUS
  <2>1. \A p \in LocalPods : HandledInv(p)'
    BY HandledInvNext DEF IInv
  <2> QED BY <2>1, TypeNext, StoreInvNext, ControllerInvNext, ListInvNext,
             InstanceInvNext DEF IInv
<1> QED BY <1>1, <1>2, PTL DEF Spec

\* Every state the controller and the instances reach is well formed; an
\* instance that believes its socat to run has options and a socat.
THEOREM TypeCorrect == Spec => []TypeOK
<1>1. IInv => TypeOK
  BY DEF IInv
<1> QED BY <1>1, IInvInvariant, PTL

\* A controller at rest with the current version recorded has left every pod
\* of its node as the tables say, but for the pods a failure, a crash, a race
\* or an unversioned change concerns: however the statements of the API
\* server fell between its queries, and in whatever order it met the hosts.
THEOREM Current == Spec => []RelaysCurrent
<1>1. IInv => RelaysCurrent
  <2> SUFFICES ASSUME IInv, pc = "sleep", stateVersion = version,
                      NEW p \in LocalPods, ~ Spared(p), relay[p].cmd # "launching"
               PROVE  Relayed(p)
    BY DEF RelaysCurrent
  <2>1. InstanceInv(p) /\ HandledInv(p) /\ p \notin dirty \cup raced
    BY DEF IInv, Spared
  <2>2. Clean(relay[p]) /\ relay[p] \in Relays
    BY <2>1 DEF InstanceInv, Sound
  <2>3. \A h : Handled(h, p)
    BY DEF Handled
  <2>4. ASSUME ProtectedHosts(p) # {}, UnprotectedHosts(p) = {}
        PROVE  \E h \in ProtectedHosts(p) : \E row \in ContainerPortRows(db, h) :
                 /\ relay[p].proc = "up"
                 /\ relay[p].socat = discoverRelayOptions(row)
                 /\ relay[p].rule = row.number
    <3>1. Told(p)
      BY <2>1, <2>3, <2>4 DEF HandledInv
    <3>2. PICK h \in ProtectedHosts(p) : \E row \in ContainerPortRows(db, h) :
            relay[p].conf = discoverRelayOptions(row)
      BY <3>1 DEF Told
    <3>3. relay[p].proc = "up" /\ relay[p].cmd = "running"
      BY <2>2, <3>1 DEF Told, Relays
    <3>4. relay[p].socat = relay[p].conf /\ relay[p].rule = relay[p].conf.number
      BY <2>2, <3>3 DEF Clean
    <3>5. PICK row \in ContainerPortRows(db, h) :
            relay[p].conf = discoverRelayOptions(row)
      BY <3>2
    <3>6. relay[p].rule = row.number
      BY <3>4, <3>5 DEF discoverRelayOptions
    <3> QED BY Zenon, <3>2, <3>3, <3>4, <3>5, <3>6
  <2>5. ASSUME UnprotectedHosts(p) # {}, \A h \in HostsOf(db, p) : db.modes[h] # "ON"
        PROVE  relay[p].rule = None
    BY <2>1, <2>2, <2>3, <2>5 DEF HandledInv, Clean
  <2> QED BY <2>4, <2>5 DEF Relayed
<1> QED BY <1>1, IInvInvariant, PTL

-----------------------------------------------------------------------------
(* Where the options of a socat come from.                                 *)

\* The options of the instance, and those its socat was started with, are of S.
Within(t, S) == t.conf \in S /\ t.socat \in S

\* A torn launch leaves a relay with the options that were there.
LEMMA TornOptions ==
  ASSUME NEW r \in Relays, NEW t \in Torn(r)
  PROVE  t \in [proc: {r.proc}, conf: {r.conf}, cmd: {r.cmd},
                socat: {r.socat, r.conf}, rule: {r.rule, r.conf.number}]
<1>1. PICK x \in {r.socat, r.conf}, n \in {r.rule, r.conf.number} :
        t = [r EXCEPT !.socat = x, !.rule = n]
  BY DEF Torn
<1>2. r = [proc |-> r.proc, conf |-> r.conf, cmd |-> r.cmd,
           socat |-> r.socat, rule |-> r.rule]
  BY DEF Relays
<1> QED BY Zenon, <1>1, <1>2

\* Stopping a relay, launching socat and dying in between bring in no options.
LEMMA RelayOptions ==
  ASSUME NEW s, Sound(s), NEW S, None \in S, Within(s, S)
  PROVE  /\ Within(StopRelay(s), S) /\ Within(Launched(s), S)
         /\ \A t \in Torn(s) : Within(t, S)
<1>0. s \in Relays
  BY DEF Sound
<1>1. Within(StopRelay(s), S)
  BY StopRelaySound DEF Within
<1>2. Launched(s).conf = s.conf /\ Launched(s).socat \in {s.socat, s.conf}
  BY <1>0 DEF Launched, Relays
<1>3. ASSUME NEW t \in Torn(s) PROVE Within(t, S)
  BY <1>0, TornOptions DEF Within
<1> QED BY <1>1, <1>2, <1>3 DEF Within

\* A call brings in no options but those it is given.
LEMMA CallOptions ==
  ASSUME NEW s, Sound(s), NEW S, None \in S, Within(s, S), NEW o \in Options, o \in S
  PROVE  /\ Within(StartRelay(s, o), S)
         /\ \A t \in TornCall(s, o) : Within(t, S)
<1>0. s \in Relays
  BY DEF Sound
<1>1. Within(StartRelay(s, o), S)
  <2> DEFINE c == IF s.conf \in {None, o} THEN s ELSE StopRelay(s)
             x == IF c.cmd = "running" THEN c.cmd ELSE "launching"
  <2>1. c \in Relays /\ Within(c, S)
    BY <1>0, RelayOptions, StopRelaySound DEF Sound
  <2>2. StartRelay(s, o) = [c EXCEPT !.conf = o, !.cmd = x]
    BY DEF StartRelay
  <2> HIDE DEF c, x
  <2>3. /\ [c EXCEPT !.conf = o, !.cmd = x].conf = o
        /\ [c EXCEPT !.conf = o, !.cmd = x].socat = c.socat
    BY <2>1 DEF Relays
  <2> QED BY <2>1, <2>2, <2>3 DEF Within
<1>2. ASSUME NEW t \in TornCall(s, o) PROVE Within(t, S)
  <2>1. /\ [s EXCEPT !.conf = o] \in Relays /\ Within([s EXCEPT !.conf = o], S)
        /\ [s EXCEPT !.rule = None] \in Relays /\ Within([s EXCEPT !.rule = None], S)
    BY <1>0 DEF Relays, Within
  <2>2. PICK u \in Torn(s) \cup Torn([s EXCEPT !.conf = o])
                     \cup Torn([s EXCEPT !.rule = None]) :
          t \in {u, [u EXCEPT !.conf = o], [u EXCEPT !.conf = o, !.cmd = "none"]}
    BY Zenon, <1>2 DEF TornCall
  <2>3. PICK r \in Relays : Within(r, S) /\ u \in Torn(r)
    BY <1>0, <2>1, <2>2
  <2>4. u \in [proc: {r.proc}, conf: {r.conf}, cmd: {r.cmd},
               socat: {r.socat, r.conf}, rule: {r.rule, r.conf.number}]
    BY <2>3, TornOptions
  <2>5. /\ Within(u, S) /\ Within([u EXCEPT !.conf = o], S)
        /\ Within([u EXCEPT !.conf = o, !.cmd = "none"], S)
    BY <2>3, <2>4 DEF Within
  <2> QED BY Zenon, <2>2, <2>5
<1> QED BY <1>1, <1>2

\* What the controller read stems from the table.
LEMMA ListFromTables ==
  ASSUME IInv, FromTables, [Next]_vars
  PROVE  /\ db.ports \subseteq db'.ports
         /\ \A h \in Listed(list') :
              list'[h].first # None => list'[h].first \in db'.ports
<1>0. /\ StoreTypeOK /\ StoreInv /\ list \in Lists /\ todo \subseteq Listed(list)
      /\ \A h \in Listed(list) : list[h].first # None => list[h].first \in db.ports
  BY DEF IInv, TypeOK, FromTables
<1>1. db.ports \subseteq db'.ports
  <2>1. CASE StoreNext
    BY <1>0, <2>1, StatementPorts DEF StoreNext, StoreInv
  <2>2. CASE UNCHANGED storeVars
    BY <2>2 DEF storeVars
  <2> QED BY <2>1, <2>2, StoreFrame
<1>2. CASE list' = list
  BY <1>0, <1>1, <1>2
<1>3. CASE QueryProtections
  <2>1. \A h \in Listed(list') : list'[h].first = None
    BY <1>0, <1>3, QueryProtectionsEffect
  <2> QED BY <1>1, <2>1
<1>4. CASE QueryIngresses
  <2>1. /\ Listed(list') = Listed(list)
        /\ \A h \in Listed(list) : list'[h].first = list[h].first
    BY <1>0, <1>4, QueryIngressesEffect
  <2> QED BY <1>0, <1>1, <2>1
<1>5. CASE QueryUpstreams
  <2>1. /\ Listed(list') = Listed(list)
        /\ \A h \in Listed(list) : list'[h].first = list[h].first
    BY <1>0, <1>5, QueryUpstreamsEffect
  <2> QED BY <1>0, <1>1, <2>1
<1>6. ASSUME NEW h \in Hosts, QueryPorts(h)
      PROVE  \A x \in Listed(list') :
               list'[x].first # None => list'[x].first \in db'.ports
  <2>1. /\ Listed(list') = Listed(list)
        /\ \A x \in Hosts \ {h} : list'[x] = list[x]
        /\ IsFirst(list'[h].first, PortsFound(db, list, h))
    BY <1>0, <1>6, QueryPortsEffect
  <2> QED BY <1>0, <1>1, <2>1 DEF IsFirst, PortsFound, Listed
<1>7. CASE ListProtectionsFails \/ Sleep \/ NewController
  <2>1. Listed(list') = {}
    BY <1>7, EmptyListType DEF ListProtectionsFails, Sleep, NewController
  <2> QED BY <1>1, <2>1
<1> QED
  BY Zenon, <1>1, <1>2, <1>3, <1>4, <1>5, <1>6, <1>7
  DEF Next, Own, Controller, StoreNext, StateVersionChanged, GotList,
      getRelayInstanceSpecs, StartSpec, runRelayBinary, StopSpec,
      CallMeetsLaunch, SpecFails, InstanceUp, Launch, ProxyFails, PodRestarts,
      InstanceDies, controllerVars, vars

\* What an instance was told and what its socat does stems from the table.
LEMMA FromTablesNext ==
  ASSUME IInv, FromTables, [Next]_vars PROVE FromTables'
<1> DEFINE Table == KnownOptions \cup {None}
           Known(t) == Within(t, Table)
           Goal == \A p \in LocalPods : Known(relay[p])'
<1>0. /\ relay \in [LocalPods -> Relays]
      /\ \A p \in LocalPods : Sound(relay[p]) /\ Known(relay[p])
      /\ None \in Table
  BY DEF IInv, TypeOK, InstanceInv, FromTables, Within
<1>1. \A o \in KnownOptions : o \in KnownOptions'
  BY ListFromTables DEF KnownOptions
<1>00. Goal => FromTables'
  BY ListFromTables DEF FromTables, Within
<1>2. CASE relay' = relay
  BY <1>0, <1>00, <1>1, <1>2 DEF Within
<1>3. ASSUME NEW p \in LocalPods, NEW t, relay' = [relay EXCEPT ![p] = t], Known(t)
      PROVE  FromTables'
  <2>1. /\ relay'[p] = t
        /\ \A q \in LocalPods \ {p} : relay'[q] = relay[q]
    BY <1>0, <1>3
  <2>2. Known(t)'
    BY <1>1, <1>3 DEF Within
  <2>3. \A q \in LocalPods \ {p} : Known(relay[q])'
    BY <1>0, <1>1, <2>1 DEF Within
  <2> QED BY <1>00, <2>1, <2>2, <2>3
<1>4. ASSUME specs # {}, list[cur].mode = "ON"
      PROVE  CurOptions \in KnownOptions /\ CurOptions \in Options
  <2>1. cur \in Listed(list) /\ list[cur].first # None
    BY <1>4 DEF IInv, ControllerInv
  <2>2. list[cur].first \in db.ports
    BY <2>1 DEF FromTables
  <2> QED BY <1>4, <2>2, CurOptionsType DEF IInv, CurOptions, KnownOptions
<1>5. ASSUME NEW p \in LocalPods, StartSpec(p) PROVE FromTables'
  <2>1. CurOptions \in KnownOptions /\ CurOptions \in Options
    BY <1>4, <1>5 DEF StartSpec
  <2>2. Known(StartRelay(relay[p], CurOptions))
    BY <1>0, <2>1, CallOptions
  <2>3. relay' = [relay EXCEPT ![p] = StartRelay(relay[p], CurOptions)]
    BY <1>0, <1>5 DEF StartSpec
  <2> QED BY Zenon, <1>3, <2>2, <2>3
<1>6. ASSUME NEW p \in LocalPods, runRelayBinary(p) \/ InstanceUp(p)
      PROVE  FromTables'
  <2>1. PICK x : relay' = [relay EXCEPT ![p] = [relay[p] EXCEPT !.proc = x]]
    BY <1>0, <1>6 DEF runRelayBinary, InstanceUp
  <2>2. Known([relay[p] EXCEPT !.proc = x])
    BY <1>0 DEF Relays, Within
  <2> QED BY Zenon, <1>3, <2>1, <2>2
<1>7. ASSUME NEW p \in LocalPods, StopSpec(p) PROVE FromTables'
  <2> DEFINE t == IF relay[p].proc = "up" THEN StopRelay(relay[p]) ELSE relay[p]
  <2>1. relay' = [relay EXCEPT ![p] = t]
    BY <1>0, <1>7 DEF StopSpec
  <2>2. Known(t)
    BY <1>0, RelayOptions
  <2> HIDE DEF t
  <2> QED BY Zenon, <1>3, <2>1, <2>2
<1>8. ASSUME NEW p \in LocalPods, CallMeetsLaunch(p) PROVE FromTables'
  <2> DEFINE o == IF list[cur].mode = "ON" THEN CurOptions ELSE relay[p].conf
  <2>1. PICK t \in TornCall(relay[p], o) : relay' = [relay EXCEPT ![p] = t]
    BY Zenon, <1>8 DEF CallMeetsLaunch
  <2>2. specs # {} /\ relay[p].cmd = "launching"
    BY <1>8 DEF CallMeetsLaunch
  <2>3. relay[p].conf \in Options /\ relay[p].conf \in KnownOptions
    BY <1>0, <2>2 DEF Sound, Relays, Within
  <2>4. o \in Options /\ o \in KnownOptions
    BY <1>4, <2>2, <2>3
  <2> HIDE DEF o
  <2>5. Known(t)
    BY <1>0, <2>1, <2>4, CallOptions
  <2> QED BY Zenon, <1>3, <2>1, <2>5
<1>9. ASSUME NEW p \in LocalPods, SpecFails(p) PROVE FromTables'
  <2>1. PICK t : /\ relay' = [relay EXCEPT ![p] = t]
                 /\ \/ t = relay[p] \/ t = StopRelay(relay[p])
                    \/ /\ list[cur].mode = "ON"
                       /\ t = StartRelay(relay[p], CurOptions)
    BY Zenon, <1>9 DEF SpecFails
  <2>2. specs # {}
    BY <1>9 DEF SpecFails
  <2>3. CASE t = relay[p] \/ t = StopRelay(relay[p])
    <3>1. Known(t)
      BY <1>0, <2>3, RelayOptions
    <3> QED BY Zenon, <1>3, <2>1, <3>1
  <2>4. CASE list[cur].mode = "ON" /\ t = StartRelay(relay[p], CurOptions)
    <3>1. CurOptions \in KnownOptions /\ CurOptions \in Options
      BY <1>4, <2>2, <2>4
    <3>2. Known(t)
      BY Zenon, <1>0, <2>4, <3>1, CallOptions
    <3> QED BY Zenon, <1>3, <2>1, <3>2
  <2> QED BY <2>1, <2>3, <2>4
<1>10. ASSUME NEW p \in LocalPods, Launch(p) PROVE FromTables'
  <2>1. relay' = [relay EXCEPT ![p] = Launched(relay[p])]
    BY <1>0, <1>10 DEF Launch
  <2>2. Known(Launched(relay[p]))
    BY Zenon, <1>0, RelayOptions
  <2> QED BY Zenon, <1>3, <2>1, <2>2
<1>11. ASSUME NEW p \in LocalPods, ProxyFails(p) PROVE FromTables'
  <2> DEFINE t == [relay[p] EXCEPT !.cmd = "launching", !.socat = None, !.rule = None]
  <2>1. relay' = [relay EXCEPT ![p] = t]
    BY Zenon, <1>0, <1>11 DEF ProxyFails
  <2>2. t.conf = relay[p].conf /\ t.socat = None
    BY <1>0 DEF Relays
  <2>3. Known(t)
    BY <1>0, <2>2 DEF Within
  <2> HIDE DEF t
  <2> QED BY Zenon, <1>3, <2>1, <2>3
<1>12. ASSUME NEW p \in LocalPods, PodRestarts(p) PROVE FromTables'
  <2>1. Known(Fresh)
    BY DEF Fresh, Within
  <2> QED BY Zenon, <1>3, <1>12, <2>1 DEF PodRestarts
<1>13. ASSUME NEW p \in LocalPods, InstanceDies(p) PROVE FromTables'
  <2>1. PICK t \in MayLeave(p) :
          relay' = [relay EXCEPT ![p] = [Fresh EXCEPT !.socat = t.socat,
                                                      !.rule = t.rule]]
    BY Zenon, <1>13 DEF InstanceDies
  <2>2. Known(t)
    BY <1>0, RelayOptions DEF MayLeave
  <2>3. /\ [Fresh EXCEPT !.socat = t.socat, !.rule = t.rule].conf = None
        /\ [Fresh EXCEPT !.socat = t.socat, !.rule = t.rule].socat = t.socat
    BY DEF Fresh
  <2>4. Known([Fresh EXCEPT !.socat = t.socat, !.rule = t.rule])
    BY <1>0, <2>2, <2>3 DEF Within
  <2> QED BY Zenon, <1>3, <2>1, <2>4
<1>14. CASE NewController
  <2>1. \A p \in LocalPods : relay'[p].conf = None /\ relay'[p].socat = None
    BY <1>14 DEF NewController, Fresh
  <2> QED BY <1>00, <2>1 DEF Within
<1>15. CASE \/ StoreNext \/ StateVersionChanged \/ QueryProtections
            \/ QueryIngresses \/ QueryUpstreams \/ (\E h \in Hosts : QueryPorts(h))
            \/ GotList \/ ListProtectionsFails \/ Sleep \/ UNCHANGED vars
            \/ \E h \in Hosts, lost \in SUBSET LocalPods :
                 getRelayInstanceSpecs(h, lost)
  BY <1>2, <1>15
  DEF StoreNext, StateVersionChanged, QueryProtections, QueryIngresses,
      QueryUpstreams, QueryPorts, GotList, ListProtectionsFails, Sleep, vars,
      getRelayInstanceSpecs
<1> QED BY <1>5, <1>6, <1>7, <1>8, <1>9, <1>10, <1>11, <1>12, <1>13, <1>14, <1>15
        DEF Next, Own, Controller

\* However stale, however often restarted: a socat only ever sends to a proxy
\* port that a row of the table has for the container port it relays.
THEOREM NodeFromTables == Spec => []FromTables
<1>1. Init => FromTables
  <2> SUFFICES ASSUME Init PROVE FromTables
    OBVIOUS
  <2>1. Listed(list) = {}
    BY EmptyListType DEF Init
  <2>2. \A p \in LocalPods : relay[p].conf = None /\ relay[p].socat = None
    BY DEF Init, Fresh
  <2> QED BY <2>1, <2>2 DEF FromTables
<1>2. IInv /\ FromTables /\ [Next]_vars => FromTables'
  BY FromTablesNext
<1> QED BY <1>1, <1>2, IInvInvariant, PTL DEF Spec
=============================================================================
