---------------------------- MODULE ConfigProofs ----------------------------
(***************************************************************************)
(* Proofs about the writers of the configuration and about its readers.    *)
(*                                                                         *)
(* ApiServer: for every set of hosts, services, addresses and ports and    *)
(* any number of concurrent users, as long as the calls of CreateRoute do  *)
(* not overlap (SerialRoutes).                                             *)
(*                                                                         *)
(* DataPath: that the two parts do what is proved of them alone            *)
(* (ControlPlaneProofs, RelayControllerProofs) enters as a hypothesis:     *)
(* theorems of a module are not available for its instances.  The          *)
(* hypotheses are those theorems with the variables renamed as in Gateway  *)
(* and Node.                                                               *)
(***************************************************************************)
EXTENDS ApiServer, DataPath, StoreProofs

-----------------------------------------------------------------------------
(* The API server.                                                         *)

\* The op of a call tells which fields it has.
LEMMA CallKinds ==
  ASSUME NEW r \in Calls
  PROVE  /\ r.op \in {"ingress", "ports"} => r \in RouteCalls
         /\ r.op = "insert" => r \in InsertCalls
         /\ r.op \in {"create", "save"} => r \in UpsertCalls
         /\ r.op = "update" => r \in UpdateCalls
         /\ r.op = "idle" => r = Idle
BY DEF Calls, Idle, RouteCalls, InsertCalls, UpsertCalls, UpdateCalls

\* Every step commits one statement or none.
LEMMA StepIsStatement ==
  ASSUME SerialRoutes, TypeOK, HookInv, Next
  PROVE  Statement \/ UNCHANGED storeVars
<1> USE DEF TypeOK, Ports
<1>1. ASSUME NEW c \in RouteClients, RouteStep(c)
      PROVE  Statement \/ UNCHANGED storeVars
  <2>0. c \in Clients /\ call[c] \in Calls
    BY DEF Clients
  <2>1. CASE \E h \in Hosts, s \in Svcs, eps \in Endpoints,
                m \in BOOLEAN \cup {None}, ports \in SUBSET Ports :
               CreateRoute(c, h, s, eps, m, ports)
    BY <2>1 DEF CreateRoute, Statement
  <2>2. CASE CreateRouteIngress(c)
    <3>1. call[c] \in RouteCalls
      BY <2>0, <2>2, CallKinds DEF CreateRouteIngress
    <3>2. call[c].host \in Hosts /\ call[c].svc \in Svcs
      BY <3>1 DEF RouteCalls
    <3> QED BY <2>2, <3>2 DEF CreateRouteIngress, Statement
  <2>3. CASE \/ \E n \in Ports, p \in ProxyPorts \cup {None} :
                  CreateRouteHook(c, n, p)
             \/ \E n \in Ports : CreateRouteNoPort(c, n)
    BY Zenon, <2>3 DEF CreateRouteHook, CreateRouteNoPort
  <2>4. CASE CreateRoutePort(c)
    <3> DEFINE r == call[c]
    <3>1. r \in InsertCalls /\ r.op = "insert"
      BY <2>0, <2>4, CallKinds DEF CreateRoutePort
    <3>2. /\ r.host \in Hosts /\ r.svc \in Svcs
          /\ r.number \in ContainerPorts \cup SvcPorts
          /\ r.proxy \in ProxyPorts \cup {None}
      BY <3>1 DEF InsertCalls
    <3>3. allocateProxyListenerPort(r.host, r.svc, r.number, r.proxy)
      BY <3>1 DEF HookInv
    <3>4. SavePort(r.host, r.svc, r.number, r.proxy)
      BY <2>4 DEF CreateRoutePort
    <3> QED BY <3>2, <3>3, <3>4 DEF Statement
  <2>5. CASE \E s \in Svcs, eps \in Endpoints, m \in BOOLEAN \cup {None} :
               UpdateRoute(c, s, eps, m)
    BY <2>5 DEF UpdateRoute, Statement
  <2> QED BY <1>1, <2>1, <2>2, <2>3, <2>4, <2>5 DEF RouteStep
<1>2. ASSUME NEW c \in ProtectionClients, ProtectionStep(c)
      PROVE  Statement \/ UNCHANGED storeVars
  <2>0. c \in Clients /\ call[c] \in Calls
    BY DEF Clients
  <2>1. CASE \E h \in Hosts : CreateApplication(c, h)
    BY <2>1 DEF CreateApplication, Statement
  <2>2. CASE \/ \E h \in Hosts : CreateProtection(c, h)
             \/ \E h \in Hosts, m \in Modes \cup {None},
                   d \in DesiredStates \cup {None} : PutProtection(c, h, m, d)
    BY Zenon, <2>2 DEF CreateProtection, PutProtection
  <2>3. CASE CreateProtectionSave(c)
    <3>1. call[c].host \in Hosts /\ call[c].desired \in DesiredStates
      BY <2>0, <2>3, CallKinds DEF CreateProtectionSave, UpsertCalls
    <3>2. WriteProtection(call[c].host, "ON", call[c].desired)
      BY <2>3 DEF CreateProtectionSave
    <3> QED BY <3>1, <3>2 DEF Statement, Modes
  <2>4. CASE CreateProtectionInsert(c)
    <3>1. call[c].host \in Hosts
      BY <2>0, <2>4, CallKinds DEF CreateProtectionInsert, UpsertCalls
    <3>2. \/ WriteProtection(call[c].host, "ON", EmptyDesiredState)
          \/ UNCHANGED storeVars
      BY <2>4 DEF CreateProtectionInsert
    <3> QED BY <3>1, <3>2, EmptyDesiredStateType DEF Statement, Modes
  <2>5. CASE PutProtectionUpdate(c)
    <3>1. /\ call[c].host \in Hosts /\ call[c].mode \in Modes
          /\ call[c].desired \in DesiredStates
      BY <2>0, <2>5, CallKinds DEF PutProtectionUpdate, UpdateCalls
    <3>2. WriteProtection(call[c].host, call[c].mode, call[c].desired)
      BY <2>5 DEF PutProtectionUpdate
    <3> QED BY <3>1, <3>2 DEF Statement
  <2> QED BY <1>2, <2>1, <2>2, <2>3, <2>4, <2>5 DEF ProtectionStep
<1>3. CASE \E c \in Clients : CutShort(c)
  BY <1>3 DEF CutShort
<1> QED BY <1>1, <1>2, <1>3 DEF Next

\* Every step leaves the calls well formed.
LEMMA CallsType ==
  ASSUME TypeOK, Next
  PROVE  call' \in [Clients -> Calls] /\ faults' \in 0..MaxFaults
<1> USE DEF TypeOK, Return, Goto
<1>0. Idle \in Calls
  BY DEF Calls
<1>1. ASSUME NEW c \in RouteClients, RouteStep(c)
      PROVE  call' \in [Clients -> Calls] /\ faults' \in 0..MaxFaults
  <2>0. c \in Clients /\ call[c] \in Calls
    BY DEF Clients
  <2>1. ASSUME NEW h \in Hosts, NEW s \in Svcs, NEW eps \in Endpoints,
               NEW m \in BOOLEAN \cup {None}, NEW ports \in SUBSET Ports,
               CreateRoute(c, h, s, eps, m, ports)
        PROVE  call' \in [Clients -> Calls] /\ faults' \in 0..MaxFaults
    <3> DEFINE r == [op |-> "ingress", host |-> h, svc |-> s, ports |-> ports,
                     todo |-> ports]
    <3>1. r \in Calls
      BY DEF Calls, RouteCalls
    <3>2. call' = [call EXCEPT ![c] = r] /\ faults' = faults
      BY <2>1 DEF CreateRoute
    <3> HIDE DEF r
    <3> QED BY Zenon, <3>1, <3>2
  <2>2. CASE CreateRouteIngress(c)
    <3>1. call[c] \in RouteCalls
      BY <2>0, <2>2, CallKinds DEF CreateRouteIngress
    <3>2. [call[c] EXCEPT !.op = "ports"] \in Calls
      BY <3>1 DEF RouteCalls, Calls
    <3> QED BY <1>0, <2>2, <3>2 DEF CreateRouteIngress
  <2>3. ASSUME NEW n \in Ports, NEW p \in ProxyPorts \cup {None},
               CreateRouteHook(c, n, p)
        PROVE  call' \in [Clients -> Calls] /\ faults' \in 0..MaxFaults
    <3>1. call[c] \in RouteCalls
      BY <2>0, <2>3, CallKinds DEF CreateRouteHook
    <3> DEFINE r == [op |-> "insert", host |-> call[c].host, svc |-> call[c].svc,
                     ports |-> call[c].ports, todo |-> call[c].todo,
                     number |-> n, proxy |-> p]
    <3>2. r \in Calls
      BY <3>1 DEF RouteCalls, InsertCalls, Calls
    <3>3. call' = [call EXCEPT ![c] = r] /\ faults' = faults
      BY <2>3 DEF CreateRouteHook
    <3> HIDE DEF r
    <3> QED BY Zenon, <3>2, <3>3
  <2>4. CASE \E n \in Ports : CreateRouteNoPort(c, n)
    BY Zenon, <1>0, <2>4 DEF CreateRouteNoPort
  <2>5. CASE CreateRoutePort(c)
    <3>1. call[c] \in InsertCalls
      BY <2>0, <2>5, CallKinds DEF CreateRoutePort
    <3> DEFINE r == [op |-> "ports", host |-> call[c].host, svc |-> call[c].svc,
                     ports |-> call[c].ports,
                     todo |-> call[c].todo \ {call[c].number}]
    <3>2. r \in Calls
      BY <3>1 DEF RouteCalls, InsertCalls, Calls
    <3>3. /\ call' = [call EXCEPT ![c] = r] \/ call' = [call EXCEPT ![c] = Idle]
          /\ faults' = faults
      BY <2>5 DEF CreateRoutePort
    <3> HIDE DEF r
    <3> QED BY <1>0, <3>2, <3>3
  <2>6. CASE \E s \in Svcs, eps \in Endpoints, m \in BOOLEAN \cup {None} :
               UpdateRoute(c, s, eps, m)
    BY <2>6 DEF UpdateRoute
  <2> QED BY Zenon, <1>1, <2>1, <2>2, <2>3, <2>4, <2>5, <2>6 DEF RouteStep
<1>2. ASSUME NEW c \in ProtectionClients, ProtectionStep(c)
      PROVE  call' \in [Clients -> Calls] /\ faults' \in 0..MaxFaults
  <2>0. db.desired \in [Hosts -> DesiredStates] /\ db.modes \in [Hosts -> Modes \cup {None}]
    BY DEF StoreTypeOK, Tables
  <2>1. ASSUME NEW h \in Hosts, CreateProtection(c, h)
        PROVE  call' \in [Clients -> Calls] /\ faults' \in 0..MaxFaults
    <3> DEFINE r == [op |-> IF db.modes[h] = None THEN "create" ELSE "save",
                     host |-> h, desired |-> db.desired[h]]
    <3>1. r \in Calls
      BY <2>0 DEF Calls, UpsertCalls
    <3>2. call' = [call EXCEPT ![c] = r] /\ faults' = faults
      BY <2>1 DEF CreateProtection
    <3> HIDE DEF r
    <3> QED BY Zenon, <3>1, <3>2
  <2>2. ASSUME NEW h \in Hosts, NEW m \in Modes \cup {None},
               NEW d \in DesiredStates \cup {None}, PutProtection(c, h, m, d)
        PROVE  call' \in [Clients -> Calls] /\ faults' \in 0..MaxFaults
    <3> DEFINE r == [op |-> "update", host |-> h, request |-> m,
                     mode |-> IF m = None THEN db.modes[h] ELSE m,
                     desired |-> IF d = None THEN db.desired[h] ELSE d]
    <3>1. db.modes[h] \in Modes
      BY <2>0, <2>2 DEF PutProtection
    <3>2. r \in UpdateCalls
      BY <2>0, <3>1 DEF UpdateCalls
    <3>3. call' = [call EXCEPT ![c] = r] /\ faults' = faults
      BY <2>2 DEF PutProtection
    <3> HIDE DEF r
    <3> QED BY Zenon, <3>2, <3>3 DEF Calls
  <2>3. CASE \/ CreateProtectionSave(c) \/ CreateProtectionInsert(c)
             \/ PutProtectionUpdate(c)
             \/ \E h \in Hosts : CreateApplication(c, h)
    BY <1>0, <2>3 DEF CreateProtectionSave, CreateProtectionInsert,
                      PutProtectionUpdate, CreateApplication
  <2> QED BY <1>2, <2>1, <2>2, <2>3 DEF ProtectionStep
<1>3. CASE \E c \in Clients : CutShort(c)
  BY <1>0, <1>3, ClientsAssumption DEF CutShort, ClientsAssumption
<1> QED BY <1>1, <1>2, <1>3 DEF Next

\* The hook's answer survives what others do, since no other call writes
\* to ports.
LEMMA HookInvNext ==
  ASSUME SerialRoutes, TypeOK, HookInv, Next
  PROVE  HookInv'
<1> DEFINE Hook(c) == allocateProxyListenerPort(call[c].host, call[c].svc,
                                                call[c].number, call[c].proxy)
<1> SUFFICES ASSUME NEW c \in RouteClients, call'[c].op = "insert"
             PROVE  Hook(c)'
  BY DEF HookInv
<1>0. c \in Clients /\ call \in [Clients -> Calls]
  BY DEF Clients, TypeOK
<1>1. ASSUME db'.ports = db.ports, call'[c] = call[c]
      PROVE  Hook(c)'
  <2>1. Hook(c)
    BY <1>1 DEF HookInv
  <2> QED BY <1>1, <2>1
          DEF allocateProxyListenerPort, proxyProtAllocator, PortRow
<1>2. CASE RouteStep(c)
  <2>1. CASE \E n \in Ports, p \in ProxyPorts \cup {None} : CreateRouteHook(c, n, p)
    <3> PICK n \in Ports, p \in ProxyPorts \cup {None} : CreateRouteHook(c, n, p)
      BY <2>1
    <3>1. /\ call'[c].host = call[c].host /\ call'[c].svc = call[c].svc
          /\ call'[c].number = n /\ call'[c].proxy = p
          /\ db' = db
          /\ allocateProxyListenerPort(call[c].host, call[c].svc, n, p)
      BY <1>0 DEF CreateRouteHook, Goto, storeVars
    <3> QED BY <3>1 DEF allocateProxyListenerPort, proxyProtAllocator, PortRow
  <2>2. CASE ~ \E n \in Ports, p \in ProxyPorts \cup {None} : CreateRouteHook(c, n, p)
    <3>1. CASE \/ CreateRouteIngress(c) \/ CreateRoutePort(c)
               \/ \E n \in Ports : CreateRouteNoPort(c, n)
               \/ \E h \in Hosts, s \in Svcs, eps \in Endpoints,
                     m \in BOOLEAN \cup {None}, ports \in SUBSET Ports :
                    CreateRoute(c, h, s, eps, m, ports)
      <4>1. CASE CreateRouteIngress(c)
        <5>1. call[c] \in RouteCalls
          BY <1>0, <4>1, CallKinds DEF CreateRouteIngress
        <5> DEFINE e == [call[c] EXCEPT !.op = "ports"]
        <5>2. e.op = "ports"
          BY <5>1 DEF RouteCalls
        <5>3. call'[c] = e \/ call'[c] = Idle
          BY <1>0, <4>1 DEF CreateRouteIngress, Goto, Return
        <5> HIDE DEF e
        <5> QED BY <5>2, <5>3 DEF Idle
      <4>2. CASE CreateRoutePort(c)
        BY <1>0, <4>2 DEF CreateRoutePort, Goto, Return, Idle
      <4>3. CASE \/ \E n \in Ports : CreateRouteNoPort(c, n)
                 \/ \E h \in Hosts, s \in Svcs, eps \in Endpoints,
                       m \in BOOLEAN \cup {None}, ports \in SUBSET Ports :
                      CreateRoute(c, h, s, eps, m, ports)
        BY <1>0, <4>3 DEF CreateRouteNoPort, CreateRoute, Goto, Return, Idle
      <4> QED BY <3>1, <4>1, <4>2, <4>3
    <3>2. CASE \E s \in Svcs, eps \in Endpoints, m \in BOOLEAN \cup {None} :
                 UpdateRoute(c, s, eps, m)
      BY <3>2 DEF UpdateRoute, Idle
    <3> QED BY <1>2, <2>2, <3>1, <3>2 DEF RouteStep
  <2> QED BY <2>1, <2>2
<1>3. ASSUME NEW d \in ProtectionClients, ProtectionStep(d)
      PROVE  db'.ports = db.ports /\ call'[c] = call[c]
  <2>1. c # d
    BY ClientsAssumption DEF ClientsAssumption
  <2>2. call'[c] = call[c]
    BY <1>0, <1>3, <2>1
    DEF ProtectionStep, CreateApplication, CreateProtection, CreateProtectionSave,
        CreateProtectionInsert, PutProtection, PutProtectionUpdate, Goto, Return
  <2>3. db'.ports = db.ports
    BY Zenon, <1>3 DEF ProtectionStep, CreateApplication, CreateProtection,
        CreateProtectionSave, CreateProtectionInsert, PutProtection,
        PutProtectionUpdate, InsertApplication, WriteProtection, storeVars,
        TypeOK, StoreTypeOK, Tables
  <2> QED BY <2>2, <2>3
<1>4. ASSUME NEW d \in Clients, CutShort(d)
      PROVE  Hook(c)'
  <2>1. db' = db /\ call' = [call EXCEPT ![d] = Idle]
    BY <1>4 DEF CutShort, Return, storeVars
  <2>2. c # d
    BY <1>0, <2>1 DEF Idle
  <2>3. call'[c] = call[c]
    BY <1>0, <2>1, <2>2
  <2> QED BY <1>1, <2>1, <2>3
<1> HIDE DEF Hook
<1> QED BY <1>1, <1>2, <1>3, <1>4 DEF Next, SerialRoutes

\* The invariant: the tables and the calls are well formed, and between the
\* hook of a port and its INSERT the hook's answer stays right.
LEMMA Invariant ==
  ASSUME SerialRoutes
  PROVE  Spec => [](TypeOK /\ HookInv)
<1>1. Init => TypeOK /\ HookInv
  <2> SUFFICES ASSUME Init PROVE TypeOK /\ HookInv
    OBVIOUS
  <2>1. call \in [Clients -> Calls] /\ faults \in 0..MaxFaults
    BY ClientsAssumption DEF Init, Calls, ClientsAssumption
  <2>2. HookInv
    BY DEF Init, HookInv, Idle, Clients
  <2>3. StoreTypeOK /\ StoreInv
    BY StoreInitInv DEF Init
  <2> QED BY <2>1, <2>2, <2>3 DEF TypeOK
<1>2. TypeOK /\ HookInv /\ [Next]_vars => (TypeOK /\ HookInv)'
  <2> SUFFICES ASSUME TypeOK, HookInv, [Next]_vars PROVE TypeOK' /\ HookInv'
    OBVIOUS
  <2>1. CASE Next
    <3>1. call' \in [Clients -> Calls] /\ faults' \in 0..MaxFaults
      BY <2>1, CallsType
    <3>2. HookInv'
      BY <2>1, HookInvNext
    <3>3. CASE Statement
      <4>1. StoreTypeOK' /\ StoreInv'
        BY <3>3, StatementInv, StatementType DEF TypeOK
      <4> QED BY <3>1, <3>2, <4>1 DEF TypeOK
    <3>4. CASE UNCHANGED storeVars
      <4>1. StoreTypeOK' /\ StoreInv'
        BY <3>4 DEF TypeOK, storeVars, StoreTypeOK, StoreInv, ForeignKeys,
                    PortKeys, PortRow, FirstVersion
      <4> QED BY <3>1, <3>2, <4>1 DEF TypeOK
    <3> QED BY <2>1, <3>3, <3>4, StepIsStatement
  <2>2. CASE UNCHANGED vars
    BY <2>2 DEF vars, TypeOK, StoreTypeOK, StoreInv, ForeignKeys, PortKeys,
                PortRow, FirstVersion, HookInv, allocateProxyListenerPort,
                proxyProtAllocator
  <2> QED BY <2>1, <2>2
<1> QED BY <1>1, <1>2, PTL DEF Spec

\* The handlers, however their statements interleave and wherever they are
\* cut short, do to the tables what module Store's statements do one at a
\* time, provided one goroutine at a time calls CreateRoute.
THEOREM HandlersImplementStatements ==
  ASSUME SerialRoutes
  PROVE  Spec => ImplementsStatements
<1>1. Init => StoreInit
  BY DEF Init
<1>2. TypeOK /\ HookInv /\ [Next]_vars => [Statement]_storeVars
  BY StepIsStatement DEF vars, storeVars
<1> QED BY <1>1, <1>2, Invariant, PTL DEF Spec, ImplementsStatements

\* Tables and calls stay well formed: a route's rows refer to rows that are
\* there, in whatever order the statements of concurrent calls commit.
THEOREM TypeCorrect ==
  ASSUME SerialRoutes
  PROVE  Spec => []TypeOK
BY Invariant, PTL

\* What pollers see of the tables changes only together with the version
\* they compare, whatever the handlers of concurrent calls commit.
THEOREM HandlersImplementVersionedConfig ==
  ASSUME SerialRoutes
  PROVE  Spec => ImplementsVersionedConfig
<1>1. Init => VC!Init
  BY DEF Init, StoreInit, VC!Init
<1>2. TypeOK /\ HookInv /\ [Next]_vars => [VC!Next]_(VC!vars)
  <2> SUFFICES ASSUME TypeOK, HookInv, [Next]_vars, ~ UNCHANGED VC!vars
               PROVE  VC!Next
    OBVIOUS
  <2>1. CASE Statement
    <3>1. version' \in Nat /\ version' >= version
      BY <2>1, StatementMonotonic DEF TypeOK
    <3>2. ASSUME version' = version
          PROVE  View' = View
      <4>1. ASSUME NEW h \in Hosts
            PROVE  /\ db'.modes[h] = db.modes[h] /\ db'.desired[h] = db.desired[h]
                   /\ ContainerPortRows(db', h) = ContainerPortRows(db, h)
                   /\ ContainerPortRows(db, h) # {}
                        => Keys(db'.endpoints[db'.ingresses[h]])
                             = Keys(db.endpoints[db.ingresses[h]])
        BY <2>1, <3>2, StatementCovered DEF TypeOK
      <4> QED BY Zenon, <4>1 DEF View
    <3> QED BY <3>1, <3>2 DEF VC!Next, VC!NewVersion, VC!vars, TypeOK, StoreTypeOK
  <2>2. CASE UNCHANGED storeVars
    BY <2>2 DEF storeVars, VC!vars, View, ListedPorts, ContainerPortRows, Keys
  <2> QED BY <2>1, <2>2, StepIsStatement DEF vars, storeVars
<1> QED BY <1>1, <1>2, Invariant, PTL DEF Spec, ImplementsVersionedConfig, VC!Spec

\* A port keeps its proxy listening port for good, however often and however
\* partially its route is created again.
THEOREM PortsStick ==
  ASSUME SerialRoutes
  PROVE  Spec => ProxyPortsSticky
<1>1. TypeOK /\ HookInv /\ [Next]_vars
        => [\A r \in db.ports : r \in db'.ports]_db
  BY StepIsStatement, StatementPorts DEF TypeOK, StoreInv, vars, storeVars
<1> QED BY <1>1, Invariant, PTL DEF Spec, ProxyPortsSticky

\* No two rows share a proxy listening port, although the check for it and
\* the INSERT are two statements.
THEOREM PortsUnique ==
  ASSUME SerialRoutes
  PROVE  Spec => []ProxyPortsUnique
<1>1. Init => ProxyPortsUnique
  BY DEF Init, StoreInit, ProxyPortsUnique
<1>2. TypeOK /\ HookInv /\ ProxyPortsUnique /\ [Next]_vars => ProxyPortsUnique'
  BY StepIsStatement, StatementPorts
  DEF TypeOK, StoreInv, vars, storeVars, ProxyPortsUnique
<1> QED BY <1>1, <1>2, Invariant, PTL DEF Spec

\* A route that is sent again as it was wakes no poller up: a statement of
\* CreateRoute or UpdateRoute that changes no row makes no version.
THEOREM ResyncIsQuiet ==
  ASSUME SerialRoutes
  PROVE  Spec => QuietResync
<1> DEFINE Quiet == (\E c \in RouteClients : RouteStep(c)) /\ db' = db
                       => version' = version
<1>1. ASSUME TypeOK, NEW c \in RouteClients, RouteStep(c), db' = db
      PROVE  version' = version
  <2>1. ASSUME NEW s \in Svcs, NEW eps \in Endpoints, NEW m, SaveUpstream(s, eps, m)
        PROVE  version' = version
    <3> DEFINE saved == IF Keys(eps) = {} THEN db.endpoints[s] ELSE eps
    <3>1. db'.endpoints = [db.endpoints EXCEPT ![s] = saved]
      BY <2>1 DEF SaveUpstream, TypeOK, StoreTypeOK, Tables
    <3>2. db.endpoints[s] = saved
      BY <1>1, <3>1 DEF TypeOK, StoreTypeOK, Tables
    <3> QED BY <2>1, <3>2 DEF SaveUpstream, UpstreamTrigger, Bump
  <2>2. ASSUME NEW h, NEW s, NEW n, NEW p, SavePort(h, s, n, p)
        PROVE  version' = version
    <3> DEFINE row == [host |-> h, svc |-> s, number |-> n, proxy |-> p]
    <3>1. row \in db.ports
      BY <1>1, <2>2 DEF SavePort, TypeOK, StoreTypeOK, Tables
    <3>2. row \in PortRow(h, s, n)
      BY <3>1 DEF PortRow
    <3> QED BY <2>2, <3>2 DEF SavePort, PortTrigger, Bump
  <2>3. CASE \/ CreateRouteIngress(c)
             \/ \E n \in Ports, p \in ProxyPorts \cup {None} :
                  CreateRouteHook(c, n, p)
             \/ \E n \in Ports : CreateRouteNoPort(c, n)
    BY Zenon, <2>3 DEF CreateRouteIngress, CreateRouteHook, CreateRouteNoPort,
                       SaveIngress, storeVars
  <2> QED
    BY Zenon, <1>1, <2>1, <2>2, <2>3 DEF RouteStep, CreateRoute, CreateRoutePort, UpdateRoute
<1>2. TypeOK /\ [Next]_vars => [Quiet]_vars
  BY Zenon, <1>1
<1> QED BY <1>2, Invariant, PTL DEF Spec, QuietResync

-----------------------------------------------------------------------------
(* The data path.                                                          *)

\* The statements are those of one store, whichever instance names them.
LEMMA OneStore ==
  /\ Node!Statement => Statement
  /\ Statement => Gateway!Statement
<1>1. Node!Statement => Statement
  <2>1. ASSUME NEW s, NEW eps, NEW m, Node!SaveUpstream(s, eps, m)
        PROVE  SaveUpstream(s, eps, m)
    BY <2>1 DEF Node!SaveUpstream, SaveUpstream, Node!Bump, Bump, Node!UpstreamTrigger,
       UpstreamTrigger, Node!Keys, Keys
  <2>2. ASSUME NEW h, NEW s, Node!SaveIngress(h, s)
        PROVE  SaveIngress(h, s)
    BY <2>2 DEF Node!SaveIngress, SaveIngress
  <2>3. ASSUME NEW h, NEW s, NEW n, NEW p,
               Node!allocateProxyListenerPort(h, s, n, p), Node!SavePort(h, s, n, p)
        PROVE  allocateProxyListenerPort(h, s, n, p) /\ SavePort(h, s, n, p)
    BY <2>3 DEF Node!allocateProxyListenerPort, allocateProxyListenerPort,
       Node!proxyProtAllocator, proxyProtAllocator, Node!SavePort, SavePort, Node!Bump,
       Bump, Node!PortTrigger, PortTrigger, Node!PortRow, PortRow
  <2>4. ASSUME NEW h, Node!InsertApplication(h)
        PROVE  InsertApplication(h)
    BY <2>4 DEF Node!InsertApplication, InsertApplication
  <2>5. ASSUME NEW h, NEW m, NEW d, Node!WriteProtection(h, m, d)
        PROVE  WriteProtection(h, m, d)
    BY <2>5 DEF Node!WriteProtection, WriteProtection, Node!Bump, Bump
  <2> QED
    BY Zenon, <2>1, <2>2, <2>3, <2>4, <2>5
    DEF Node!Statement, Statement, Node!Endpoints, Endpoints, Node!Modes, Modes
<1>2. Statement => Gateway!Statement
  <2>1. ASSUME NEW s, NEW eps, NEW m, SaveUpstream(s, eps, m)
        PROVE  Gateway!SaveUpstream(s, eps, m)
    BY <2>1 DEF SaveUpstream, Gateway!SaveUpstream, Bump, Gateway!Bump, UpstreamTrigger,
       Gateway!UpstreamTrigger, Keys, Gateway!Keys
  <2>2. ASSUME NEW h, NEW s, SaveIngress(h, s)
        PROVE  Gateway!SaveIngress(h, s)
    BY <2>2 DEF SaveIngress, Gateway!SaveIngress
  <2>3. ASSUME NEW h, NEW s, NEW n, NEW p,
               allocateProxyListenerPort(h, s, n, p), SavePort(h, s, n, p)
        PROVE  Gateway!allocateProxyListenerPort(h, s, n, p) /\ Gateway!SavePort(h, s, n, p)
    BY <2>3 DEF allocateProxyListenerPort, Gateway!allocateProxyListenerPort,
       proxyProtAllocator, Gateway!proxyProtAllocator, SavePort, Gateway!SavePort, Bump,
       Gateway!Bump, PortTrigger, Gateway!PortTrigger, PortRow, Gateway!PortRow
  <2>4. ASSUME NEW h, InsertApplication(h)
        PROVE  Gateway!InsertApplication(h)
    BY <2>4 DEF InsertApplication, Gateway!InsertApplication
  <2>5. ASSUME NEW h, NEW m, NEW d, WriteProtection(h, m, d)
        PROVE  Gateway!WriteProtection(h, m, d)
    BY <2>5 DEF WriteProtection, Gateway!WriteProtection, Bump, Gateway!Bump
  <2> QED
    BY Zenon, <2>1, <2>2, <2>3, <2>4, <2>5
    DEF Statement, Gateway!Statement, Endpoints, Gateway!Endpoints, Modes, Gateway!Modes
<1> QED BY <1>1, <1>2

\* The gateway and the node only read the store.
LEMMA StoreAlone == GatewayNext \/ NodeNext => UNCHANGED <<db, version>>
<1>1. Gateway!Own => UNCHANGED <<db, version>>
  BY Zenon DEF Gateway!Own, Gateway!Watcher, Gateway!Generator, Gateway!Fault,
         Gateway!StateVersionChanged, Gateway!QueryProtections,
         Gateway!QueryIngresses, Gateway!QueryUpstreams, Gateway!QueryPorts,
         Gateway!QueriesDone, Gateway!BuildResources, Gateway!SendResources,
         Gateway!BuildPanics, Gateway!ReceiveResources, Gateway!SetSnapshot,
         Gateway!EnvoyFetches, Gateway!GetStateVersionFails,
         Gateway!ListProtectionsFails, Gateway!Restart, Gateway!storeVars
<1>2. Node!Own => UNCHANGED <<db, version>>
  BY Zenon DEF Node!Own, Node!Controller, Node!StateVersionChanged,
         Node!QueryProtections, Node!QueryIngresses, Node!QueryUpstreams,
         Node!QueryPorts, Node!GotList, Node!getRelayInstanceSpecs,
         Node!StartSpec, Node!runRelayBinary, Node!StopSpec,
         Node!CallMeetsLaunch, Node!Sleep, Node!InstanceUp, Node!Launch,
         Node!ListProtectionsFails, Node!SpecFails, Node!ProxyFails,
         Node!PodRestarts, Node!InstanceDies, Node!NewController,
         Node!storeVars
<1> QED BY <1>1, <1>2 DEF GatewayNext, NodeNext

\* A step of the whole is a step of the gateway next to the store, or leaves
\* both alone.
LEMMA GatewayPart == PathSpec => Gateway!Spec
<1>1. PathInit => Gateway!Init
  BY DEF PathInit
<1>2. [PathNext]_pathVars => [Gateway!Next]_(Gateway!vars)
  <2>1. StoreNext => Gateway!StoreNext
    BY OneStore
    DEF StoreNext, Node!StoreNext, Gateway!StoreNext, gatewayVars,
        Gateway!watcherVars, Gateway!generatorVars
  <2>2. GatewayNext => Gateway!Next
    BY DEF GatewayNext, Gateway!Next
  <2>3. NodeNext => UNCHANGED Gateway!vars
    BY StoreAlone DEF NodeNext, Gateway!vars, gatewayVars
  <2>4. UNCHANGED pathVars => UNCHANGED Gateway!vars
    BY DEF pathVars, Gateway!vars
  <2> QED BY <2>1, <2>2, <2>3, <2>4 DEF PathNext, Gateway!Next
<1> QED BY <1>1, <1>2, PTL DEF PathSpec, Gateway!Spec

\* And so for the node.
LEMMA NodePart == PathSpec => Node!Spec
<1>1. PathInit => Node!Init
  BY DEF PathInit
<1>2. [PathNext]_pathVars => [Node!Next]_(Node!vars)
  <2>1. StoreNext => Node!Next
    BY DEF StoreNext, Node!Next
  <2>2. NodeNext => Node!Next
    BY DEF NodeNext, Node!Next
  <2>3. GatewayNext => UNCHANGED Node!vars
    BY StoreAlone DEF GatewayNext, Node!vars, nodeVars
  <2>4. UNCHANGED pathVars => UNCHANGED Node!vars
    BY DEF pathVars, Node!vars
  <2> QED BY <2>1, <2>2, <2>3, <2>4 DEF PathNext
<1> QED BY <1>1, <1>2, PTL DEF PathSpec, Node!Spec

\* The store keeps its constraints, whoever polls it.
LEMMA StoreCorrect == PathSpec => [](StoreTypeOK /\ StoreInv)
<1>1. PathInit => StoreTypeOK /\ StoreInv
  BY StoreInitInv, EmptyDesiredStateType
  DEF PathInit, Node!Init, Node!StoreInit, Node!EmptyDesiredState, StoreInit,
      EmptyDesiredState
<1>2. StoreTypeOK /\ StoreInv /\ [PathNext]_pathVars => (StoreTypeOK /\ StoreInv)'
  <2> SUFFICES ASSUME StoreTypeOK, StoreInv, [PathNext]_pathVars
               PROVE  (StoreTypeOK /\ StoreInv)'
    OBVIOUS
  <2>1. CASE StoreNext
    BY <2>1, OneStore, StatementInv DEF StoreNext, Node!StoreNext
  <2>2. CASE UNCHANGED <<db, version>>
    BY <2>2 DEF StoreTypeOK, StoreInv, ForeignKeys, PortKeys, PortRow,
                FirstVersion
  <2> QED BY <2>1, <2>2, StoreAlone DEF PathNext, pathVars
<1> QED BY <1>1, <1>2, PTL DEF PathSpec

-----------------------------------------------------------------------------
(* The two parts agree when they are at rest.                              *)

\* The relay of a pod and the configuration of Envoy, each right by the
\* tables, lead the pod's traffic through the WAF and back.
LEMMA RightTogether ==
  ASSUME StoreTypeOK, StoreInv, NEW p \in LocalPods,
         Node!Relayed(p), Gateway!InSync(db, envoy)
  PROVE  Guarded(p)
<1> SUFFICES ASSUME Expected(p)
             PROVE  \E h \in Node!ProtectedHosts(p) : ComesBack(p, h)
  BY DEF Guarded
<1>1. PICK h \in Node!ProtectedHosts(p) :
        \E row \in Node!ContainerPortRows(db, h) :
          /\ relay[p].socat = Node!discoverRelayOptions(row)
          /\ relay[p].rule = row.number
  BY DEF Node!Relayed, Expected
<1>2. PICK row \in Node!ContainerPortRows(db, h) :
        /\ relay[p].socat = Node!discoverRelayOptions(row)
        /\ relay[p].rule = row.number
  BY <1>1
<1>3. /\ Node!ContainerPortRows(db, h) = ContainerPortRows(db, h)
      /\ Gateway!ContainerPortRows(db, h) = ContainerPortRows(db, h)
  BY DEF ContainerPortRows, ListedPorts, Node!ContainerPortRows,
         Node!ListedPorts, Gateway!ContainerPortRows, Gateway!ListedPorts
<1>4. h \in Hosts /\ db.modes[h] = "ON" /\ p \in Node!PodsOf(db, h)
  BY DEF Node!ProtectedHosts, Node!HostsOf
<1>5. ContainerPortRows(db, h) = {row}
  BY <1>2, <1>3 DEF Expected, OnePort
<1>6. Gateway!Protects(db, envoy, h)
  BY <1>3, <1>4, <1>5 DEF Gateway!InSync
<1>7. /\ relay[p].socat # None /\ relay[p].socat.number = row.number
      /\ relay[p].socat.proxy = row.proxy
  <2>1. /\ row \in db.ports /\ row \in PortRows /\ row.number \in ContainerPorts
    BY Zenon, <1>2, <1>3 DEF ContainerPortRows, ListedPorts, StoreTypeOK, Tables
  <2>2. row.proxy \in ProxyPorts
    BY Zenon, <2>1, StoreAssumption
    DEF StoreAssumption, StoreInv, PortKeys, PortRows
  <2> DEFINE opt == [number |-> row.number, proxy |-> row.proxy]
  <2>3. opt \in Node!Options
    BY <2>1, <2>2 DEF Node!Options
  <2>4. opt.number = row.number /\ opt.proxy = row.proxy
    OBVIOUS
  <2>5. relay[p].socat = opt
    BY Zenon, <1>2 DEF Node!discoverRelayOptions
  <2> HIDE DEF opt
  <2>6. relay[p].socat # None
    BY Zenon, <2>3, <2>5, PathAssumption
  <2> QED BY Zenon, <2>4, <2>5, <2>6
<1>8. /\ envoy.listeners[h].port = row.proxy
      /\ envoy.clusters[h] = Gateway!Keys(db.endpoints[db.ingresses[h]])
                               \X {row.number}
  <2>1. Gateway!ContainerPortRows(db, h) = {row}
    BY Zenon, <1>3, <1>5
  <2>2. /\ \E r \in {row} : envoy.listeners[h].port = r.proxy
        /\ envoy.clusters[h] = Gateway!Keys(db.endpoints[db.ingresses[h]])
                                 \X {r.number : r \in {row}}
    BY Zenon, <1>6, <2>1 DEF Gateway!Protects
  <2>3. {r.number : r \in {row}} = {row.number}
    BY Zenon
  <2> QED BY Zenon, <2>2, <2>3
<1>9. \E ip \in Keys(db.endpoints[db.ingresses[h]]) :
        /\ db.endpoints[db.ingresses[h]][ip] = p
        /\ <<ip, row.number>> \in envoy.clusters[h]
  BY Zenon, <1>4, <1>8 DEF Node!PodsOf, Node!Keys, Gateway!Keys, Keys
<1> QED BY Zenon, <1>2, <1>6, <1>7, <1>8, <1>9 DEF ComesBack, Gateway!Protects

\* Each part keeps its own promise to the store; together they lead every
\* expected pod's traffic through the WAF and back when both rest with the
\* current version.  The hypotheses are ControlPlaneProofs!Freshness and
\* RelayControllerProofs!Current.
THEOREM GuardedTogether ==
  /\ Gateway!Spec => []Gateway!FreshWhenQuiescent
  /\ Node!Spec => []Node!RelaysCurrent
  => (PathSpec => []GuardedWhenSteady)
<1>1. /\ StoreTypeOK /\ StoreInv
      /\ Gateway!FreshWhenQuiescent /\ Node!RelaysCurrent
      => GuardedWhenSteady
  BY RightTogether
  DEF Gateway!FreshWhenQuiescent, Node!RelaysCurrent, GuardedWhenSteady, Steady
<1> QED BY <1>1, StoreCorrect, GatewayPart, NodePart, PTL

-----------------------------------------------------------------------------
(* The two parts never disagree about whose port it is.                    *)

\* No two rows of the table have one proxy port.
LEMMA OneOwnerKept == PathSpec => []OneOwner
<1>1. PathInit => OneOwner
  BY DEF PathInit, Node!Init, Node!StoreInit, OneOwner
<1>2. StoreTypeOK /\ StoreInv /\ OneOwner /\ [PathNext]_pathVars => OneOwner'
  <2> SUFFICES ASSUME StoreTypeOK, StoreInv, OneOwner, [PathNext]_pathVars
               PROVE  OneOwner'
    OBVIOUS
  <2>1. CASE StoreNext
    BY <2>1, OneStore, StatementPorts
    DEF StoreNext, Node!StoreNext, StoreInv, OneOwner
  <2>2. CASE UNCHANGED <<db, version>>
    BY <2>2 DEF OneOwner
  <2> QED BY <2>1, <2>2, StoreAlone DEF PathNext, pathVars
<1> QED BY <1>1, <1>2, StoreCorrect, PTL DEF PathSpec

\* What either part does stems from rows of the table; as a proxy port is in
\* one row only, a socat and a listener that meet were meant for each other,
\* at any moment and whatever failed.  The hypotheses are
\* ControlPlaneProofs!GatewayFromTables, and RelayControllerProofs!TypeCorrect
\* and !NodeFromTables.
THEOREM NeverCrossedTogether ==
  /\ Gateway!Spec => []Gateway!FromTables
  /\ Node!Spec => []Node!TypeOK
  /\ Node!Spec => []Node!FromTables
  => (PathSpec => []NeverCrossed)
<1>1. Gateway!FromTables /\ Node!TypeOK /\ Node!FromTables /\ OneOwner
        => NeverCrossed
  <2> SUFFICES ASSUME Gateway!FromTables, Node!TypeOK, Node!FromTables, OneOwner,
                      NEW p \in LocalPods, NEW h \in Hosts,
                      relay[p].socat # None, envoy.listeners[h] # None,
                      envoy.listeners[h].port = relay[p].socat.proxy
               PROVE  \E row \in db.ports :
                        /\ {r \in db.ports : r.proxy = relay[p].socat.proxy} = {row}
                        /\ row.host = h /\ row.number = relay[p].socat.number
    BY DEF NeverCrossed
  <2>1. relay[p].socat.proxy # None
    <3>1. relay[p].socat \in Node!Options
      BY DEF Node!TypeOK, Node!Relays
    <3> QED BY <3>1, StoreAssumption DEF Node!Options, StoreAssumption
  <2>2. PICK r1 \in db.ports : /\ r1.number = relay[p].socat.number
                               /\ r1.proxy = relay[p].socat.proxy
    BY DEF Node!FromTables, Node!KnownOptions, Node!discoverRelayOptions
  <2>3. PICK r2 \in db.ports : r2.host = h /\ r2.proxy = relay[p].socat.proxy
    <3>1. Gateway!KnownPorts(envoy)
      BY Zenon DEF Gateway!FromTables
    <3>2. \E row \in db.ports : row.host = h /\ row.proxy = envoy.listeners[h].port
      BY Zenon, <3>1 DEF Gateway!KnownPorts
    <3> QED BY Zenon, <3>2
  <2>4. \A r \in db.ports : r.proxy = relay[p].socat.proxy => r = r1
    BY <2>1, <2>2 DEF OneOwner
  <2> QED BY <2>2, <2>3, <2>4
<1> QED BY <1>1, OneOwnerKept, GatewayPart, NodePart, PTL

=============================================================================
