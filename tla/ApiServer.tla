----------------------------- MODULE ApiServer -----------------------------
(***************************************************************************)
(* The handlers of the API server that write: RouteService.CreateRoute and *)
(* UpdateRoute, called by the discovery agent, ProtectionService           *)
(* CreateProtection and PutProtection and ApplicationService               *)
(* CreateApplication, called by users.  The server runs every request in a *)
(* goroutine of its own and a handler issues its statements one by one, so *)
(* the statements of concurrent calls interleave and a call may end, or    *)
(* the server die, between two of them.  A client waits for its answer     *)
(* before it calls again.                                                  *)
(***************************************************************************)
EXTENDS Store

CONSTANTS
  RouteClients,       \* callers of RouteService
  ProtectionClients,  \* callers of ProtectionService and ApplicationService
  MaxVersion,         \* bound: state versions
  MaxFaults           \* bound: calls cut short

ASSUME ClientsAssumption ==
  /\ RouteClients \cap ProtectionClients = {}
  /\ MaxVersion \in Nat /\ MaxFaults \in Nat

VARIABLES
  call,   \* call[c]: the request of client c under way, and where it stands
  faults  \* calls cut short so far

Clients == RouteClients \cup ProtectionClients

vars == <<db, version, call, faults>>

Ports == ContainerPorts \cup SvcPorts

Idle == [op |-> "idle"]

Init ==
  /\ StoreInit
  /\ call = [c \in Clients |-> Idle]
  /\ faults = 0

Return(c) == call' = [call EXCEPT ![c] = Idle]

Goto(c, r) == call' = [call EXCEPT ![c] = r]

-----------------------------------------------------------------------------
(* RouteService.                                                           *)

\* CreateRoute up to its first commit, the upstream.
CreateRoute(c, h, s, eps, m, ports) ==
  /\ call[c] = Idle
  /\ SaveUpstream(s, eps, m)
  /\ Goto(c, [op |-> "ingress", host |-> h, svc |-> s, ports |-> ports,
              todo |-> ports])
  /\ UNCHANGED faults

\* ... the ingress, with its application; then, unless the request has no
\* ports, PortRepository.Save.
CreateRouteIngress(c) ==
  LET r == call[c] IN
  /\ r.op = "ingress"
  /\ SaveIngress(r.host, r.svc)
  /\ IF r.todo = {} THEN Return(c) ELSE Goto(c, [r EXCEPT !.op = "ports"])
  /\ UNCHANGED faults

\* Mutant: the hook does not look for the row that is there.
CreateRouteHookAnew(c, n, p) ==
  LET r == call[c] IN
  /\ r.op = "ports" /\ n \in r.todo
  /\ proxyProtAllocator(p)
  /\ Goto(c, [op |-> "insert", host |-> r.host, svc |-> r.svc,
              ports |-> r.ports, todo |-> r.todo, number |-> n, proxy |-> p])
  /\ UNCHANGED <<storeVars, faults>>

\* ... BeforeCreate of the next port: the proxy port it will have.
CreateRouteHook(c, n, p) ==
  LET r == call[c] IN
  /\ r.op = "ports" /\ n \in r.todo
  /\ allocateProxyListenerPort(r.host, r.svc, n, p)
  /\ Goto(c, [op |-> "insert", host |-> r.host, svc |-> r.svc,
              ports |-> r.ports, todo |-> r.todo, number |-> n, proxy |-> p])
  /\ UNCHANGED <<storeVars, faults>>

\* ... or the allocator's only candidate is taken, ten times over.
CreateRouteNoPort(c, n) ==
  LET r == call[c] IN
  /\ r.op = "ports" /\ n \in r.todo /\ n \in ContainerPorts
  /\ PortRow(r.host, r.svc, n) = {}
  /\ \E p \in ProxyPorts : ~ proxyProtAllocator(p)
  /\ Return(c)
  /\ UNCHANGED <<storeVars, faults>>

\* ... the INSERT of that port.
CreateRoutePort(c) ==
  LET r == call[c] IN
  /\ r.op = "insert"
  /\ SavePort(r.host, r.svc, r.number, r.proxy)
  /\ IF r.todo = {r.number} THEN Return(c)
     ELSE Goto(c, [op |-> "ports", host |-> r.host, svc |-> r.svc,
                   ports |-> r.ports, todo |-> r.todo \ {r.number}])
  /\ UNCHANGED faults

UpdateRoute(c, s, eps, m) ==
  /\ call[c] = Idle
  /\ SaveUpstream(s, eps, m)
  /\ UNCHANGED <<call, faults>>

-----------------------------------------------------------------------------
(* ProtectionService and ApplicationService.                               *)

CreateApplication(c, h) ==
  /\ call[c] = Idle
  /\ InsertApplication(h)
  /\ UNCHANGED <<call, faults>>

\* UpsertProtection reads the row ...
CreateProtection(c, h) ==
  /\ call[c] = Idle /\ h \in db.applications
  /\ Goto(c, [op |-> IF db.modes[h] = None THEN "create" ELSE "save",
              host |-> h, desired |-> db.desired[h]])
  /\ UNCHANGED <<storeVars, faults>>

\* ... and writes all of it back with mode ON,
CreateProtectionSave(c) ==
  /\ call[c].op = "save"
  /\ WriteProtection(call[c].host, "ON", call[c].desired)
  /\ Return(c)
  /\ UNCHANGED faults

\* or inserts a new one, which fails when another call was faster.
CreateProtectionInsert(c) ==
  /\ call[c].op = "create"
  /\ IF db.modes[call[c].host] = None
     THEN WriteProtection(call[c].host, "ON", EmptyDesiredState)
     ELSE UNCHANGED storeVars
  /\ Return(c)
  /\ UNCHANGED faults

\* UpdateProtection reads mode and desired state, overwrites the one and
\* merges into the other what the request has (module ProtectionMerge) ...
PutProtection(c, h, m, d) ==
  /\ call[c] = Idle /\ db.modes[h] # None
  /\ Goto(c, [op |-> "update", host |-> h, request |-> m,
              mode |-> IF m = None THEN db.modes[h] ELSE m,
              desired |-> IF d = None THEN db.desired[h] ELSE d])
  /\ UNCHANGED <<storeVars, faults>>

\* ... and updates both columns.
PutProtectionUpdate(c) ==
  /\ call[c].op = "update"
  /\ WriteProtection(call[c].host, call[c].mode, call[c].desired)
  /\ Return(c)
  /\ UNCHANGED faults

-----------------------------------------------------------------------------
\* A statement fails or the server dies: what is committed stays.
CutShort(c) ==
  /\ call[c] # Idle /\ faults < MaxFaults
  /\ Return(c)
  /\ faults' = faults + 1
  /\ UNCHANGED storeVars

RouteStep(c) ==
  \/ \E h \in Hosts, s \in Svcs, eps \in Endpoints, m \in BOOLEAN \cup {None},
        ports \in SUBSET Ports : CreateRoute(c, h, s, eps, m, ports)
  \/ CreateRouteIngress(c)
  \/ \E n \in Ports, p \in ProxyPorts \cup {None} : CreateRouteHook(c, n, p)
  \/ \E n \in Ports : CreateRouteNoPort(c, n)
  \/ CreateRoutePort(c)
  \/ \E s \in Svcs, eps \in Endpoints, m \in BOOLEAN \cup {None} :
       UpdateRoute(c, s, eps, m)

ProtectionStep(c) ==
  \/ \E h \in Hosts : CreateApplication(c, h)
  \/ \E h \in Hosts : CreateProtection(c, h)
  \/ CreateProtectionSave(c)
  \/ CreateProtectionInsert(c)
  \/ \E h \in Hosts, m \in Modes \cup {None}, d \in DesiredStates \cup {None} :
       PutProtection(c, h, m, d)
  \/ PutProtectionUpdate(c)

Next ==
  \/ /\ version < MaxVersion
     /\ \/ \E c \in RouteClients : RouteStep(c)
        \/ \E c \in ProtectionClients : ProtectionStep(c)
  \/ \E c \in Clients : CutShort(c)

Spec == Init /\ [][Next]_vars

-----------------------------------------------------------------------------
(* Correctness.                                                            *)

RouteCalls ==
  [op: {"ingress", "ports"}, host: Hosts, svc: Svcs, ports: SUBSET Ports,
   todo: SUBSET Ports]

InsertCalls ==
  [op: {"insert"}, host: Hosts, svc: Svcs, ports: SUBSET Ports,
   todo: SUBSET Ports, number: Ports, proxy: ProxyPorts \cup {None}]

UpsertCalls == [op: {"create", "save"}, host: Hosts, desired: DesiredStates]

UpdateCalls ==
  [op: {"update"}, host: Hosts, request: Modes \cup {None}, mode: Modes,
   desired: DesiredStates]

Calls == {Idle} \cup RouteCalls \cup InsertCalls \cup UpsertCalls \cup UpdateCalls

\* The tables satisfy their constraints and every call is well formed.
TypeOK ==
  /\ StoreTypeOK /\ StoreInv
  /\ call \in [Clients -> Calls] /\ faults \in 0..MaxFaults

\* The discovery agent calls CreateRoute from one goroutine.
SerialRoutes == \A c, d \in RouteClients : c = d

\* With one route client the interleaved handlers do to the tables what the
\* statements of module Store do one at a time, which is what the modules of
\* the pollers assume of the API server.
ImplementsStatements == StoreInit /\ [][Statement]_storeVars

VC == INSTANCE VersionedConfig WITH view <- View, version <- version

\* Whatever the handlers of concurrent calls commit, in whatever order and
\* however far they get, the view pollers act on changes only together with
\* the version they compare: the triggers of triggers.sql leave no gap.
ImplementsVersionedConfig == VC!Spec

\* Between the hook of a port and its INSERT, the hook's answer stays right.
HookInv ==
  \A c \in RouteClients :
    LET r == call[c] IN
    r.op = "insert" => allocateProxyListenerPort(r.host, r.svc, r.number, r.proxy)

\* Two applications never share a proxy listening port, although no index
\* of Port says so: proxyProtAllocator looks for another row before the
\* INSERT.
ProxyPortsUnique ==
  \A r, q \in db.ports : r.proxy = q.proxy /\ r.proxy # None => r = q

\* A port keeps its proxy port for good, however often the discovery agent
\* sends the route again: relays and listeners are configured with it, and
\* no trigger would tell them.
ProxyPortsSticky ==
  [][\A r \in db.ports : r \in db'.ports]_db

\* The agent sends every route again each 30 seconds; when nothing changed
\* in the cluster, no poller is woken up.
QuietResync ==
  [][(\E c \in RouteClients : RouteStep(c)) /\ db' = db
        => version' = version]_vars

=============================================================================
