------------------------------- MODULE Store -------------------------------
(***************************************************************************)
(* The Postgres tables of the API server, one operator per SQL statement   *)
(* the repositories in apisrv/internal/models issue, and the triggers of   *)
(* assets/sql/triggers.sql, which give the row state_versions(1) a fresh   *)
(* uuid.  A statement and its triggers commit together; a handler that     *)
(* issues several statements does so in several transactions.              *)
(*                                                                         *)
(* An application carries the name of its ingress host, and hosts and      *)
(* application ids are unique in ingresses and protections, so one Host    *)
(* stands for the three rows.  A version uuid is a number that only grows: *)
(* the code compares uuids for equality, and a fresh one differs from all  *)
(* earlier ones.  Version 0 is the empty string that seed() stores.        *)
(***************************************************************************)
EXTENDS Naturals, FiniteSets

CONSTANTS
  Hosts,           \* ingress hosts, which are also the application names
  Svcs,            \* service FQDNs, the primary keys of upstreams
  IPs,             \* endpoint addresses
  Pods,            \* endpoint targets (pod name, namespace and node)
  ContainerPorts,  \* container port numbers
  SvcPorts,        \* service port numbers
  ProxyPorts,      \* the range 49152..65534 of the port allocator
  DesiredStates,   \* values of protections.desired_state
  None             \* a missing row, a NULL or a field a request leaves out

ASSUME StoreAssumption ==
  /\ None \notin Svcs /\ None \notin Pods /\ None \notin ProxyPorts
  /\ None \notin DesiredStates /\ None \notin {"ON", "OFF"}
  /\ ContainerPorts \cap SvcPorts = {}
  /\ DesiredStates # {}

VARIABLES
  db,       \* the tables
  version   \* state_versions.version_id of the protection state

storeVars == <<db, version>>

Modes == {"ON", "OFF"}

Endpoints == [IPs -> Pods \cup {None}]

PortRows ==
  [host: Hosts, svc: Svcs, number: ContainerPorts \cup SvcPorts,
   proxy: ProxyPorts \cup {None}]

ASSUME RowAssumption == None \notin PortRows

Tables ==
  [applications: SUBSET Hosts,
   modes: [Hosts -> Modes \cup {None}],
   desired: [Hosts -> DesiredStates],
   ingresses: [Hosts -> Svcs \cup {None}],
   upstreams: SUBSET Svcs,
   endpoints: [Svcs -> Endpoints],
   mirrored: [Svcs -> BOOLEAN],
   ports: SUBSET PortRows]

StoreTypeOK == db \in Tables /\ version \in Nat

\* The desired state a freshly created protection has.
EmptyDesiredState == CHOOSE d \in DesiredStates : TRUE

StoreInit ==
  /\ db = [applications |-> {},
           modes        |-> [h \in Hosts |-> None],
           desired      |-> [h \in Hosts |-> EmptyDesiredState],
           ingresses    |-> [h \in Hosts |-> None],
           upstreams    |-> {},
           endpoints    |-> [s \in Svcs |-> [ip \in IPs |-> None]],
           mirrored     |-> [s \in Svcs |-> FALSE],
           ports        |-> {}]
  /\ version = 0

-----------------------------------------------------------------------------
(* Triggers.                                                               *)

Bump(needed) == version' = IF needed THEN version + 1 ELSE version

\* jsonb_object_keys of the endpoints column: the addresses.
Keys(eps) == {ip \in IPs : eps[ip] # None}

\* Mutant: the trigger compares how many addresses there are.
UpstreamTriggerByCount(s, eps) ==
  s \in db.upstreams /\ Cardinality(Keys(db.endpoints[s])) # Cardinality(Keys(eps))

\* Mutant: the trigger fires on every update.
UpstreamTriggerAlways(s, eps) == s \in db.upstreams

\* upstreams_update_trigger: AFTER UPDATE only, and only when the set of
\* addresses differs; who is behind an address does not matter to it.
UpstreamTrigger(s, eps) ==
  s \in db.upstreams /\ Keys(db.endpoints[s]) # Keys(eps)

\* The row of the unique index (number and type, upstream, ingress).
PortRow(h, s, n) ==
  {r \in db.ports : r.host = h /\ r.svc = s /\ r.number = n}

\* insert_delete_ports: AFTER INSERT, not AFTER UPDATE.
PortTrigger(h, s, n) == PortRow(h, s, n) = {}

-----------------------------------------------------------------------------
(* Statements.                                                             *)

\* NewUpstreamFromRequest and UpstreamRepository.Save.  An empty list of
\* endpoints is a nil slice once the request is decoded and a nil column is
\* omitted, as is a mirror policy the request does not set.
SaveUpstream(s, eps, m) ==
  LET saved == IF Keys(eps) = {} THEN db.endpoints[s] ELSE eps
  IN /\ db' = [db EXCEPT !.upstreams = @ \cup {s},
                         !.endpoints[s] = saved,
                         !.mirrored[s] = IF m = None THEN @ ELSE m]
     /\ Bump(UpstreamTrigger(s, saved))

\* IngressRepository.Save with the BeforeCreate hook.  On a conflict on the
\* host neither upstream_id nor application_id is among the updated columns.
SaveIngress(h, s) ==
  /\ s \in db.upstreams
  /\ db' = [db EXCEPT !.applications = @ \cup {h},
                      !.ingresses[h] = IF @ = None THEN s ELSE @]
  /\ UNCHANGED version

\* Mutant: the candidate is taken without a look at the other rows.
proxyProtAllocatorUnchecked(p) == p \in ProxyPorts

\* proxyProtAllocator: one random candidate, tried again and again; it is
\* free when no row has it.
proxyProtAllocator(p) == p \in ProxyPorts /\ \A r \in db.ports : r.proxy # p

\* Mutant: an existing row gets a new proxy port.
allocateProxyListenerPortAnew(h, s, n, p) ==
  IF n \in SvcPorts THEN p = None ELSE proxyProtAllocator(p)

\* allocateProxyListenerPort, the BeforeCreate hook: p is the proxy port the
\* row will be written with.  An existing row keeps its own.
allocateProxyListenerPort(h, s, n, p) ==
  IF n \in SvcPorts THEN p = None
  ELSE IF PortRow(h, s, n) # {} THEN \E r \in PortRow(h, s, n) : p = r.proxy
  ELSE proxyProtAllocator(p)

\* One iteration of PortRepository.Save after the hook chose p.  Rows of
\* ports the request no longer lists stay: deleteUnexistingPorts finds them
\* and does nothing.
SavePort(h, s, n, p) ==
  /\ db.ingresses[h] # None /\ s \in db.upstreams
  /\ db' = [db EXCEPT !.ports = (@ \ PortRow(h, s, n)) \cup
                {[host |-> h, svc |-> s, number |-> n, proxy |-> p]}]
  /\ Bump(PortTrigger(h, s, n))

\* ApplicationRepository.CreateApplication: fails on the unique name.
InsertApplication(h) ==
  /\ h \notin db.applications
  /\ db' = [db EXCEPT !.applications = @ \cup {h}]
  /\ UNCHANGED version

\* Mutant: the trigger is AFTER INSERT only.
WriteProtectionBumpsOnInsert(h, mode, d) ==
  /\ h \in db.applications
  /\ db' = [db EXCEPT !.modes[h] = mode, !.desired[h] = d]
  /\ Bump(db.modes[h] = None)

\* INSERT or UPDATE of a protections row: the trigger fires on either, also
\* when no column changes.  There is no successful delete: the crs_versions
\* row that AfterCreate adds keeps a reference to the protection.
WriteProtection(h, mode, d) ==
  /\ h \in db.applications
  /\ db' = [db EXCEPT !.modes[h] = mode, !.desired[h] = d]
  /\ Bump(TRUE)

-----------------------------------------------------------------------------
(* What ListProtections returns.                                           *)

\* The port rows found for a host: those of the upstream its ingress row
\* names.
ListedPorts(d, h) ==
  {r \in d.ports : r.host = h /\ r.svc = d.ingresses[h]}

ContainerPortRows(d, h) ==
  {r \in ListedPorts(d, h) : r.number \in ContainerPorts}

\* What pollers act on: per host the mode, the desired state, the container
\* ports with their proxy ports, and the addresses behind them.
View ==
  [h \in Hosts |->
     [mode |-> db.modes[h], desired |-> db.desired[h],
      ports |-> ContainerPortRows(db, h),
      ips |-> IF ContainerPortRows(db, h) = {} THEN {}
              ELSE Keys(db.endpoints[db.ingresses[h]])]]

-----------------------------------------------------------------------------
\* The statements as they follow one another when the calls of CreateRoute
\* do not overlap: the hook of a port and its INSERT are then one step.
Statement ==
  \/ \E s \in Svcs, eps \in Endpoints, m \in BOOLEAN \cup {None} :
       SaveUpstream(s, eps, m)
  \/ \E h \in Hosts, s \in Svcs : SaveIngress(h, s)
  \/ \E h \in Hosts, s \in Svcs, n \in ContainerPorts \cup SvcPorts,
        p \in ProxyPorts \cup {None} :
       allocateProxyListenerPort(h, s, n, p) /\ SavePort(h, s, n, p)
  \/ \E h \in Hosts : InsertApplication(h)
  \/ \E h \in Hosts, m \in Modes, d \in DesiredStates : WriteProtection(h, m, d)

\* Rows refer to rows that exist: the foreign keys that gorm migrates.
ForeignKeys ==
  /\ \A h \in Hosts :
       /\ db.ingresses[h] # None => /\ db.ingresses[h] \in db.upstreams
                                    /\ h \in db.applications
       /\ db.modes[h] # None => h \in db.applications
  /\ \A r \in db.ports : db.ingresses[r.host] # None /\ r.svc \in db.upstreams

\* The unique index of ports, and a proxy port exactly for container ports.
PortKeys ==
  \A r \in db.ports :
    /\ r.proxy = None <=> r.number \in SvcPorts
    /\ PortRow(r.host, r.svc, r.number) = {r}

\* No protection is older than the first version.
FirstVersion == \A h \in Hosts : db.modes[h] # None => version > 0

StoreInv == ForeignKeys /\ PortKeys /\ FirstVersion
=============================================================================
