---------------------------- MODULE StoreProofs ----------------------------
(***************************************************************************)
(* Lemmas about the statements of module Store, for every set of hosts,    *)
(* services, addresses and ports.  The first group says what a statement   *)
(* does, table by table; the others never look into the statements again.  *)
(***************************************************************************)
EXTENDS ListProtections, TLAPS

USE DEF Modes

\* The desired state of a new protection is one.
LEMMA EmptyDesiredStateType == EmptyDesiredState \in DesiredStates
BY StoreAssumption DEF StoreAssumption, EmptyDesiredState

\* The seeded database is well formed and satisfies its constraints.
LEMMA StoreInitInv == StoreInit => StoreTypeOK /\ StoreInv
<1> SUFFICES ASSUME StoreInit PROVE StoreTypeOK /\ StoreInv
  OBVIOUS
<1>1. StoreTypeOK
  BY EmptyDesiredStateType
  DEF StoreInit, StoreTypeOK, Tables, Endpoints
<1>2. StoreInv
  BY DEF StoreInit, StoreInv, ForeignKeys, PortKeys, FirstVersion
<1> QED BY <1>1, <1>2

-----------------------------------------------------------------------------
\* UpstreamRepository.Save changes one row of upstreams.
LEMMA SaveUpstreamEffect ==
  ASSUME StoreTypeOK, NEW s \in Svcs, NEW eps \in Endpoints,
         NEW m \in BOOLEAN \cup {None}, SaveUpstream(s, eps, m)
  PROVE  /\ StoreTypeOK'
         /\ db'.upstreams = db.upstreams \cup {s}
         /\ \A x \in Svcs \ {s} : db'.endpoints[x] = db.endpoints[x]
         /\ s \notin db.upstreams \/ Keys(db'.endpoints[s]) = Keys(db.endpoints[s])
              \/ version' = version + 1
         /\ db'.applications = db.applications /\ db'.modes = db.modes
         /\ db'.desired = db.desired /\ db'.ingresses = db.ingresses
         /\ db'.ports = db.ports
         /\ version' \in {version, version + 1}
<1> DEFINE saved == IF Keys(eps) = {} THEN db.endpoints[s] ELSE eps
           mir == IF m = None THEN db.mirrored[s] ELSE m
<1>1. saved \in Endpoints /\ mir \in BOOLEAN
  BY DEF StoreTypeOK, Tables
<1>2. db' = [db EXCEPT !.upstreams = db.upstreams \cup {s},
                       !.endpoints = [db.endpoints EXCEPT ![s] = saved],
                       !.mirrored = [db.mirrored EXCEPT ![s] = mir]]
  BY DEF SaveUpstream, StoreTypeOK, Tables
<1>3. version' = IF s \in db.upstreams /\ Keys(db.endpoints[s]) # Keys(saved)
                 THEN version + 1 ELSE version
  BY DEF SaveUpstream, Bump, UpstreamTrigger
<1> HIDE DEF saved, mir
<1>4. db' \in Tables
  BY Zenon, <1>1, <1>2 DEF StoreTypeOK, Tables
<1>5. db'.endpoints = [db.endpoints EXCEPT ![s] = saved]
  BY <1>2 DEF StoreTypeOK, Tables
<1>6. db'.endpoints[s] = saved
  BY <1>5 DEF StoreTypeOK, Tables
<1>7. \A x \in Svcs \ {s} : db'.endpoints[x] = db.endpoints[x]
  BY <1>5 DEF StoreTypeOK, Tables
<1>8. /\ db'.upstreams = db.upstreams \cup {s}
      /\ db'.applications = db.applications /\ db'.modes = db.modes
      /\ db'.desired = db.desired /\ db'.ingresses = db.ingresses
      /\ db'.ports = db.ports
  BY <1>2 DEF StoreTypeOK, Tables
<1>9. version' \in Nat
  BY <1>3 DEF StoreTypeOK
<1> QED BY <1>3, <1>4, <1>6, <1>7, <1>8, <1>9 DEF StoreTypeOK

\* IngressRepository.Save adds an ingress and its application, and never
\* changes the upstream of an ingress.
LEMMA SaveIngressEffect ==
  ASSUME StoreTypeOK, NEW h \in Hosts, NEW s \in Svcs, SaveIngress(h, s)
  PROVE  /\ StoreTypeOK'
         /\ s \in db.upstreams
         /\ \A x \in Hosts : db'.ingresses[x] =
              IF x = h /\ db.ingresses[h] = None THEN s ELSE db.ingresses[x]
         /\ db'.applications = db.applications \cup {h}
         /\ db'.modes = db.modes /\ db'.desired = db.desired
         /\ db'.upstreams = db.upstreams /\ db'.endpoints = db.endpoints
         /\ db'.ports = db.ports
         /\ version' = version
<1> DEFINE ing == IF db.ingresses[h] = None THEN s ELSE db.ingresses[h]
<1>1. ing \in Svcs \cup {None}
  BY DEF StoreTypeOK, Tables
<1>2. db' = [db EXCEPT !.applications = db.applications \cup {h},
                       !.ingresses = [db.ingresses EXCEPT ![h] = ing]]
  BY DEF SaveIngress, StoreTypeOK, Tables
<1> HIDE DEF ing
<1>3. db' \in Tables
  BY Zenon, <1>1, <1>2 DEF StoreTypeOK, Tables
<1>4. /\ db'.ingresses = [db.ingresses EXCEPT ![h] = ing]
      /\ db'.applications = db.applications \cup {h}
      /\ db'.modes = db.modes /\ db'.desired = db.desired
      /\ db'.upstreams = db.upstreams /\ db'.endpoints = db.endpoints
      /\ db'.ports = db.ports
  BY <1>2 DEF StoreTypeOK, Tables
<1>5. \A x \in Hosts : db'.ingresses[x] =
        IF x = h /\ db.ingresses[h] = None THEN s ELSE db.ingresses[x]
  BY <1>4 DEF ing, StoreTypeOK, Tables
<1> QED BY <1>3, <1>4, <1>5 DEF SaveIngress, StoreTypeOK

\* PortRepository.Save replaces or adds one row of ports.
LEMMA SavePortEffect ==
  ASSUME StoreTypeOK, NEW h \in Hosts, NEW s \in Svcs,
         NEW n \in ContainerPorts \cup SvcPorts,
         NEW p \in ProxyPorts \cup {None}, SavePort(h, s, n, p)
  PROVE  /\ StoreTypeOK'
         /\ db.ingresses[h] # None /\ s \in db.upstreams
         /\ db'.ports = (db.ports \ PortRow(h, s, n)) \cup
                          {[host |-> h, svc |-> s, number |-> n, proxy |-> p]}
         /\ db'.applications = db.applications /\ db'.modes = db.modes
         /\ db'.desired = db.desired /\ db'.ingresses = db.ingresses
         /\ db'.upstreams = db.upstreams /\ db'.endpoints = db.endpoints
         /\ version' = IF PortRow(h, s, n) = {} THEN version + 1 ELSE version
<1> DEFINE rows == (db.ports \ PortRow(h, s, n)) \cup
                     {[host |-> h, svc |-> s, number |-> n, proxy |-> p]}
<1>1. rows \subseteq PortRows
  BY DEF StoreTypeOK, Tables, PortRows
<1>2. db' = [db EXCEPT !.ports = rows]
  BY DEF SavePort
<1> HIDE DEF rows
<1>3. db' \in Tables
  BY <1>1, <1>2 DEF StoreTypeOK, Tables
<1>4. /\ db'.ports = rows
      /\ db'.applications = db.applications /\ db'.modes = db.modes
      /\ db'.desired = db.desired /\ db'.ingresses = db.ingresses
      /\ db'.upstreams = db.upstreams /\ db'.endpoints = db.endpoints
  BY <1>2 DEF StoreTypeOK, Tables
<1>5. version' = IF PortRow(h, s, n) = {} THEN version + 1 ELSE version
  BY DEF SavePort, Bump, PortTrigger
<1>6. version' \in Nat
  BY <1>5 DEF StoreTypeOK
<1> QED BY <1>3, <1>4, <1>5, <1>6 DEF rows, SavePort, StoreTypeOK

\* CreateApplication adds an application.
LEMMA InsertApplicationEffect ==
  ASSUME StoreTypeOK, NEW h \in Hosts, InsertApplication(h)
  PROVE  /\ StoreTypeOK'
         /\ db'.applications = db.applications \cup {h}
         /\ db'.modes = db.modes
         /\ db'.desired = db.desired /\ db'.ingresses = db.ingresses
         /\ db'.upstreams = db.upstreams /\ db'.endpoints = db.endpoints
         /\ db'.ports = db.ports
         /\ version' = version
BY DEF InsertApplication, StoreTypeOK, Tables

\* A write to protections changes one row, and always the version.
LEMMA WriteProtectionEffect ==
  ASSUME StoreTypeOK, NEW h \in Hosts, NEW m \in Modes, NEW d \in DesiredStates,
         WriteProtection(h, m, d)
  PROVE  /\ StoreTypeOK'
         /\ h \in db.applications
         /\ \A x \in Hosts \ {h} : db'.modes[x] = db.modes[x]
         /\ db'.applications = db.applications
         /\ db'.ingresses = db.ingresses
         /\ db'.upstreams = db.upstreams /\ db'.endpoints = db.endpoints
         /\ db'.ports = db.ports
         /\ version' = version + 1
<1>1. db' = [db EXCEPT !.modes = [db.modes EXCEPT ![h] = m],
                       !.desired = [db.desired EXCEPT ![h] = d]]
  BY DEF WriteProtection, StoreTypeOK, Tables
<1>2. db' \in Tables
  BY Zenon, <1>1 DEF StoreTypeOK, Tables
<1>3. version' = version + 1 /\ version' \in Nat
  BY DEF WriteProtection, Bump, StoreTypeOK
<1> QED BY <1>1, <1>2, <1>3 DEF WriteProtection, StoreTypeOK, Tables

-----------------------------------------------------------------------------
\* No statement takes the version back, and none changes the upstream of an
\* ingress.
LEMMA StatementMonotonic ==
  ASSUME StoreTypeOK, Statement
  PROVE  /\ version' \in Nat /\ version' >= version
         /\ \A h \in Hosts : db.ingresses[h] # None
                               => db'.ingresses[h] = db.ingresses[h]
<1>1. CASE \E s \in Svcs, eps \in Endpoints, m \in BOOLEAN \cup {None} :
             SaveUpstream(s, eps, m)
  BY <1>1, SaveUpstreamEffect DEF StoreTypeOK
<1>2. CASE \E h \in Hosts, s \in Svcs : SaveIngress(h, s)
  <2> PICK h \in Hosts, s \in Svcs : SaveIngress(h, s)
    BY <1>2
  <2>1. \A x \in Hosts : db.ingresses[x] # None
                           => db'.ingresses[x] = db.ingresses[x]
    BY SaveIngressEffect
  <2> QED BY <2>1, SaveIngressEffect DEF StoreTypeOK
<1>3. CASE \E h \in Hosts, s \in Svcs, n \in ContainerPorts \cup SvcPorts,
              p \in ProxyPorts \cup {None} :
             allocateProxyListenerPort(h, s, n, p) /\ SavePort(h, s, n, p)
  BY <1>3, SavePortEffect DEF StoreTypeOK
<1>4. CASE \E h \in Hosts : InsertApplication(h)
  BY <1>4, InsertApplicationEffect DEF StoreTypeOK
<1>5. CASE \E h \in Hosts, m \in Modes, d \in DesiredStates :
             WriteProtection(h, m, d)
  BY <1>5, WriteProtectionEffect DEF StoreTypeOK
<1> QED BY <1>1, <1>2, <1>3, <1>4, <1>5 DEF Statement

\* Every statement keeps the foreign keys.
LEMMA StatementForeignKeys ==
  ASSUME StoreTypeOK, ForeignKeys, Statement
  PROVE  ForeignKeys'
<1>1. CASE \E s \in Svcs, eps \in Endpoints, m \in BOOLEAN \cup {None} :
             SaveUpstream(s, eps, m)
  BY <1>1, SaveUpstreamEffect DEF ForeignKeys
<1>2. CASE \E h \in Hosts, s \in Svcs : SaveIngress(h, s)
  <2> PICK h \in Hosts, s \in Svcs : SaveIngress(h, s)
    BY <1>2
  <2>1. s # None
    BY StoreAssumption DEF StoreAssumption
  <2>2. \A r \in db.ports : r.host \in Hosts
    BY DEF StoreTypeOK, Tables, PortRows
  <2> QED BY <2>1, <2>2, SaveIngressEffect DEF ForeignKeys
<1>3. CASE \E h \in Hosts, s \in Svcs, n \in ContainerPorts \cup SvcPorts,
              p \in ProxyPorts \cup {None} :
             allocateProxyListenerPort(h, s, n, p) /\ SavePort(h, s, n, p)
  <2> PICK h \in Hosts, s \in Svcs, n \in ContainerPorts \cup SvcPorts,
           p \in ProxyPorts \cup {None} : SavePort(h, s, n, p)
    BY <1>3
  <2> DEFINE row == [host |-> h, svc |-> s, number |-> n, proxy |-> p]
  <2>1. \A r \in db'.ports : r \in db.ports \/ r = row
    BY SavePortEffect
  <2> QED BY <2>1, SavePortEffect DEF ForeignKeys
<1>4. CASE \E h \in Hosts : InsertApplication(h)
  BY <1>4, InsertApplicationEffect DEF ForeignKeys
<1>5. CASE \E h \in Hosts, m \in Modes, d \in DesiredStates :
             WriteProtection(h, m, d)
  <2> PICK h \in Hosts, m \in Modes, d \in DesiredStates : WriteProtection(h, m, d)
    BY <1>5
  <2> QED BY WriteProtectionEffect DEF ForeignKeys
<1> QED BY <1>1, <1>2, <1>3, <1>4, <1>5 DEF Statement

\* Every statement keeps the unique index and the proxy ports.
LEMMA StatementPortKeys ==
  ASSUME StoreTypeOK, PortKeys, Statement
  PROVE  PortKeys'
<1>1. CASE db'.ports = db.ports
  BY <1>1 DEF PortKeys, PortRow
<1>2. CASE \E h \in Hosts, s \in Svcs, n \in ContainerPorts \cup SvcPorts,
              p \in ProxyPorts \cup {None} :
             allocateProxyListenerPort(h, s, n, p) /\ SavePort(h, s, n, p)
  <2> PICK h \in Hosts, s \in Svcs, n \in ContainerPorts \cup SvcPorts,
           p \in ProxyPorts \cup {None} :
             allocateProxyListenerPort(h, s, n, p) /\ SavePort(h, s, n, p)
    BY <1>2
  <2> DEFINE row == [host |-> h, svc |-> s, number |-> n, proxy |-> p]
  <2>1. p = None <=> n \in SvcPorts
    BY StoreAssumption
    DEF StoreAssumption, allocateProxyListenerPort, proxyProtAllocator, PortRow,
        PortKeys
  <2>2. db'.ports = (db.ports \ PortRow(h, s, n)) \cup {row}
    BY SavePortEffect
  <2> SUFFICES ASSUME NEW r \in db'.ports
               PROVE  /\ r.proxy = None <=> r.number \in SvcPorts
                      /\ PortRow(r.host, r.svc, r.number)' = {r}
    BY DEF PortKeys
  <2>3. CASE r = row
    BY <2>1, <2>2, <2>3 DEF PortRow
  <2>4. CASE r # row
    <3>1. r \in db.ports /\ r \notin PortRow(h, s, n)
      BY <2>2, <2>4
    <3>2. PortRow(r.host, r.svc, r.number) = {r}
      BY <3>1 DEF PortKeys
    <3>3. ~ (r.host = h /\ r.svc = s /\ r.number = n)
      BY <3>1 DEF PortRow
    <3>4. PortRow(r.host, r.svc, r.number)' = {r}
      BY <2>2, <3>1, <3>2, <3>3 DEF PortRow
    <3> QED BY <3>1, <3>4 DEF PortKeys
  <2> QED BY <2>3, <2>4
<1>3. CASE ~ \E h \in Hosts, s \in Svcs, n \in ContainerPorts \cup SvcPorts,
                p \in ProxyPorts \cup {None} :
               allocateProxyListenerPort(h, s, n, p) /\ SavePort(h, s, n, p)
  <2>1. db'.ports = db.ports
    BY <1>3, SaveUpstreamEffect, SaveIngressEffect, InsertApplicationEffect,
       WriteProtectionEffect DEF Statement
  <2> QED BY <1>1, <2>1
<1> QED BY <1>2, <1>3

\* Every statement keeps the tables well formed.
LEMMA StatementType == ASSUME StoreTypeOK, Statement PROVE StoreTypeOK'
BY SaveUpstreamEffect, SaveIngressEffect, SavePortEffect,
   InsertApplicationEffect, WriteProtectionEffect DEF Statement

\* A protection comes with a version.
LEMMA StatementFirstVersion ==
  ASSUME StoreTypeOK, FirstVersion, Statement
  PROVE  FirstVersion'
<1>1. CASE db'.modes = db.modes
  BY <1>1, StatementMonotonic DEF FirstVersion, StoreTypeOK
<1>2. CASE \E h \in Hosts, m \in Modes, d \in DesiredStates :
             WriteProtection(h, m, d)
  BY <1>2, WriteProtectionEffect DEF FirstVersion, StoreTypeOK
<1> QED BY <1>1, <1>2, SaveUpstreamEffect, SaveIngressEffect, SavePortEffect,
           InsertApplicationEffect DEF Statement

\* Together: every statement keeps the constraints of the tables.
LEMMA StatementInv ==
  ASSUME StoreTypeOK, StoreInv, Statement
  PROVE  StoreTypeOK' /\ StoreInv'
BY StatementType, StatementForeignKeys, StatementPortKeys, StatementFirstVersion
DEF StoreInv

\* The triggers leave no gap: a statement that changes what pollers act on
\* comes with a new version.
LEMMA StatementCovered ==
  ASSUME StoreTypeOK, StoreInv, Statement, version' = version
  PROVE  \A h \in Hosts :
           /\ db'.modes[h] = db.modes[h] /\ db'.desired[h] = db.desired[h]
           /\ ContainerPortRows(db', h) = ContainerPortRows(db, h)
           /\ ContainerPortRows(db, h) # {}
                => /\ db'.ingresses[h] = db.ingresses[h]
                   /\ Keys(db'.endpoints[db'.ingresses[h]])
                        = Keys(db.endpoints[db.ingresses[h]])
<1> USE DEF ContainerPortRows, ListedPorts
<1>0. version \in Nat
  BY DEF StoreTypeOK
<1>1. CASE \E s \in Svcs, eps \in Endpoints, m \in BOOLEAN \cup {None} :
             SaveUpstream(s, eps, m)
  <2> PICK s \in Svcs, eps \in Endpoints, m \in BOOLEAN \cup {None} :
             SaveUpstream(s, eps, m)
    BY <1>1
  <2>1. \A x \in db.upstreams : Keys(db'.endpoints[x]) = Keys(db.endpoints[x])
    <3> TAKE x \in db.upstreams
    <3>1. x \in Svcs
      BY DEF StoreTypeOK, Tables
    <3>2. CASE x = s
      BY <1>0, <3>2, SaveUpstreamEffect
    <3>3. CASE x # s
      BY <3>1, <3>3, SaveUpstreamEffect
    <3> QED BY <3>2, <3>3
  <2>2. \A h \in Hosts : ContainerPortRows(db, h) # {}
                           => db.ingresses[h] \in db.upstreams
    BY DEF StoreInv, ForeignKeys
  <2>3. /\ db'.modes = db.modes /\ db'.desired = db.desired
        /\ db'.ingresses = db.ingresses /\ db'.ports = db.ports
    BY SaveUpstreamEffect
  <2> QED BY <2>1, <2>2, <2>3
<1>2. CASE \E h \in Hosts, s \in Svcs : SaveIngress(h, s)
  <2> PICK h \in Hosts, s \in Svcs : SaveIngress(h, s)
    BY <1>2
  <2>1. \A x \in Hosts : db.ingresses[x] # None
                           => db'.ingresses[x] = db.ingresses[x]
    BY SaveIngressEffect
  <2>2. \A r \in db.ports : db.ingresses[r.host] # None
    BY DEF StoreInv, ForeignKeys
  <2>3. /\ db'.modes = db.modes /\ db'.desired = db.desired
        /\ db'.endpoints = db.endpoints /\ db'.ports = db.ports
    BY SaveIngressEffect
  <2>4. \A x \in Hosts : ContainerPortRows(db', x) = ContainerPortRows(db, x)
    BY <2>1, <2>2, <2>3
  <2>5. \A x \in Hosts : ContainerPortRows(db, x) # {}
                           => db'.ingresses[x] = db.ingresses[x]
    BY <2>1, <2>2
  <2> QED BY <2>3, <2>4, <2>5
<1>3. CASE \E h \in Hosts, s \in Svcs, n \in ContainerPorts \cup SvcPorts,
              p \in ProxyPorts \cup {None} :
             allocateProxyListenerPort(h, s, n, p) /\ SavePort(h, s, n, p)
  <2> PICK h \in Hosts, s \in Svcs, n \in ContainerPorts \cup SvcPorts,
           p \in ProxyPorts \cup {None} :
             allocateProxyListenerPort(h, s, n, p) /\ SavePort(h, s, n, p)
    BY <1>3
  <2> DEFINE row == [host |-> h, svc |-> s, number |-> n, proxy |-> p]
  <2>1. PortRow(h, s, n) # {}
    BY <1>0, SavePortEffect
  <2>2. PICK r \in PortRow(h, s, n) : TRUE
    BY <2>1
  <2>3. r \in PortRows /\ r.host = h /\ r.svc = s /\ r.number = n /\ r \in db.ports
    BY DEF StoreTypeOK, Tables, PortRow
  <2>4. PortRow(h, s, n) = {r}
    BY <2>3 DEF StoreInv, PortKeys
  <2>5. p = r.proxy
    <3>1. CASE n \in SvcPorts
      BY <2>3, <3>1 DEF allocateProxyListenerPort, StoreInv, PortKeys
    <3>2. CASE n \notin SvcPorts
      BY <2>4, <3>2 DEF allocateProxyListenerPort
    <3> QED BY <3>1, <3>2
  <2>6. r = row
    BY <2>3, <2>5 DEF PortRows
  <2>7. db'.ports = (db.ports \ PortRow(h, s, n)) \cup {row}
    BY SavePortEffect
  <2>8. db'.ports = db.ports
    BY <2>3, <2>4, <2>6, <2>7
  <2> QED BY <2>8, SavePortEffect
<1>4. CASE \E h \in Hosts : InsertApplication(h)
  BY <1>4, InsertApplicationEffect
<1>5. CASE \E h \in Hosts, m \in Modes, d \in DesiredStates :
             WriteProtection(h, m, d)
  BY <1>0, <1>5, WriteProtectionEffect
<1> QED BY <1>1, <1>2, <1>3, <1>4, <1>5 DEF Statement

\* A statement leaves the ports alone or adds one row, whose proxy port no
\* row has: a row that is written again is written as it was.
LEMMA StatementPorts ==
  ASSUME StoreTypeOK, PortKeys, Statement
  PROVE  \/ db'.ports = db.ports
         \/ \E row \in PortRows :
              /\ db'.ports = db.ports \cup {row}
              /\ row.proxy # None => \A r \in db.ports : r.proxy # row.proxy
<1>1. CASE \E h \in Hosts, s \in Svcs, n \in ContainerPorts \cup SvcPorts,
              p \in ProxyPorts \cup {None} :
             allocateProxyListenerPort(h, s, n, p) /\ SavePort(h, s, n, p)
  <2> PICK h \in Hosts, s \in Svcs, n \in ContainerPorts \cup SvcPorts,
           p \in ProxyPorts \cup {None} :
             allocateProxyListenerPort(h, s, n, p) /\ SavePort(h, s, n, p)
    BY <1>1
  <2> DEFINE row == [host |-> h, svc |-> s, number |-> n, proxy |-> p]
  <2>1. db'.ports = (db.ports \ PortRow(h, s, n)) \cup {row}
    BY SavePortEffect
  <2>2. CASE PortRow(h, s, n) = {}
    <3>1. p # None => \A r \in db.ports : r.proxy # p
      BY <2>2 DEF allocateProxyListenerPort, proxyProtAllocator
    <3>2. row \in PortRows /\ row.proxy = p
      BY DEF PortRows
    <3>3. db'.ports = db.ports \cup {row}
      BY <2>1, <2>2
    <3> QED BY <3>1, <3>2, <3>3
  <2>3. CASE PortRow(h, s, n) # {}
    <3> PICK r \in PortRow(h, s, n) : TRUE
      BY <2>3
    <3>1. /\ r \in db.ports /\ r \in PortRows
          /\ r.host = h /\ r.svc = s /\ r.number = n
      BY DEF PortRow, StoreTypeOK, Tables
    <3>2. PortRow(h, s, n) = {r}
      BY <3>1 DEF PortKeys
    <3>3. p = r.proxy
      <4>1. CASE n \in SvcPorts
        BY <3>1, <4>1 DEF allocateProxyListenerPort, PortKeys
      <4>2. CASE n \notin SvcPorts
        BY <2>3, <3>2, <4>2 DEF allocateProxyListenerPort
      <4> QED BY <4>1, <4>2
    <3>4. row = r
      BY <3>1, <3>3 DEF PortRows
    <3> QED BY <2>1, <3>1, <3>2, <3>4
  <2> QED BY <2>2, <2>3
<1>2. CASE ~ \E h \in Hosts, s \in Svcs, n \in ContainerPorts \cup SvcPorts,
                p \in ProxyPorts \cup {None} :
               allocateProxyListenerPort(h, s, n, p) /\ SavePort(h, s, n, p)
  BY <1>2, SaveUpstreamEffect, SaveIngressEffect, InsertApplicationEffect,
     WriteProtectionEffect DEF Statement
<1> QED BY <1>1, <1>2

-----------------------------------------------------------------------------
(* What the queries of ListProtections do to a list.                       *)

\* An empty list is a list, and nothing is listed in it.
LEMMA EmptyListType == EmptyList \in Lists /\ Listed(EmptyList) = {}
BY DEF EmptyList, Lists, Listed

\* A protection of a host that has one is in one of the modes.
LEMMA ProtectedMode ==
  ASSUME StoreTypeOK, NEW h \in Hosts
  PROVE  db.modes[h] \in Modes <=> db.modes[h] # None
BY StoreAssumption DEF StoreAssumption, StoreTypeOK, Tables, Modes

\* The rows of protections make a list with nothing but modes in it.
LEMMA ProtectionRowsEffect ==
  ASSUME StoreTypeOK, NEW modes \in SUBSET Modes,
         NEW l, l = ProtectionRows(db, modes)
  PROVE  /\ l \in Lists
         /\ \A h \in Hosts : h \in Listed(l) <=> db.modes[h] \in modes
         /\ \A h \in Listed(l) :
              /\ l[h].mode = db.modes[h] /\ l[h].svc = None
              /\ l[h].first = None /\ l[h].rows = {} /\ Keys(l[h].eps) = {}
<1> DEFINE entry(h) == [mode |-> db.modes[h], desired |-> db.desired[h],
                        svc |-> None, eps |-> [ip \in IPs |-> None],
                        mirrored |-> FALSE, rows |-> {}, first |-> None]
<1>1. \A h \in Hosts : db.modes[h] \in modes => entry(h) \in ListEntries
  BY Zenon DEF ListEntries, StoreTypeOK, Tables, Endpoints
<1>2. l = [h \in Hosts |-> IF db.modes[h] \notin modes THEN None ELSE entry(h)]
  BY DEF ProtectionRows
<1>3. \A h \in Hosts :
        /\ entry(h).mode = db.modes[h] /\ entry(h).svc = None
        /\ entry(h).first = None /\ entry(h).rows = {} /\ Keys(entry(h).eps) = {}
  BY DEF Keys
<1> HIDE DEF entry
<1>4. l \in Lists
  BY <1>1, <1>2 DEF Lists
<1>5. \A h \in Hosts : h \in Listed(l) <=> db.modes[h] \in modes
  BY <1>1, <1>2, EntryAssumption DEF Listed, EntryAssumption
<1>6. \A h \in Listed(l) : h \in Hosts /\ l[h] = entry(h)
  BY <1>2, <1>5 DEF Listed
<1> QED BY <1>3, <1>4, <1>5, <1>6

\* The ingresses fill in svc.
LEMMA WithIngressesEffect ==
  ASSUME StoreTypeOK, NEW list \in Lists, NEW l, l = WithIngresses(db, list)
  PROVE  /\ l \in Lists /\ Listed(l) = Listed(list)
         /\ \A h \in Listed(list) :
              /\ l[h].mode = list[h].mode /\ l[h].first = list[h].first
              /\ l[h].rows = list[h].rows
              /\ l[h].eps = list[h].eps /\ l[h].svc = db.ingresses[h]
<1> DEFINE entry(h) == [list[h] EXCEPT !.svc = db.ingresses[h]]
<1>1. \A h \in Listed(list) : list[h] \in ListEntries
  BY DEF Lists, Listed
<1>2. \A h \in Listed(list) :
        /\ entry(h) \in ListEntries
        /\ entry(h).mode = list[h].mode /\ entry(h).first = list[h].first
        /\ entry(h).rows = list[h].rows
        /\ entry(h).eps = list[h].eps /\ entry(h).svc = db.ingresses[h]
  BY <1>1 DEF ListEntries, StoreTypeOK, Tables, Listed
<1>3. l = [h \in Hosts |-> IF h \notin Listed(list) THEN None ELSE entry(h)]
  BY DEF WithIngresses
<1> HIDE DEF entry
<1>4. l \in Lists
  BY <1>2, <1>3 DEF Lists
<1>5. \A h \in Hosts : h \in Listed(l) <=> h \in Listed(list)
  BY <1>2, <1>3, EntryAssumption DEF Listed, EntryAssumption
<1>6. \A h \in Listed(list) : l[h] = entry(h)
  BY <1>3 DEF Listed
<1>7. Listed(l) = Listed(list)
  BY <1>5 DEF Listed
<1> QED BY <1>2, <1>4, <1>6, <1>7

\* The upstreams fill in eps.
LEMMA WithUpstreamsEffect ==
  ASSUME StoreTypeOK, NEW list \in Lists, NEW l, l = WithUpstreams(db, list)
  PROVE  /\ l \in Lists /\ Listed(l) = Listed(list)
         /\ \A h \in Listed(list) :
              /\ l[h].mode = list[h].mode /\ l[h].first = list[h].first
              /\ l[h].rows = list[h].rows /\ l[h].svc = list[h].svc
              /\ l[h].eps = IF list[h].svc = None THEN list[h].eps
                            ELSE db.endpoints[list[h].svc]
<1> DEFINE entry(h) == [list[h] EXCEPT !.eps = db.endpoints[list[h].svc],
                                       !.mirrored = db.mirrored[list[h].svc]]
<1>1. \A h \in Listed(list) : list[h] \in ListEntries
  BY DEF Lists, Listed
<1>2. ASSUME NEW h \in Listed(list), list[h].svc # None
      PROVE  /\ entry(h) \in ListEntries
             /\ entry(h).mode = list[h].mode /\ entry(h).first = list[h].first
             /\ entry(h).rows = list[h].rows /\ entry(h).svc = list[h].svc
             /\ entry(h).eps = db.endpoints[list[h].svc]
  <2>1. list[h] \in ListEntries
    BY <1>1
  <2>2. list[h].svc \in Svcs
    BY <1>2, <2>1 DEF ListEntries
  <2>3. db.endpoints[list[h].svc] \in Endpoints
    BY <2>2 DEF StoreTypeOK, Tables
  <2>4. db.mirrored[list[h].svc] \in BOOLEAN
    BY <2>2 DEF StoreTypeOK, Tables
  <2> QED BY Zenon, <2>1, <2>3, <2>4 DEF ListEntries
<1>3. l = [h \in Hosts |->
             IF h \notin Listed(list) \/ list[h].svc = None THEN list[h]
             ELSE entry(h)]
  BY Zenon DEF WithUpstreams
<1> HIDE DEF entry
<1>4. l \in Lists
  BY <1>2, <1>3 DEF Lists
<1>5. \A h \in Hosts : h \in Listed(l) <=> h \in Listed(list)
  BY <1>2, <1>3, EntryAssumption DEF Listed, EntryAssumption
<1>6. \A h \in Listed(list) : l[h] = IF list[h].svc = None THEN list[h] ELSE entry(h)
  BY <1>3 DEF Listed
<1>7. Listed(l) = Listed(list)
  BY <1>5 DEF Listed
<1>8. \A h \in Listed(list) :
        /\ l[h].mode = list[h].mode /\ l[h].first = list[h].first
        /\ l[h].rows = list[h].rows /\ l[h].svc = list[h].svc
        /\ l[h].eps = IF list[h].svc = None THEN list[h].eps
                      ELSE db.endpoints[list[h].svc]
  BY <1>2, <1>6
<1> QED BY <1>4, <1>7, <1>8

\* The ports of one host fill in rows and first.
LEMMA WithPortsEffect ==
  ASSUME StoreTypeOK, NEW list \in Lists, NEW h \in Listed(list),
         NEW rows, rows = PortsFound(db, list, h), NEW f \in rows \cup {None},
         NEW l, l = WithPorts(list, h, rows, f)
  PROVE  /\ l \in Lists /\ Listed(l) = Listed(list)
         /\ \A x \in Hosts \ {h} : l[x] = list[x]
         /\ l[h].mode = list[h].mode /\ l[h].svc = list[h].svc
         /\ l[h].eps = list[h].eps /\ l[h].rows = rows /\ l[h].first = f
<1>1. rows \subseteq ContainerRows
  BY DEF StoreTypeOK, Tables, ContainerRows, PortsFound
<1> DEFINE entry == [list[h] EXCEPT !.rows = rows, !.first = f]
<1>2. h \in Hosts /\ list[h] \in ListEntries
  BY DEF Listed, Lists
<1>3. /\ entry \in ListEntries
      /\ entry.mode = list[h].mode /\ entry.svc = list[h].svc
      /\ entry.eps = list[h].eps /\ entry.rows = rows /\ entry.first = f
  BY Zenon, <1>1, <1>2 DEF ListEntries
<1>4. l = [list EXCEPT ![h] = entry]
  BY Zenon DEF WithPorts, Lists
<1> HIDE DEF entry
<1>5. l \in Lists /\ l[h] = entry
  BY <1>2, <1>3, <1>4 DEF Lists
<1>6. \A x \in Hosts \ {h} : l[x] = list[x]
  BY <1>4 DEF Lists
<1>7. \A x \in Hosts : l[x] = None <=> list[x] = None
  BY <1>2, <1>3, <1>5, <1>6, EntryAssumption DEF EntryAssumption, Listed
<1>8. Listed(l) = Listed(list)
  BY <1>7 DEF Listed
<1> QED BY <1>3, <1>5, <1>6, <1>8
=============================================================================
