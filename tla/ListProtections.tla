-------------------------- MODULE ListProtections --------------------------
(***************************************************************************)
(* What ListProtections of the API server returns when applications are    *)
(* included, and the queries it is put together from.  A list maps a       *)
(* listed host to what was found for it, any other host to None:           *)
(*   mode, desired   the protection row                                    *)
(*   svc             the upstream of its ingress, None when the            *)
(*                   application has no ingress                            *)
(*   eps, mirrored   that upstream's endpoints and mirror policy           *)
(*   rows, first     its container port rows and the first one returned    *)
(* Every query runs in a transaction of its own, so the operators take the *)
(* tables d they see.                                                      *)
(***************************************************************************)
EXTENDS Store

ContainerRows == {r \in PortRows : r.number \in ContainerPorts}

ListEntries ==
  [mode: Modes, desired: DesiredStates, svc: Svcs \cup {None},
   eps: Endpoints, mirrored: BOOLEAN, rows: SUBSET ContainerRows,
   first: ContainerRows \cup {None}]

ASSUME EntryAssumption == None \notin ListEntries

Lists == [Hosts -> ListEntries \cup {None}]

EmptyList == [h \in Hosts |-> None]

Listed(list) == {h \in Hosts : list[h] # None}

\* SELECT ... FROM protections, with a filter on the mode.
ProtectionRows(d, modes) ==
  [h \in Hosts |->
     IF d.modes[h] \notin modes THEN None
     ELSE [mode |-> d.modes[h], desired |-> d.desired[h], svc |-> None,
           eps |-> [ip \in IPs |-> None], mirrored |-> FALSE, rows |-> {},
           first |-> None]]

\* Preload of the applications and their ingresses.
WithIngresses(d, list) ==
  [h \in Hosts |->
     IF h \notin Listed(list) THEN None
     ELSE [list[h] EXCEPT !.svc = d.ingresses[h]]]

\* Preload of the upstreams of those ingresses.
WithUpstreams(d, list) ==
  [h \in Hosts |->
     IF h \notin Listed(list) \/ list[h].svc = None THEN list[h]
     ELSE [list[h] EXCEPT !.eps = d.endpoints[list[h].svc],
                          !.mirrored = d.mirrored[list[h].svc]]]

\* The hosts whose ports are still to be queried after that.
WithoutPorts(list) == {h \in Listed(list) : list[h].svc # None}

\* The container ports one query per ingress finds.  They come in no stated
\* order, so any of them may be the first.
PortsFound(d, list, h) ==
  {r \in d.ports : r.host = h /\ r.svc = list[h].svc
                   /\ r.number \in ContainerPorts}

IsFirst(f, rows) == f \in rows \/ (f = None /\ rows = {})

WithPorts(list, h, found, f) ==
  [list EXCEPT ![h].rows = found, ![h].first = f]
=============================================================================
