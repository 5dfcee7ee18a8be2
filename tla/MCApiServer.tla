---------------------------- MODULE MCApiServer ----------------------------
(***************************************************************************)
(* Small instances of ApiServer.                                           *)
(***************************************************************************)
EXTENDS ApiServer, TLC

\* The hosts, the proxy ports and the clients of a kind are interchangeable.
Symmetry ==
  Permutations(Hosts) \cup Permutations(ProxyPorts)
    \cup Permutations(ProtectionClients)
=============================================================================
