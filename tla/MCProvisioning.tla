---------------------------- MODULE MCProvisioning ---------------------------
(***************************************************************************)
(* Values for the constants of Provisioning, for TLC.                      *)
(***************************************************************************)
EXTENDS RecordInv

NodesOf(role, n) == [role : {role}, idx : 1..n]

(* One server with its embedded datastore, and agents.                      *)
Single(agents) == NodesOf("server", 1) \cup NodesOf("agent", agents)

(* Two servers behind the load balancer, on a datastore of the operator's.  *)
TwoServers == NodesOf("server", 2) \cup NodesOf("lb", 1)

OneServer     == {Single(0)}
SmallClusters == {Single(1), Single(2)}
BYOClusters   == {TwoServers}
HAClusters    == {NodesOf("datastore", 3) \cup TwoServers}

AllCommands == Command
AddsOnly    == {"create", "addAgents", "addServer"}
ServersOnly == {"create", "addServer", "destroy"}

OneAtATime == {}
AddsOverlap == AddsOnly \X AddsOnly
=============================================================================
