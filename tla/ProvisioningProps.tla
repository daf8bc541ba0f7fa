------------------------- MODULE ProvisioningProps --------------------------
(***************************************************************************)
(* What the membership commands of Provisioning promise.                   *)
(***************************************************************************)
EXTENDS Provisioning

Adding == {"create", "addAgents", "addServer"}

PC == {"idle", "network", "etcdTLS", "etcdVolumes", "etcdLaunch", "etcdReady",
       "volumes", "launch", "arm", "lbConfig", "lbStop", "lbStart", "save",
       "stop", "remove", "volume", "listContainers", "sweepStop",
       "sweepRemove", "listVolumes", "sweepVolume", "deleteNetwork",
       "removeDir"}

(* The type invariant. *)
TypeOK ==
    /\ ctr \in [Node -> {"absent", "running", "stopped"}]
    /\ vol \in [Node -> {"absent", "blank", "used"}]
    /\ armed \subseteq Node /\ trusting \subseteq Node
    /\ lbDisk \subseteq Node /\ lbLive \subseteq Node
    /\ net \in BOOLEAN /\ kubeconfig \in BOOLEAN /\ tlsDir \in BOOLEAN
    /\ disk \in {"absent", "ok", "torn"} /\ recorded \subseteq Node
    /\ cmd \in [Session -> Command \cup {"none"}]
    /\ pc \in [Session -> PC]
    /\ plan \in [Session -> SUBSET Node]
    /\ todo \in [Session -> SUBSET Node]
    /\ at \in [Session -> SUBSET Node]
    /\ mem \in [Session -> SUBSET Node]
    /\ mounts \in [Session -> BOOLEAN]
    /\ errs \in [Session -> BOOLEAN]
    /\ faults \in 0..MaxFaults

(* A volume is new when a node is launched on it: no server, agent or etcd  *)
(* member ever boots onto data an earlier life of its name left behind      *)
(* (the stale-state guard of prepareNodeVolumes, create.go).                *)
LaunchesFresh ==
    [][\A n \in Node :
          ctr[n] = "absent" /\ ctr'[n] = "running" /\ HasVolume(n)
              => vol[n] = "blank"]_vars

(* The nodes whose volume a run has created and still counts on.            *)
Claimed(s) ==
    CASE pc[s] = "etcdVolumes" -> Members(plan[s]) \ todo[s]
      [] pc[s] \in {"etcdLaunch", "etcdReady"} -> Members(plan[s])
      [] pc[s] = "volumes" -> {n \in plan[s] \ todo[s] : HasVolume(n)}
      [] pc[s] \in {"launch", "arm", "lbConfig", "lbStop", "lbStart", "save"} ->
            {n \in plan[s] : HasVolume(n)}
      [] OTHER -> {}

(* Of two runs that add nodes at the same time, at most one gets a name:    *)
(* both may compute it from the same state.json, and the volume decides.    *)
ClaimsDisjoint ==
    \A s, t \in Session :
        s # t /\ cmd[s] \in Adding /\ cmd[t] \in Adding
            => Claimed(s) \cap Claimed(t) = {}

(* Once a run is past the guard on a node's own volume, `container run`     *)
(* does not refuse that node: the guard, which looks at volumes only, finds *)
(* leftover containers too.  It does not for the load balancer, which has   *)
(* no volume.  It comes before every launch of the bring-up that follows    *)
(* it, and so of every Create and add without a managed datastore; with     *)
(* one, the members are launched before the k3s volumes are looked at.      *)
RefusesBeforeLaunching ==
    \A s \in Session :
        pc[s] \in {"etcdLaunch", "launch"}
            => \A n \in Turn(s) : HasVolume(n) => Launchable(n)

NothingLeft == \A n \in Node : ctr[n] = "absent" /\ vol[n] = "absent"

(* A Destroy that has no error to report when it comes to remove the state  *)
(* dir has reclaimed every container and volume of the cluster, recorded or *)
(* orphaned by a command that died (destroy.go, the two passes).            *)
DestroyLeavesNothing ==
    \A s \in Session : pc[s] = "removeDir" /\ ~errs[s] => NothingLeft

(* What Create, AddAgents and AddServer write to state.json is true: the    *)
(* nodes just added are running, the k3s nodes have IP forwarding on, and   *)
(* the kubeconfig that -create delivers is there.                           *)
CommitsLive ==
    [][\A s \in Session : SaveState(s) /\ cmd[s] \in Adding =>
          /\ plan[s] \subseteq recorded'
          /\ \A n \in plan[s] : HasVolume(n) => ctr[n] = "running"
          /\ K3sNodes(plan[s]) \subseteq armed
          /\ kubeconfig]_vars

(* Whenever a server set is recorded beside a load balancer, the haproxy    *)
(* that is running has loaded every one of those servers (refreshAPILB).    *)
LBServesRecord ==
    [][\A s \in Session :
          SaveState(s) /\ cmd[s] \in {"create", "addServer"} /\ TheLB \in recorded'
              => ctr[TheLB] = "running" /\ Servers(recorded') \subseteq lbLive]_vars

(* Commands that add nodes may overlap, overwrite each other's state.json   *)
(* and lose nodes from it.  But as long as commands end only by themselves, *)
(* with success or with a refusal, early or late, what state.json names is  *)
(* up whenever nothing is being torn down: a run that loses a name to       *)
(* another, and is refused, takes nothing down that the winner records, and *)
(* no run records a node it has not brought up.  (A RemoveNode beside an    *)
(* AddAgents is not covered: there the record does name a node that is      *)
(* gone.)                                                                   *)
NoGhosts ==
    faults = 0 /\ (\A s \in Session : cmd[s] \in Adding \cup {"none"}) =>
        \A n \in recorded : HasVolume(n) => ctr[n] = "running"

-----------------------------------------------------------------------------
(* Liveness.  A command's calls return: each has a timeout or is local.     *)
(* The operator who can run -destroy again and again does so again and      *)
(* again; whatever else is run in between, and faults are bounded in number *)
(* by MaxFaults.                                                            *)

Fairness ==
    \A s \in Session :
        /\ WF_vars(Work(s) /\ UNCHANGED faults)
        /\ SF_vars(StartDestroy(s) /\ UNCHANGED faults)

(* Whatever failed and died before, and whatever of it failed half-way,     *)
(* -destroy repeated gets the host clean again and again, unless a death in *)
(* the write of state.json has left a file that no command gets past.       *)
DestroyRecovers == []<>((NothingLeft /\ disk = "absent") \/ disk = "torn")

-----------------------------------------------------------------------------
(* What the comments say and the code does not do. *)

(* "-destroy: Destroy the named cluster (nodes, etcd members, LB, named     *)
(* volumes, network, state dir)" (README.md, flag table): after a Destroy   *)
(* that reports no error the network is gone.                               *)
DestroyRemovesNetwork ==
    \A s \in Session : pc[s] = "removeDir" /\ ~errs[s] => ~net

(* "Done once, before any launch, so a bad -manifest fails fast instead of  *)
(* mid-bring-up" (Create): when the manifests are looked at, no node of the *)
(* cluster has been launched.                                               *)
ManifestsBeforeLaunch ==
    \A s \in Session : BadManifest(s) => \A n \in plan[s] : ctr[n] = "absent"

(* "the new server reaches etcd with the SAME client cert the existing      *)
(* servers use" (AddServer): the bundle AddServer finds on disk is the one  *)
(* the recorded etcd members were launched with.                            *)
AddServerSharesBundle ==
    \A s \in Session :
        cmd[s] = "addServer" /\ pc[s] = "arm"
            => \A n \in Members(mem[s]) \cup Servers(mem[s]) :
                   ctr[n] = "running" => n \in trusting
=============================================================================
