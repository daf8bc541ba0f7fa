---------------------------- MODULE Provisioning ----------------------------
(***************************************************************************)
(* One cluster, as the membership commands of k3ac see it: Create,         *)
(* AddAgents, AddServer, RemoveNode and Destroy.  Every command is a run   *)
(* of the k3ac binary, a Session; nothing locks one run out of another.    *)
(* A command is a sequence of `container` CLI calls and of writes under    *)
(* the cluster's state dir; between any two of them the call may fail, a   *)
(* timeout may expire or the process may be killed, and no command but     *)
(* Destroy undoes or continues anything: an error leaves all as it is.     *)
(*                                                                         *)
(* A node is a role and an index; its container, and its named volume      *)
(* unless it is the load balancer, are keyed on that identity.  Which IP   *)
(* a container gets and what runs in it are left out; so are waits, whose  *)
(* only effects are to let the command go on or to end it.                 *)
(***************************************************************************)
EXTENDS Naturals

CONSTANTS
    Session,        \* the concurrent runs of k3ac against this cluster
    MaxIndex,       \* bound on node indices
    Clusters,       \* node sets a -create may ask for, etcd and LB included
    Commands,       \* the commands the operator uses
    MayOverlap,     \* pairs of commands the operator may run at a time
    UsesNetwork,    \* -network names a network other than "default"
    BYODatastore,   \* -datastore-endpoint was given
    TornWrites,     \* a run may die inside the write of state.json
    MaxFaults       \* bound on the calls that fail by themselves and the deaths

Role == {"datastore", "server", "lb", "agent"}
Node == [role : Role, idx : 1..MaxIndex]
Command == {"create", "addAgents", "addServer", "removeNode", "destroy"}

HasVolume(n) == n.role # "lb"
Members(S) == {n \in S : n.role = "datastore"}
Servers(S) == {n \in S : n.role = "server"}
Agents(S)  == {n \in S : n.role = "agent"}
K3sNodes(S) == Servers(S) \cup Agents(S)
BringUp(S) == S \ Members(S)      \* what follows the datastore in Create
Bootstrap == [role |-> "server", idx |-> 1]
TheLB == [role |-> "lb", idx |-> 1]

ASSUME ConstantsAssumption ==
    /\ MaxIndex \in Nat \ {0}
    /\ Clusters \subseteq SUBSET Node
    /\ \A c \in Clusters : Bootstrap \in c /\ \A n \in c : n.role = "lb" => n = TheLB
    /\ Commands \subseteq Command
    /\ MayOverlap \subseteq Command \X Command
    /\ UsesNetwork \in BOOLEAN /\ BYODatastore \in BOOLEAN
    /\ TornWrites \in BOOLEAN /\ MaxFaults \in Nat

VARIABLES
    \* what the container runtime holds
    ctr,          \* container of each node
    vol,          \* named volume of each node: "blank" until a node ran on it
    armed,        \* nodes whose kernel settings were set after their launch
    net,          \* the custom network exists
    \* what <stateDir>/<cluster> holds
    disk,         \* state.json: "absent", "ok" or "torn"
    recorded,     \* state.Nodes in it
    kubeconfig,   \* the operator's kubeconfig is there
    tlsDir,       \* the etcd TLS bundle is there
    lbDisk,       \* servers listed in haproxy.cfg
    \* what running processes loaded
    trusting,     \* nodes launched since the bundle was last written
    lbLive,       \* servers the running haproxy balances over
    \* the runs of k3ac
    cmd,          \* the command it executes, or "none"
    pc,           \* the step it is at
    plan,         \* the nodes the command is to add, or to tear down
    todo,         \* of the loop it is in: the nodes not done with
    at,           \* of a teardown loop: the node the turn is about, if begun
    mem,          \* its copy of state.Nodes
    mounts,       \* AddServer found the client half of an etcd bundle
    errs,         \* Destroy has collected an error
    faults        \* how many faults have happened

runtime == <<ctr, vol, armed, net, trusting, lbLive>>
dir     == <<disk, recorded, kubeconfig, tlsDir, lbDisk>>
vars    == <<runtime, dir, cmd, pc, plan, todo, at, mem, mounts, errs, faults>>

-----------------------------------------------------------------------------
(* The order of Create's loops: by role, by index within a role.            *)

Rank == [datastore |-> 0, server |-> 1, lb |-> 2, agent |-> 3]

Before(m, n) ==
    \/ Rank[m.role] < Rank[n.role]
    \/ m.role = n.role /\ m.idx < n.idx

IsNext(n, S) == n \in S /\ \A m \in S \ {n} : Before(n, m)

(* nextIndexForPrefix: one more than the highest recorded index.            *)
IsNextIndex(i, nodes, role) ==
    /\ \A n \in nodes : n.role = role => n.idx < i
    /\ i = 1 \/ \E n \in nodes : n.role = role /\ n.idx + 1 = i

Removable(n) == n.role = "agent"

AddServerable(nodes) ==
    /\ BYODatastore \/ Members(nodes) # {}
    /\ \E n \in nodes : n.role = "lb"

(* `container run --name` needs the name free and the mounted volume there. *)
Launchable(n) == ctr[n] = "absent" /\ (HasVolume(n) => vol[n] # "absent")

-----------------------------------------------------------------------------
(* Sessions *)

Enter(s, p, S) ==
    /\ pc' = [pc EXCEPT ![s] = p]
    /\ todo' = [todo EXCEPT ![s] = S]
    /\ at' = [at EXCEPT ![s] = {}]

(* The next call of the same turn of a loop.                                *)
Stay(s, p, n) ==
    /\ pc' = [pc EXCEPT ![s] = p]
    /\ at' = [at EXCEPT ![s] = {n}]
    /\ UNCHANGED todo

(* The nodes the session's next call may be about.  A bring-up goes in      *)
(* order; a teardown goes by the order of a list that depends on the past.  *)
Turn(s) ==
    CASE pc[s] \in {"etcdVolumes", "etcdLaunch", "volumes", "launch", "arm"} ->
            {n \in todo[s] : IsNext(n, todo[s])}
      [] pc[s] \in {"stop", "sweepStop", "sweepVolume"} -> todo[s]
      [] OTHER -> at[s]

(* The run ends, by return or by death: only its memory is gone.            *)
End(s) ==
    /\ cmd' = [cmd EXCEPT ![s] = "none"]
    /\ Enter(s, "idle", {})
    /\ plan' = [plan EXCEPT ![s] = {}]
    /\ mem' = [mem EXCEPT ![s] = {}]
    /\ mounts' = [mounts EXCEPT ![s] = FALSE]
    /\ errs' = [errs EXCEPT ![s] = FALSE]

Start(s, c, p, work, P, known) ==
    /\ cmd[s] = "none"
    /\ c \in Commands
    /\ \A t \in Session \ {s} : cmd[t] # "none" => <<c, cmd[t]>> \in MayOverlap
    /\ cmd' = [cmd EXCEPT ![s] = c]
    /\ Enter(s, p, work)
    /\ plan' = [plan EXCEPT ![s] = P]
    /\ mem' = [mem EXCEPT ![s] = known]
    /\ mounts' = [mounts EXCEPT ![s] = (c = "addServer" /\ tlsDir)]
    /\ UNCHANGED <<errs, runtime, dir>>

-----------------------------------------------------------------------------
(* Create, AddAgents, AddServer.  Create does not read state.json.          *)

(* validateClusterConfig, and setupDatastore's odd number of members.       *)
ValidCluster(c) ==
    /\ Servers(c) # {}
    /\ Servers(c) # {Bootstrap} => BYODatastore \/ Members(c) # {}
    /\ Members(c) # {} =>
        \E k \in 1..MaxIndex : Members(c) = [role : {"datastore"}, idx : 1..(2*k + 1)]

StartCreate(s) ==
    \E c \in Clusters :
        ValidCluster(c) /\ Start(s, "create", "network", {}, c, {})

(* Mutant: agents added later get a role of their own.                      *)
StartAddAgentsWrongRole(s) ==
    /\ disk = "ok"
    /\ \E i \in 1..MaxIndex, count \in 1..MaxIndex :
        /\ IsNextIndex(i, recorded, "agent")
        /\ i + count - 1 <= MaxIndex
        /\ LET new == [role : {"worker"}, idx : i..(i + count - 1)]
           IN  Start(s, "addAgents", "volumes", new, new, recorded)

StartAddAgents(s) ==
    /\ disk = "ok"
    /\ \E i \in 1..MaxIndex, count \in 1..MaxIndex :
        /\ IsNextIndex(i, recorded, "agent")
        /\ i + count - 1 <= MaxIndex
        /\ LET new == [role : {"agent"}, idx : i..(i + count - 1)]
           IN  Start(s, "addAgents", "volumes", new, new, recorded)

StartAddServer(s) ==
    /\ disk = "ok"
    /\ AddServerable(recorded)
    /\ \E i \in 1..MaxIndex :
        /\ IsNextIndex(i, recorded, "server")
        /\ LET new == [role : {"server"}, idx : {i}]
           IN  Start(s, "addServer", "volumes", new, new, recorded)

(* Mutant: only the agents' volumes are prepared.                           *)
EnsureNetworkAgentsOnly(s) ==
    /\ pc[s] = "network"
    /\ net' = (net \/ UsesNetwork)
    /\ IF Members(plan[s]) # {}
       THEN Enter(s, "etcdTLS", {})
       ELSE IF Agents(plan[s]) = {} THEN Enter(s, "launch", BringUp(plan[s]))
       ELSE Enter(s, "volumes", Agents(plan[s]))
    /\ UNCHANGED <<ctr, vol, armed, trusting, lbLive, dir,
                   cmd, plan, mem, mounts, errs>>

EnsureNetwork(s) ==
    /\ pc[s] = "network"
    /\ net' = (net \/ UsesNetwork)
    /\ IF Members(plan[s]) # {}
       THEN Enter(s, "etcdTLS", {})
       ELSE Enter(s, "volumes", K3sNodes(plan[s]))
    /\ UNCHANGED <<ctr, vol, armed, trusting, lbLive, dir,
                   cmd, plan, mem, mounts, errs>>

(* The bundle is written before the etcd volumes are looked at.             *)
DeliverEtcdTLS(s) ==
    /\ pc[s] = "etcdTLS"
    /\ tlsDir' = TRUE
    /\ trusting' = {}
    /\ Enter(s, "etcdVolumes", Members(plan[s]))
    /\ UNCHANGED <<ctr, vol, armed, net, lbLive, disk, recorded, kubeconfig,
                   lbDisk, cmd, plan, mem, mounts, errs>>

(* Mutant: an existing volume is taken as it is.                            *)
CreateVolumeReusing(s) ==
    /\ pc[s] \in {"etcdVolumes", "volumes"}
    /\ \E n \in Turn(s) :
        /\ vol' = [vol EXCEPT ![n] = IF @ = "absent" THEN "blank" ELSE @]
        /\ \/ todo[s] # {n} /\ Enter(s, pc[s], todo[s] \ {n})
           \/ /\ todo[s] = {n} /\ pc[s] = "etcdVolumes"
              /\ Enter(s, "etcdLaunch", Members(plan[s]))
           \/ /\ todo[s] = {n} /\ pc[s] = "volumes"
              /\ Enter(s, "launch", BringUp(plan[s]))
    /\ UNCHANGED <<ctr, armed, net, trusting, lbLive, dir,
                   cmd, plan, mem, mounts, errs>>

(* One turn of prepareNodeVolumes (and of the etcd loop like it): the       *)
(* volume must not exist.  The test and the creation are one step, since    *)
(* `volume create` fails as the test does when the volume appears between.  *)
CreateVolume(s) ==
    /\ pc[s] \in {"etcdVolumes", "volumes"}
    /\ \E n \in Turn(s) :
        /\ vol[n] = "absent"
        /\ vol' = [vol EXCEPT ![n] = "blank"]
        /\ \/ todo[s] # {n} /\ Enter(s, pc[s], todo[s] \ {n})
           \/ /\ todo[s] = {n} /\ pc[s] = "etcdVolumes"
              /\ Enter(s, "etcdLaunch", Members(plan[s]))
           \/ /\ todo[s] = {n} /\ pc[s] = "volumes"
              /\ Enter(s, "launch", BringUp(plan[s]))
    /\ UNCHANGED <<ctr, armed, net, trusting, lbLive, dir,
                   cmd, plan, mem, mounts, errs>>

(* Mutant: etcd members are not put in front of the nodes.                  *)
LaunchMemberUnrecorded(s) ==
    /\ pc[s] = "etcdLaunch"
    /\ \E n \in Turn(s) :
        /\ Launchable(n)
        /\ ctr' = [ctr EXCEPT ![n] = "running"]
        /\ vol' = [vol EXCEPT ![n] = "used"]
        /\ trusting' = trusting \cup {n}
        /\ mem' = mem
        /\ IF todo[s] = {n}
           THEN Enter(s, "etcdReady", {})
           ELSE Enter(s, "etcdLaunch", todo[s] \ {n})
    /\ UNCHANGED <<armed, net, lbLive, dir, cmd, plan, mounts, errs>>

(* `container run` of one etcd member, then its address.                    *)
LaunchMember(s) ==
    /\ pc[s] = "etcdLaunch"
    /\ \E n \in Turn(s) :
        /\ Launchable(n)
        /\ ctr' = [ctr EXCEPT ![n] = "running"]
        /\ vol' = [vol EXCEPT ![n] = "used"]
        /\ trusting' = trusting \cup {n}
        /\ mem' = [mem EXCEPT ![s] = @ \cup {n}]
        /\ IF todo[s] = {n}
           THEN Enter(s, "etcdReady", {})
           ELSE Enter(s, "etcdLaunch", todo[s] \ {n})
    /\ UNCHANGED <<armed, net, lbLive, dir, cmd, plan, mounts, errs>>

(* waitForEtcdMember on each member, then waitForEtcdQuorum.                *)
EtcdReady(s) ==
    /\ pc[s] = "etcdReady"
    /\ \A n \in Members(plan[s]) : ctr[n] = "running"
    /\ Enter(s, "volumes", K3sNodes(plan[s]))
    /\ UNCHANGED <<runtime, dir, cmd, plan, mem, mounts, errs>>

(* Servers mount the client half of the etcd bundle: the one Create wrote   *)
(* for its managed datastore, or the one AddServer found when it began.     *)
MountsBundle(s) == IF cmd[s] = "create" THEN Members(plan[s]) # {} ELSE mounts[s]

(* `container run` of a server, of the LB (after writing its haproxy.cfg)   *)
(* or of an agent.                                                          *)
LaunchNode(s) ==
    /\ pc[s] = "launch"
    /\ \E n \in Turn(s) :
        /\ Launchable(n)
        /\ ctr' = [ctr EXCEPT ![n] = "running"]
        /\ vol' = IF HasVolume(n) THEN [vol EXCEPT ![n] = "used"] ELSE vol
        /\ trusting' = IF n.role = "server" /\ MountsBundle(s)
                       THEN trusting \cup {n} ELSE trusting
        /\ lbDisk' = IF n.role = "lb" THEN Servers(plan[s]) ELSE lbDisk
        /\ lbLive' = IF n.role = "lb" THEN Servers(plan[s]) ELSE lbLive
    /\ Enter(s, "arm", todo[s])
    /\ UNCHANGED <<armed, net, disk, recorded, kubeconfig, tlsDir,
                   cmd, plan, mem, mounts, errs>>

(* Mutant: no enableIPForward on agents.                                    *)
ArmNodeServersOnly(s) ==
    /\ pc[s] = "arm"
    /\ \E n \in Turn(s) :
        /\ ctr[n] = "running"
        /\ armed' = IF n.role # "server" THEN armed ELSE armed \cup {n}
        /\ kubeconfig' = (kubeconfig \/ (cmd[s] = "create" /\ n = Bootstrap))
        /\ mem' = [mem EXCEPT ![s] = @ \cup {n}]
        /\ IF todo[s] # {n} THEN Enter(s, "launch", todo[s] \ {n})
           ELSE Enter(s, IF cmd[s] = "addServer" THEN "lbConfig" ELSE "save", {})
    /\ UNCHANGED <<ctr, vol, net, trusting, lbLive, disk, recorded, tlsDir,
                   lbDisk, cmd, plan, mounts, errs>>

(* What follows the launch: the address, enableIPForward, readiness, the    *)
(* kubeconfig when it is the bootstrap server, and the append to the nodes. *)
ArmNode(s) ==
    /\ pc[s] = "arm"
    /\ \E n \in Turn(s) :
        /\ ctr[n] = "running"
        /\ armed' = IF n.role = "lb" THEN armed ELSE armed \cup {n}
        /\ kubeconfig' = (kubeconfig \/ (cmd[s] = "create" /\ n = Bootstrap))
        /\ mem' = [mem EXCEPT ![s] = @ \cup {n}]
        /\ IF todo[s] # {n} THEN Enter(s, "launch", todo[s] \ {n})
           ELSE Enter(s, IF cmd[s] = "addServer" THEN "lbConfig" ELSE "save", {})
    /\ UNCHANGED <<ctr, vol, net, trusting, lbLive, disk, recorded, tlsDir,
                   lbDisk, cmd, plan, mounts, errs>>

(* Mutant: the new server is appended to the nodes after refreshAPILB.      *)
ConfigureLBBeforeAppend(s) ==
    /\ pc[s] = "lbConfig"
    /\ lbDisk' = Servers(mem[s] \ plan[s])
    /\ Enter(s, "lbStop", {})
    /\ UNCHANGED <<runtime, disk, recorded, kubeconfig, tlsDir,
                   cmd, plan, mem, mounts, errs>>

(* refreshAPILB: haproxy.cfg, stop, start.                                  *)
ConfigureLB(s) ==
    /\ pc[s] = "lbConfig"
    /\ lbDisk' = Servers(mem[s])
    /\ Enter(s, "lbStop", {})
    /\ UNCHANGED <<runtime, disk, recorded, kubeconfig, tlsDir,
                   cmd, plan, mem, mounts, errs>>

StopLB(s) ==
    /\ pc[s] = "lbStop"
    /\ ctr' = IF ctr[TheLB] = "running" THEN [ctr EXCEPT ![TheLB] = "stopped"]
                                        ELSE ctr
    /\ Enter(s, "lbStart", {})
    /\ UNCHANGED <<vol, armed, net, trusting, lbLive, dir,
                   cmd, plan, mem, mounts, errs>>

StartLB(s) ==
    /\ pc[s] = "lbStart"
    /\ ctr[TheLB] # "absent"
    /\ ctr' = [ctr EXCEPT ![TheLB] = "running"]
    /\ lbLive' = lbDisk
    /\ Enter(s, "save", {})
    /\ UNCHANGED <<vol, armed, net, trusting, dir,
                   cmd, plan, mem, mounts, errs>>

(* Mutant: the removed node stays in state.Nodes.                           *)
SaveStateKeepsRemoved(s) ==
    /\ pc[s] = "save"
    /\ disk' = "ok"
    /\ recorded' = mem[s]
    /\ End(s)
    /\ UNCHANGED <<runtime, kubeconfig, tlsDir, lbDisk>>

SaveState(s) ==
    /\ pc[s] = "save"
    /\ disk' = "ok"
    /\ recorded' = IF cmd[s] = "removeNode" THEN mem[s] \ plan[s] ELSE mem[s]
    /\ End(s)
    /\ UNCHANGED <<runtime, kubeconfig, tlsDir, lbDisk>>

-----------------------------------------------------------------------------
(* RemoveNode and Destroy *)

StartRemoveNode(s) ==
    /\ disk = "ok"
    /\ \E n \in recorded :
        Removable(n) /\ Start(s, "removeNode", "stop", {n}, {n}, recorded)

(* Mutant: a missing state.json ends the command.                           *)
StartDestroyNeedsState(s) ==
    /\ disk = "ok"
    /\ Start(s, "destroy", IF recorded = {} THEN "listContainers" ELSE "stop",
             recorded, recorded, recorded)

(* A missing state.json makes a name-only ClusterRef: no nodes, no network. *)
StartDestroy(s) ==
    /\ disk # "torn"
    /\ Start(s, "destroy", IF recorded = {} THEN "listContainers" ELSE "stop",
             recorded, recorded, recorded)

(* Where a teardown goes after the call it is at, whether the call worked   *)
(* or, in Destroy, only added to the errors to report.                      *)
NextInLoop(s, n, head, tail) ==
    IF todo[s] = {n} THEN Enter(s, tail, {}) ELSE Enter(s, head, todo[s] \ {n})

NodeDone(s, n) ==
    NextInLoop(s, n, "stop",
               IF cmd[s] = "removeNode" THEN "save" ELSE "listContainers")

AfterCall(s, n) ==
    \/ pc[s] = "stop" /\ Stay(s, "remove", n)
    \/ pc[s] = "remove" /\ HasVolume(n) /\ Stay(s, "volume", n)
    \/ pc[s] = "remove" /\ ~HasVolume(n) /\ NodeDone(s, n)
    \/ pc[s] = "volume" /\ NodeDone(s, n)
    \/ pc[s] = "sweepStop" /\ Stay(s, "sweepRemove", n)
    \/ pc[s] = "sweepRemove" /\ NextInLoop(s, n, "sweepStop", "listVolumes")
    \/ pc[s] = "sweepVolume" /\ NextInLoop(s, n, "sweepVolume", "deleteNetwork")

StopNode(s) ==
    /\ pc[s] \in {"stop", "sweepStop"}
    /\ \E n \in Turn(s) :
        /\ ctr' = IF ctr[n] = "running" THEN [ctr EXCEPT ![n] = "stopped"] ELSE ctr
        /\ AfterCall(s, n)
    /\ UNCHANGED <<vol, armed, net, trusting, lbLive, dir,
                   cmd, plan, mem, mounts, errs>>

(* `container rm` refuses a running container; "not found" is fine.         *)
RemoveContainer(s) ==
    /\ pc[s] \in {"remove", "sweepRemove"}
    /\ \E n \in Turn(s) :
        /\ ctr[n] # "running"
        /\ ctr' = [ctr EXCEPT ![n] = "absent"]
        /\ armed' = armed \ {n}
        /\ trusting' = trusting \ {n}
        /\ lbLive' = IF n = TheLB THEN {} ELSE lbLive
        /\ AfterCall(s, n)
    /\ UNCHANGED <<vol, net, dir, cmd, plan, mem, mounts, errs>>

(* `volume delete` refuses a volume a container mounts.                     *)
DeleteVolume(s) ==
    /\ pc[s] \in {"volume", "sweepVolume"}
    /\ \E n \in Turn(s) :
        /\ ctr[n] = "absent" \/ vol[n] = "absent"
        /\ vol' = [vol EXCEPT ![n] = "absent"]
        /\ AfterCall(s, n)
    /\ UNCHANGED <<ctr, armed, net, trusting, lbLive, dir,
                   cmd, plan, mem, mounts, errs>>

(* The sweep works on what each list returned, not on what exists later.    *)
ListContainers(s) ==
    /\ pc[s] = "listContainers"
    /\ LET labelled == {n \in Node : ctr[n] # "absent"}
       IN  Enter(s, IF labelled = {} THEN "listVolumes" ELSE "sweepStop", labelled)
    /\ UNCHANGED <<runtime, dir, cmd, plan, mem, mounts, errs>>

(* Mutant: only the servers' volumes are created with the cluster label.    *)
ListVolumesOfServers(s) ==
    /\ pc[s] = "listVolumes"
    /\ LET labelled == {n \in Node : vol[n] # "absent" /\ n.role = "server"}
       IN  Enter(s, IF labelled = {} THEN "deleteNetwork" ELSE "sweepVolume", labelled)
    /\ UNCHANGED <<runtime, dir, cmd, plan, mem, mounts, errs>>

ListVolumes(s) ==
    /\ pc[s] = "listVolumes"
    /\ LET labelled == {n \in Node : vol[n] # "absent"}
       IN  Enter(s, IF labelled = {} THEN "deleteNetwork" ELSE "sweepVolume", labelled)
    /\ UNCHANGED <<runtime, dir, cmd, plan, mem, mounts, errs>>

(* Only a state read from state.json names the network to delete; a         *)
(* network containers are attached to is not deleted.                       *)
NamesNetwork(s) == mem[s] # {} /\ UsesNetwork

DeleteNetwork(s) ==
    /\ pc[s] = "deleteNetwork"
    /\ NamesNetwork(s) => \A n \in Node : ctr[n] = "absent"
    /\ net' = (net /\ ~NamesNetwork(s))
    /\ Enter(s, "removeDir", {})
    /\ UNCHANGED <<ctr, vol, armed, trusting, lbLive, dir,
                   cmd, plan, mem, mounts, errs>>

(* os.RemoveAll of the state dir, whatever went wrong before.               *)
RemoveDir(s) ==
    /\ pc[s] = "removeDir"
    /\ disk' = "absent"
    /\ recorded' = {}
    /\ kubeconfig' = FALSE
    /\ tlsDir' = FALSE
    /\ lbDisk' = {}
    /\ End(s)
    /\ UNCHANGED runtime

-----------------------------------------------------------------------------
(* Errors *)

(* The call the session is at cannot work in the present state.             *)
Refused(s) ==
    \/ /\ pc[s] \in {"etcdVolumes", "volumes"}
       /\ \E n \in Turn(s) : vol[n] # "absent"
    \/ /\ pc[s] \in {"etcdLaunch", "launch"}
       /\ \E n \in Turn(s) : ~Launchable(n)
    \/ pc[s] = "etcdReady" /\ \E n \in Members(plan[s]) : ctr[n] # "running"
    \/ pc[s] = "arm" /\ \E n \in Turn(s) : ctr[n] # "running"
    \/ pc[s] = "lbStart" /\ ctr[TheLB] = "absent"

StillRunning(s, n) == pc[s] \in {"remove", "sweepRemove"} /\ ctr[n] = "running"

StillMounted(s, n) == /\ pc[s] \in {"volume", "sweepVolume"}
                      /\ vol[n] # "absent" /\ ctr[n] # "absent"

StillAttached(s) == /\ pc[s] = "deleteNetwork" /\ NamesNetwork(s)
                    /\ \E n \in Node : ctr[n] # "absent"

(* What was asked for is refused, whatever is on the host.  With an unknown *)
(* DNS domain, or an even number of members, only the network is there; a   *)
(* -manifest that is not there, or that bears the name of another, ends a   *)
(* Create with its members up and every volume made; two nodes with one     *)
(* address end a command with all launched.                                 *)
BadCluster(s) ==
    /\ cmd[s] = "create"
    /\ \/ pc[s] = "etcdTLS"
       \/ pc[s] = "volumes" /\ Members(plan[s]) = {} /\ todo[s] = K3sNodes(plan[s])
BadManifest(s) == cmd[s] = "create" /\ pc[s] = "launch" /\ todo[s] = BringUp(plan[s])
SameAddress(s) == cmd[s] \in {"create", "addAgents", "addServer"} /\ pc[s] = "save"

Rejected(s) == BadCluster(s) \/ BadManifest(s) \/ SameAddress(s)

(* haproxy.cfg is written before the load balancer's `container run`.       *)
ConfigLeft(s) ==
    IF pc[s] = "launch" /\ TheLB \in Turn(s) THEN Servers(plan[s]) ELSE lbDisk

(* Mutant: an add that ends with an error takes its nodes back, by name.    *)
GiveUpTakingBack(s) ==
    LET back == IF cmd[s] \in {"addAgents", "addServer"} THEN plan[s] ELSE {}
    IN  /\ cmd[s] \notin {"none", "destroy"}
        /\ ctr' = [n \in Node |-> IF n \in back THEN "absent" ELSE ctr[n]]
        /\ vol' = [n \in Node |-> IF n \in back THEN "absent" ELSE vol[n]]
        /\ lbDisk' = ConfigLeft(s)
        /\ End(s)
        /\ UNCHANGED <<armed, net, trusting, lbLive, disk, recorded, kubeconfig,
                       tlsDir>>

(* Every command but Destroy returns at its first error.                    *)
GiveUp(s) ==
    /\ cmd[s] \notin {"none", "destroy"}
    /\ lbDisk' = ConfigLeft(s)
    /\ End(s)
    /\ UNCHANGED <<runtime, disk, recorded, kubeconfig, tlsDir>>

(* Destroy collects the error and goes on to the next call.                 *)
Collect(s) ==
    /\ cmd[s] = "destroy"
    /\ errs' = [errs EXCEPT ![s] = TRUE]
    /\ UNCHANGED <<runtime, dir, cmd, plan, mem, mounts>>

CollectOf(s, n) == Collect(s) /\ n \in Turn(s) /\ AfterCall(s, n)

CollectOfList(s) ==
    /\ Collect(s)
    /\ \/ pc[s] = "listContainers" /\ Enter(s, "listVolumes", {})
       \/ pc[s] = "listVolumes" /\ Enter(s, "deleteNetwork", {})
       \/ pc[s] = "deleteNetwork" /\ Enter(s, "removeDir", {})

RefusedCall(s) ==
    \/ Refused(s) /\ GiveUp(s)
    \/ Rejected(s) /\ GiveUp(s)
    \/ \E n \in Turn(s) :
        /\ StillRunning(s, n) \/ StillMounted(s, n)
        /\ GiveUp(s) \/ CollectOf(s, n)
    \/ StillAttached(s) /\ CollectOfList(s)

(* The process is killed, or os.RemoveAll fails as the last thing.          *)
Die(s) ==
    /\ cmd[s] # "none"
    /\ lbDisk' \in {lbDisk, ConfigLeft(s)}
    /\ End(s)
    /\ UNCHANGED <<runtime, disk, recorded, kubeconfig, tlsDir>>

(* os.WriteFile truncates state.json first: it is not written in one step.  *)
DieInSave(s) ==
    /\ TornWrites
    /\ pc[s] = "save"
    /\ disk' = "torn"
    /\ recorded' = {}
    /\ End(s)
    /\ UNCHANGED <<runtime, kubeconfig, tlsDir, lbDisk>>

-----------------------------------------------------------------------------
Init ==
    /\ ctr = [n \in Node |-> "absent"]
    /\ vol = [n \in Node |-> "absent"]
    /\ armed = {} /\ trusting = {} /\ lbLive = {} /\ lbDisk = {}
    /\ net = FALSE /\ kubeconfig = FALSE /\ tlsDir = FALSE
    /\ disk = "absent" /\ recorded = {}
    /\ cmd = [s \in Session |-> "none"]
    /\ pc = [s \in Session |-> "idle"]
    /\ plan = [s \in Session |-> {}]
    /\ todo = [s \in Session |-> {}]
    /\ at = [s \in Session |-> {}]
    /\ mem = [s \in Session |-> {}]
    /\ mounts = [s \in Session |-> FALSE]
    /\ errs = [s \in Session |-> FALSE]
    /\ faults = 0

Begin(s) ==
    \/ StartCreate(s) \/ StartAddAgents(s) \/ StartAddServer(s)
    \/ StartRemoveNode(s) \/ StartDestroy(s)

BringUpStep(s) ==
    \/ EnsureNetwork(s) \/ DeliverEtcdTLS(s) \/ CreateVolume(s)
    \/ LaunchMember(s) \/ EtcdReady(s) \/ LaunchNode(s) \/ ArmNode(s)
    \/ ConfigureLB(s) \/ StopLB(s) \/ StartLB(s) \/ SaveState(s)

TeardownStep(s) ==
    \/ StopNode(s) \/ RemoveContainer(s) \/ DeleteVolume(s)
    \/ ListContainers(s) \/ ListVolumes(s) \/ DeleteNetwork(s) \/ RemoveDir(s)

Work(s) == BringUpStep(s) \/ TeardownStep(s) \/ RefusedCall(s)

(* A call that could work fails, or the run dies.                           *)
Fault(s) ==
    /\ faults < MaxFaults
    /\ faults' = faults + 1
    /\ \/ \E n \in Turn(s) : CollectOf(s, n)
       \/ CollectOfList(s)
       \/ Die(s)
       \/ DieInSave(s)

Next ==
    \E s \in Session :
        Fault(s) \/ ((Begin(s) \/ Work(s)) /\ UNCHANGED faults)

Spec == Init /\ [][Next]_vars
=============================================================================
