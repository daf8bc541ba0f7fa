------------------------------ MODULE RecordInv ------------------------------
(***************************************************************************)
(* The inductive invariants behind DestroyLeavesNothing and NoGhosts, when  *)
(* only commands that add nodes overlap, and behind LBServesRecord and the *)
(* match of record and host, when no commands do.                          *)
(***************************************************************************)
EXTENDS ProvisioningInv

NoOverlap == MayOverlap = {}

(* No name is created with etcd members of its own at one time and without  *)
(* at another.  Create does not read state.json, and its first volume guard *)
(* is on the members' volumes: an HA -create over a live single-server      *)
(* cluster would launch members before it is refused.                       *)
OneShape ==
    \A c, d \in Clusters :
        ValidCluster(c) /\ ValidCluster(d) => (Members(c) = {} <=> Members(d) = {})

-----------------------------------------------------------------------------
SweepPC == {"listContainers", "sweepStop", "sweepRemove", "listVolumes",
            "sweepVolume", "deleteNetwork", "removeDir"}

(* As long as Destroy has no error to report, what is left is in the list   *)
(* that it is going through.                                                *)
Swept(s) ==
    /\ pc[s] \in SweepPC => cmd[s] = "destroy"
    /\ ~errs[s] =>
        /\ pc[s] \in {"sweepStop", "sweepRemove"} =>
             \A n \in Node : ctr[n] # "absent" => n \in todo[s]
        /\ pc[s] \in {"listVolumes", "sweepVolume", "deleteNetwork", "removeDir"} =>
             \A n \in Node : ctr[n] = "absent"
        /\ pc[s] = "sweepVolume" =>
             \A n \in Node : vol[n] # "absent" => n \in todo[s]
        /\ pc[s] \in {"deleteNetwork", "removeDir"} =>
             \A n \in Node : vol[n] = "absent"

DestroyInv == \A s \in Session : Swept(s)

-----------------------------------------------------------------------------
(* Up are those of these nodes that keep their data in a volume.            *)
Live(S) == \A n \in S : HasVolume(n) => ctr[n] = "running"

(* RemoveNode takes down no other node, and none of its calls is refused.   *)
Spares(s) ==
    /\ mem[s] = recorded /\ Live(recorded \ plan[s])
    /\ pc[s] \in {"stop", "remove", "volume", "save"}
    /\ pc[s] = "stop" => todo[s] \subseteq plan[s]
    /\ pc[s] \in {"remove", "volume"} => at[s] \subseteq plan[s] /\ todo[s] \subseteq plan[s]
    /\ pc[s] = "remove" => \A n \in at[s] : ctr[n] # "running"
    /\ pc[s] = "volume" => \A n \in at[s] : ctr[n] = "absent"

(* What a run that adds nodes has read and done is up, and what is recorded  *)
(* too unless it is being torn down.                                         *)
LiveInv ==
    /\ (\A s \in Session : cmd[s] \notin Teardown) => Live(recorded)
    /\ \A s \in Session : cmd[s] \in Adding => Live(mem[s])
    /\ \A s \in Session : cmd[s] = "removeNode" => Spares(s)

GhostsInv == faults = 0 => LiveInv

-----------------------------------------------------------------------------
(* One command runs at a time. *)
Solo == \A s, t \in Session : s # t /\ cmd[s] # "none" => cmd[t] = "none"

(* The nodes whose container a run has launched and is still to arm.        *)
Launching(s) == IF pc[s] = "arm" THEN Turn(s) ELSE {}

LBServes(S) == ctr[TheLB] = "running" /\ Servers(S) \subseteq lbLive

(* The load balancer a run leaves behind serves the servers it records.     *)
LBInv(s) ==
    /\ cmd[s] = "create" =>
         /\ plan[s] \in Clusters /\ ValidCluster(plan[s]) /\ mem[s] \subseteq plan[s]
         /\ TheLB \in mem[s] \cup Launching(s) => LBServes(plan[s])
    /\ cmd[s] = "addServer" =>
         /\ pc[s] \in {"lbStop", "lbStart"} => lbDisk = Servers(mem[s])
         /\ pc[s] = "save" => LBServes(mem[s])

SoloInv == Solo /\ \A s \in Session : LBInv(s)

-----------------------------------------------------------------------------
(* What is on the host is these nodes, up, and nothing else.                *)
Stands(n) == ctr[n] = "running" /\ (vol[n] # "absent" <=> HasVolume(n))
Gone(n) == ctr[n] = "absent" /\ vol[n] = "absent"
Exactly(S) == \A n \in Node : IF n \in S THEN Stands(n) ELSE Gone(n)

(* What every recorded cluster has: the node whose volume Create looks at   *)
(* first, among them, and no second load balancer.                          *)
FirstMember == [role |-> "datastore", idx |-> 1]
Managed == \E c \in Clusters : ValidCluster(c) /\ Members(c) # {}
Rooted(S) ==
    /\ Bootstrap \in S
    /\ Managed => FirstMember \in S
    /\ \A n \in S : n.role = "lb" => n = TheLB

(* The nodes that were there before a command that adds nodes.              *)
Base(s) == IF cmd[s] = "create" THEN {} ELSE recorded

(* What a run that adds nodes accounts for as up.                           *)
Up(s) == Base(s) \cup Done(s) \cup Launching(s)

(* A command that adds nodes, and was not refused at the first volume, has  *)
(* just the nodes it is done with, the volumes it has claimed and the node  *)
(* it is at beside what was there.                                          *)
Grows(s) ==
    /\ recorded = Base(s) /\ mem[s] = Base(s) \cup Done(s)
    /\ plan[s] \cap Base(s) = {}
    /\ cmd[s] # "create" => \A n \in plan[s] : n.role \in {"server", "agent"}
    /\ pc[s] \in LBPC => cmd[s] = "addServer"
    /\ \A n \in Up(s) :
         \/ Stands(n)
         \/ n = TheLB /\ pc[s] = "lbStart" /\ ctr[n] = "stopped" /\ vol[n] = "absent"
    /\ \A n \in Node \ Up(s) : ctr[n] = "absent" /\ (vol[n] # "absent" <=> n \in Claimed(s))

(* A Create over a cluster that is there comes no further than to the first *)
(* volume guard.                                                            *)
Doomed(s) ==
    /\ cmd[s] = "create" /\ recorded # {} /\ Exactly(recorded)
    /\ pc[s] \in {"network", "etcdTLS", "etcdVolumes", "volumes"}
    /\ pc[s] = "etcdVolumes" => todo[s] = Members(plan[s])
    /\ pc[s] = "volumes" => todo[s] = K3sNodes(plan[s])
    /\ pc[s] # "network" => (pc[s] = "volumes" <=> Members(plan[s]) = {})

(* RemoveNode takes its one node apart and leaves the others alone.         *)
Shrinks(s) ==
    /\ mem[s] = recorded /\ \E n \in Agents(recorded) : plan[s] = {n}
    /\ \A n \in Node \ plan[s] : IF n \in recorded THEN Stands(n) ELSE Gone(n)
    /\ pc[s] \in {"stop", "remove", "volume", "save"}
    /\ pc[s] # "save" => todo[s] = plan[s]
    /\ pc[s] \in {"remove", "volume"} => at[s] = plan[s]
    /\ pc[s] = "remove" => \A n \in plan[s] : ctr[n] # "running"
    /\ pc[s] = "volume" => \A n \in plan[s] : ctr[n] = "absent"
    /\ pc[s] = "save" => \A n \in plan[s] : Gone(n)

(* No call of Destroy is refused.                                           *)
Clears(s) ==
    /\ pc[s] \in {"remove", "sweepRemove"} => \A n \in at[s] : ctr[n] # "running"
    /\ pc[s] = "volume" => \A n \in at[s] : ctr[n] = "absent"

Orderly(s) ==
    /\ cmd[s] \in Adding => Grows(s) \/ Doomed(s)
    /\ cmd[s] \in {"addAgents", "addServer", "removeNode"} => Rooted(recorded)
    /\ cmd[s] = "addServer" => TheLB \in recorded
    /\ cmd[s] = "removeNode" => Shrinks(s)
    /\ cmd[s] = "destroy" => Clears(s)

(* A command is rejected for a manifest or an address, when it has volumes  *)
(* and containers on the host: they stay, and no record names them.         *)
Strands(s) == (BadManifest(s) \/ SameAddress(s)) /\ GiveUp(s)

(* The record and the host differ by what the one command that runs has     *)
(* done, and by nothing when none runs: until a call fails by itself, or a  *)
(* command is rejected late.                                                *)
Matched ==
    /\ disk = "ok" \/ recorded # {} => Rooted(recorded)
    /\ (\A s \in Session : cmd[s] = "none") => Exactly(recorded)
    /\ \A s \in Session : ~errs[s] /\ Orderly(s)
=============================================================================
