--------------------------- MODULE ProvisioningInv ---------------------------
(***************************************************************************)
(* The inductive invariant behind LaunchesFresh, ClaimsDisjoint,           *)
(* RefusesBeforeLaunching and CommitsLive, when only commands that add     *)
(* nodes overlap.                                                          *)
(***************************************************************************)
EXTENDS ProvisioningProps

Teardown == {"removeNode", "destroy"}

OnlyAddsOverlap == MayOverlap \subseteq Adding \X Adding

AddingPC == {"network", "etcdTLS", "etcdVolumes", "etcdLaunch", "etcdReady",
             "volumes", "launch", "arm", "lbConfig", "lbStop", "lbStart", "save"}

LBPC == {"lbConfig", "lbStop", "lbStart"}

(* A command that tears down has the cluster to itself.                     *)
Alone ==
    \A s, t \in Session : s # t /\ cmd[s] \in Teardown => cmd[t] = "none"

(* A container outlives no volume it mounts. *)
Mounted == \A n \in Node : ctr[n] # "absent" /\ HasVolume(n) => vol[n] # "absent"

(* Each command keeps to its own steps. *)
Shape(s) ==
    /\ cmd[s] = "none" => pc[s] = "idle"
    /\ cmd[s] \in Adding => pc[s] \in AddingPC
    /\ cmd[s] = "create" => pc[s] \notin LBPC
    /\ cmd[s] \in Teardown => pc[s] \notin AddingPC \ {"save"} /\ pc[s] # "idle"
    /\ cmd[s] = "destroy" => pc[s] # "save"

(* The loops of a bring-up are over nodes of its plan. *)
InPlan(s) ==
    /\ pc[s] \in {"etcdVolumes", "etcdLaunch"} => todo[s] \subseteq Members(plan[s])
    /\ pc[s] = "volumes" => todo[s] \subseteq K3sNodes(plan[s])
    /\ pc[s] \in {"launch", "arm"} => todo[s] \subseteq BringUp(plan[s])
    /\ cmd[s] = "create" => Bootstrap \in plan[s]

(* Nodes whose volume the run has created and that it has not launched.     *)
Pending(s) ==
    CASE pc[s] = "etcdVolumes" -> Members(plan[s]) \ todo[s]
      [] pc[s] = "etcdLaunch"  -> todo[s]
      [] pc[s] = "volumes"     -> K3sNodes(plan[s]) \ todo[s]
      [] pc[s] = "launch"      -> {n \in todo[s] : HasVolume(n)}
      [] pc[s] = "arm"         -> {n \in todo[s] \ Turn(s) : HasVolume(n)}
      [] OTHER -> {}

(* Nodes the run is done with: launched, armed and in its copy of Nodes.    *)
Done(s) ==
    CASE pc[s] = "etcdLaunch" -> Members(plan[s]) \ todo[s]
      [] pc[s] \in {"etcdReady", "volumes"} -> Members(plan[s])
      [] pc[s] \in {"launch", "arm"} -> plan[s] \ todo[s]
      [] pc[s] \in {"lbConfig", "lbStop", "lbStart", "save"} -> plan[s]
      [] OTHER -> {}

PendingFresh(s) == \A n \in Pending(s) : ctr[n] = "absent" /\ vol[n] = "blank"

ClaimsHeld(s) == \A n \in Claimed(s) : vol[n] # "absent"

DoneUp(s) ==
    \A n \in Done(s) :
        /\ n \in mem[s]
        /\ HasVolume(n) => ctr[n] = "running"
        /\ n.role \in {"server", "agent"} => n \in armed

Delivered(s) ==
    /\ cmd[s] \in {"addAgents", "addServer", "removeNode"} => kubeconfig
    /\ cmd[s] = "create" /\ Bootstrap \in Done(s) => kubeconfig

SessionInv(s) ==
    /\ Shape(s) /\ InPlan(s) /\ Delivered(s)
    /\ cmd[s] \in Adding => PendingFresh(s) /\ ClaimsHeld(s) /\ DoneUp(s)

(* Of a run that adds nodes while others do, and of every other run alone:  *)
(* what it has claimed it holds and no other run claims, what it is to      *)
(* launch is fresh, and what it is done with is up.                         *)
AddsInv ==
    /\ Alone /\ Mounted /\ ClaimsDisjoint
    /\ disk = "ok" => kubeconfig
    /\ \A s \in Session : SessionInv(s)
=============================================================================
