--------------------------- MODULE MaintenanceProps ---------------------------
(***************************************************************************)
(* What the commands that restart a whole cluster promise.                 *)
(***************************************************************************)
EXTENDS Maintenance

PC == {"idle", "done", "stop", "start", "arm", "awaitApi", "write", "removeMember",
       "deleteVolume", "createVolume", "runHelper", "removeHelper", "launch",
       "verify", "snapshot", "save"}

(* The type invariant; a quorum on record is one that can be.               *)
TypeOK ==
    /\ listing \in Listings /\ torn \in BOOLEAN
    /\ ctr \in [Nodes -> {"running", "stopped", "absent"}]
    /\ \A n \in Nodes \ Members : ctr[n] # "absent"
    /\ armed \subseteq {n \in K3s : Running(n)}
    /\ data \in [Members -> Data]
    /\ helper \subseteq Members \cup Servers
    /\ fresh \subseteq Dirs /\ stale \subseteq Nodes
    /\ quorum \in BOOLEAN
    /\ quorum => CanElect
    /\ files \subseteq File
    /\ known \subseteq Nodes /\ mem \subseteq Nodes
    /\ cmd \in {"none", "stop", "start", "rotateCerts", "restore", "snapshot"}
    /\ pc \in PC
    /\ todo \in Seq(Nodes)
    /\ file \in File \cup {"none"}
    /\ faults \in 0..MaxFaults

(* "the datastore outlives every server that writes to it", and agents run  *)
(* only beside the load balancer they join through (lifecycle.go): so in    *)
(* whatever order state.json lists the nodes, and wherever a stop, a start, *)
(* a rotation or a restore has failed before.                               *)
Layered ==
    /\ \A s \in Servers, m \in Members : Running(s) => Running(m)
    /\ \A a, l \in Nodes : a.role = "agent" /\ l.role = "lb" /\ Running(a) => Running(l)

(* Members never run on data of different origins, and never on an empty    *)
(* volume that would start a cluster of its own: a restore that died with   *)
(* some volumes replaced, and any command after it, starts no member beside *)
(* one that was not replaced ("EVERY member must restore from the SAME      *)
(* snapshot file", snapshot.go).                                            *)
NoMixedData ==
    \A m, n \in Members :
        Running(m) /\ Running(n) => data[m] = data[n] /\ data[m] \notin {"blank", "absent"}

(* "so nothing is using the old certs while they are replaced"              *)
(* (runRotateCerts): no member or server runs that was started before its   *)
(* directory of the bundle was last written.                                *)
NoneOnOldCerts == stale = {}

(* A one-shot container works on a volume that no container has mounted at  *)
(* that time: "while the server container is stopped" (rotate.go), and for  *)
(* a member when its container is gone.                                     *)
HelpersWorkAlone == \A n \in Turn : pc \in {"runHelper", "removeHelper"} => ~Running(n)

(* Once it has stopped all, -restore has servers run only on data that was  *)
(* seen to hold the marker, although it has looked at one member only.      *)
RestoreStartsVerified ==
    cmd = "restore" /\ pc # "stop" /\ (\E s \in Servers : Running(s)) =>
        \A m \in Members : Running(m) /\ data[m] = "saved"

(* When -rotate-certs or -restore reports success, no helper is left, no    *)
(* k3s node runs without its kernel settings, every recorded address but    *)
(* the load balancer's is right; the bundle is whole after a rotation, and  *)
(* the datastore is the snapshot's after a restore - whatever had failed    *)
(* before.  (The LB is started and not looked at: `continue` in             *)
(* startLBAndAgents and startNonDatastore.)                                 *)
Success ==
    [][pc = "save" /\ pc' = "idle" /\ faults' = faults =>
        /\ \A n \in K3s : Running(n) => n \in armed
        /\ \A n \in Nodes : n \notin known' => n.role = "lb"
        /\ cmd = "rotateCerts" => fresh = Dirs /\ helper \cap Servers = {}
        /\ cmd = "restore" => helper \cap Members = {}
                              /\ \A m \in Members : data[m] = file
      ]_vars

(* A helper left on a member's volume: -restore removes it only after it    *)
(* has deleted the volume, which is refused.                                *)
Blocked == \E m \in Members : m \in helper /\ data[m] # "absent"

Sound ==
    /\ \A n \in Nodes : Running(n)
    /\ Reachable /\ fresh = Dirs

(* However commands have failed, an operator who has a snapshot and goes on *)
(* repeating -rotate-certs and -restore has a sound cluster in the end,     *)
(* unless a helper blocks the way, or state.json is torn and none begins.   *)
RepairRecovers == "saved" \in files ~> (Sound \/ Blocked \/ torn)
=============================================================================
