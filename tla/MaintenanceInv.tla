--------------------------- MODULE MaintenanceInv ----------------------------
(***************************************************************************)
(* The inductive invariant behind what MaintenanceProofs proves: what each *)
(* call of a command knows of the nodes its loop is done with, of those it *)
(* is not, and of the one it is at.                                        *)
(***************************************************************************)
EXTENDS MaintenanceProps

Left == Range(todo)

(* Calls of the loop that starts the nodes; of the loop of -restore that    *)
(* replaces the members; and where no loop is.                              *)
Starting ==
    \/ pc \in {"start", "arm", "awaitApi"}
    \/ pc \in {"runHelper", "removeHelper"} /\ cmd = "rotateCerts"
Replacing ==
    \/ pc \in {"removeMember", "deleteVolume", "createVolume"}
    \/ pc \in {"runHelper", "removeHelper"} /\ cmd = "restore"
NoLoop == pc \in {"idle", "done", "verify", "snapshot", "save"}

(* Which calls a command makes.                                             *)
Control ==
    /\ cmd = "none" <=> pc = "idle"
    /\ file # "none" <=> cmd = "restore"
    /\ pc = "stop" => cmd \in {"stop", "rotateCerts", "restore"}
    /\ pc \in {"start", "arm"} => cmd \in {"start", "rotateCerts", "restore"}
    /\ pc \in {"write", "awaitApi"} => cmd = "rotateCerts"
    /\ pc \in {"removeMember", "deleteVolume", "createVolume", "launch", "verify"} =>
         cmd = "restore"
    /\ pc \in {"runHelper", "removeHelper", "save"} => cmd \in {"rotateCerts", "restore"}
    /\ pc = "done" => cmd \in {"stop", "start"}
    /\ pc = "snapshot" => cmd = "snapshot"

(* What a loop goes through, and in which order.                            *)
Itinerary ==
    /\ IsInjective(todo)
    /\ NoLoop => todo = <<>>
    /\ ~NoLoop /\ pc # "write" => todo # <<>>
    /\ pc = "stop" => InOrder(todo, FALSE)
    /\ Starting => InOrder(todo, TRUE)
    /\ Replacing \/ pc \in {"write", "launch"} => Left \subseteq Members
    /\ Starting /\ cmd = "restore" => Left \cap Members = {}
    /\ Starting /\ pc \in {"runHelper", "removeHelper"} => Turn \subseteq Servers
    /\ pc \in {"arm", "awaitApi"} => Turn \subseteq K3s
    /\ pc = "awaitApi" => Turn \subseteq Servers

(* What was stopped is down, up to the call that starts it.                 *)
Downs ==
    /\ pc = "stop" => \A n \in Nodes : Running(n) => n \in Left
    /\ pc = "write" \/ Replacing => \A n \in Nodes : ~Running(n)
    /\ pc \in {"launch", "verify"} => \A n \in Nodes : Running(n) => n \in Members \ Left
    /\ Starting /\ cmd = "rotateCerts" =>
         \A n \in Servers \cap Left :
            Running(n) => pc \in {"arm", "awaitApi"} /\ n \in Turn

(* What was started runs; a server may have exited since.                   *)
Ups ==
    /\ Starting => \A n \in Nodes \ Left :
         n.role \in {"datastore", "lb"} => Running(n)
    /\ pc \in {"launch", "verify"} => \A m \in Members \ Left : Running(m)
    /\ pc = "save" => \A m \in Members : Running(m)

(* Containers of members that exist have volumes with one history.          *)
OneHistory ==
    \A m, n \in Members :
        ctr[m] # "absent" /\ ctr[n] # "absent" =>
            data[m] = data[n] /\ data[m] \notin {"blank", "absent"}

(* -restore has filled the volumes of the members its loop is done with     *)
(* from the file, while their containers are gone.                          *)
Filled ==
    /\ Replacing =>
         /\ \A m \in Members \ Left : ctr[m] = "absent" /\ data[m] = file
         /\ pc # "removeMember" => \A m \in Turn : ctr[m] = "absent"
         /\ pc = "removeHelper" => \A m \in Turn : data[m] = file
    /\ pc = "launch" => \A m \in Left : ctr[m] = "absent"
    /\ cmd = "restore" /\ (pc \in {"launch", "verify", "save"} \/ Starting) =>
         \A m \in Members : data[m] = file
    /\ cmd = "restore" /\ (pc = "save" \/ Starting) => file = "saved"

(* The directories written since the new CA was made.                       *)
Bundle ==
    /\ pc = "write" /\ todo # <<>> => Left \subseteq fresh
    /\ cmd = "rotateCerts" /\ (Starting \/ pc = "save") => fresh = Dirs

(* Helpers are left only on the volumes that the loop has yet to come to.   *)
Helpers ==
    /\ cmd = "rotateCerts" /\ (Starting \/ pc = "save") =>
         /\ helper \cap Servers \subseteq Left
         /\ pc \in {"start", "arm", "awaitApi"} => helper \cap Servers \cap Turn = {}
    /\ Replacing => helper \cap Members \subseteq Left
    /\ cmd = "restore" /\ (pc \in {"launch", "verify", "save"} \/ Starting) =>
         helper \cap Members = {}

(* A node the loop is done with has its kernel settings if it runs, and its *)
(* address is on record.                                                    *)
Settled ==
    /\ Starting \/ pc = "save" =>
         \A n \in K3s : Running(n) /\ n \notin armed =>
            n \in Left /\ (pc = "awaitApi" => n \notin Turn)
    /\ cmd \in {"rotateCerts", "restore"} /\ (Starting \/ pc = "save") =>
         \A n \in Nodes : n \notin mem =>
            \/ n.role = "lb"
            \/ n \in Left /\ (pc = "awaitApi" => n \notin Turn)
    /\ pc \in {"launch", "verify"} => Members \ Left \subseteq mem

MaintInv ==
    /\ TypeOK /\ Control /\ Itinerary /\ Downs /\ Ups /\ Layered /\ OneHistory
    /\ Filled /\ Bundle /\ Helpers /\ Settled /\ NoneOnOldCerts
=============================================================================
