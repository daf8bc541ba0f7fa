----------------------------- MODULE Maintenance -----------------------------
(***************************************************************************)
(* The commands that restart a whole cluster with a managed datastore:     *)
(* -stop, -start, -rotate-certs and -restore; and -snapshot.  They visit   *)
(* the nodes one by one, in an order computed from their roles, and may    *)
(* fail or be killed between any two calls.  One runs at a time.           *)
(*                                                                         *)
(* What a volume of an etcd member holds is reduced to where it came from: *)
(* the cluster's own history ("live"), a snapshot of it, or a file that is *)
(* a snapshot of something else ("hollow": it has no marker key).  A file  *)
(* that is no snapshot is "bad".                                           *)
(***************************************************************************)
EXTENDS NodeOrder

CONSTANTS
    Nodes,      \* the nodes of the cluster
    Listings,   \* the orders state.json may have them in
    MaxFaults   \* bound on failing calls and deaths

Members == {n \in Nodes : n.role = "datastore"}
Servers == {n \in Nodes : n.role = "server"}
K3s     == {n \in Nodes : n.role \in {"server", "agent"}}

(* The directories of the etcd bundle: one for each member, one for the     *)
(* servers.                                                                 *)
Client   == [role |-> "client", idx |-> 0]
Dirs     == Members \cup {Client}
DirOf(n) == IF n \in Members THEN n ELSE Client

File == {"saved", "hollow", "bad"}
Data == {"absent", "blank", "live", "saved", "hollow"}

ASSUME NodesAssumption ==
    /\ Nodes \subseteq [role : Roles, idx : Nat]
    /\ IsFiniteSet(Nodes) /\ Members # {} /\ Servers # {}
    /\ MaxFaults \in Nat
ASSUME ListingsAssumption ==
    \A l \in Listings : l \in Seq(Nodes) /\ Range(l) = Nodes /\ IsInjective(l)

VARIABLES
    listing,   \* state.Nodes, as state.json was last written whole
    torn,      \* a later write of it was cut short
    ctr,       \* each node's container
    armed,     \* nodes whose kernel settings were made since they came up
    data,      \* what each member's volume holds
    helper,    \* nodes with a one-shot container beside them, on their volume
    fresh,     \* the directories written since the last CA was made
    stale,     \* running nodes whose directory was rewritten under them
    quorum,    \* the members have elected a leader
    files,     \* the files an operator may restore from
    known,     \* nodes whose recorded address is the current one
    \* the run of k3ac
    cmd, pc,
    todo,      \* the nodes (or directories) the loop is not done with
    file,      \* the file it restores from
    mem,       \* known, of its copy of the state
    faults

cluster == <<ctr, armed, data, helper, fresh, stale, quorum, files, known>>
run     == <<cmd, pc, todo, file, mem>>
vars    == <<listing, torn, cluster, run, faults>>

-----------------------------------------------------------------------------
Running(n) == ctr[n] = "running"

(* Majorities of members that run on data of one origin.                    *)
Quorums ==
    {Q \in SUBSET Members :
        /\ 2 * Cardinality(Q) > Cardinality(Members)
        /\ \A m \in Q : Running(m)
        /\ \A m, n \in Q : data[m] = data[n]}

(* Parties trust each other if one CA has signed their certificates.  Of    *)
(* directories older than the last CA this may or may not be so.            *)
Agree(D) == D \subseteq fresh \/ D \cap fresh = {}

CanElect == \E Q \in Quorums : Agree(Q)

(* A client, on the host or a server, can use the datastore.                *)
Usable    == \E Q \in Quorums : Agree(Q \cup {Client})
Reachable == quorum /\ Usable

-----------------------------------------------------------------------------
(* The orders of a list of recorded nodes, one for each that may be.        *)
StopOrderOf  == [nodes \in Listings |-> StopOrder(nodes)]
StartOrderOf == [nodes \in Listings |-> StartOrder(nodes)]

(* The nodes a command starts, in its order.                                *)
StartList(c) ==
    CASE c = "start"       -> StartOrderOf[listing]
      [] c = "rotateCerts" -> NodesWithRole(listing, "datastore")
                              \o NodesWithRole(listing, "server")
                              \o WithRoles(StartOrderOf[listing], {"lb", "agent"})
      [] c = "restore"     -> WithRoles(StartOrderOf[listing], Roles \ {"datastore"})

FirstMember == NodesWithRole(listing, "datastore")[1]

(* The command goes on to call p, for the nodes of s.                       *)
Goto(p, s) == pc' = p /\ todo' = s /\ UNCHANGED <<cmd, file>>

StartsAt(s) ==
    IF cmd = "rotateCerts" /\ Head(s).role = "server" THEN "runHelper" ELSE "start"

(* On to the next node to start, or past the last one.                      *)
NextToStart ==
    LET rest == Tail(todo)
    IN  IF rest # <<>> THEN Goto(StartsAt(rest), rest)
        ELSE IF cmd = "start" THEN Goto("done", <<>>)
        ELSE Goto("save", <<>>)

Begin(c, p, s, f) ==
    /\ cmd = "none" /\ ~torn
    /\ cmd' = c /\ pc' = p /\ todo' = s /\ file' = f
    /\ mem' = known
    /\ UNCHANGED cluster

End ==
    /\ cmd' = "none" /\ pc' = "idle" /\ todo' = <<>> /\ file' = "none"
    /\ mem' = {}

BeginStop == Begin("stop", "stop", StopOrderOf[listing], "none")
BeginStart == Begin("start", "start", StartList("start"), "none")
(* Mutants: the members, or the servers, are left to run until they are     *)
(* restarted.                                                               *)
BeginRotateCertsBesideEtcd ==
    Begin("rotateCerts", "stop",
          WithRoles(StopOrderOf[listing], Roles \ {"datastore"}), "none")
BeginRotateCertsBesideServers ==
    Begin("rotateCerts", "stop",
          WithRoles(StopOrderOf[listing], Roles \ {"server"}), "none")

BeginRotateCerts == Begin("rotateCerts", "stop", StopOrderOf[listing], "none")
BeginSnapshot == Begin("snapshot", "snapshot", <<>>, "none")
BeginRestore(f) == f \in files /\ Begin("restore", "stop", StopOrderOf[listing], f)

-----------------------------------------------------------------------------
(* Mutants: every node is rebuilt, or the first member only.                *)
AfterStopsAll ==
    \/ cmd = "stop" /\ Goto("done", <<>>)
    \/ cmd = "rotateCerts" /\ Goto("write", <<>>)
    \/ cmd = "restore" /\ Goto("removeMember", StartOrderOf[listing])
AfterStopsFirst ==
    \/ cmd = "stop" /\ Goto("done", <<>>)
    \/ cmd = "rotateCerts" /\ Goto("write", <<>>)
    \/ cmd = "restore" /\ Goto("removeMember", <<FirstMember>>)

(* What follows the loop that stops every node.                             *)
AfterStops ==
    \/ cmd = "stop" /\ Goto("done", <<>>)
    \/ cmd = "rotateCerts" /\ Goto("write", <<>>)
    \/ cmd = "restore" /\ Goto("removeMember", NodesWithRole(listing, "datastore"))

StopNode(n) ==
    /\ pc = "stop"
    /\ ctr' = [ctr EXCEPT ![n] = IF @ = "running" THEN "stopped" ELSE @]
    /\ armed' = armed \ {n}
    /\ stale' = stale \ {n}
    /\ UNCHANGED <<data, helper, fresh, files, known, mem>>
    /\ quorum' = (quorum /\ CanElect')
    /\ IF Len(todo) > 1 THEN Goto("stop", Tail(todo)) ELSE AfterStops

(* `container start` of a node that runs does nothing.  One that was down   *)
(* comes up with a new address.                                             *)
StartNode(n) ==
    /\ pc = "start"
    /\ ctr[n] # "absent"
    /\ ctr' = [ctr EXCEPT ![n] = "running"]
    /\ known' = IF Running(n) THEN known ELSE known \ {n}
    /\ IF n \in K3s THEN Goto("arm", todo) ELSE NextToStart
    /\ mem' = IF cmd = "rotateCerts" /\ n \in Members THEN mem \cup {n}
              ELSE IF Running(n) THEN mem ELSE mem \ {n}
    /\ UNCHANGED <<armed, data, helper, fresh, stale, quorum, files>>

(* Mutant: the address of an agent is not taken over.                       *)
ArmUnrecorded(n) ==
    /\ pc = "arm"
    /\ Running(n)
    /\ armed' = armed \cup {n}
    /\ mem' = IF cmd # "start" /\ n \in Servers THEN mem \cup {n} ELSE mem
    /\ IF cmd = "rotateCerts" /\ n \in Servers THEN Goto("awaitApi", todo)
                                               ELSE NextToStart
    /\ UNCHANGED <<ctr, data, helper, fresh, stale, quorum, files, known>>

(* waitForIPv4 and enableIPForward; Start takes no address over.            *)
Arm(n) ==
    /\ pc = "arm"
    /\ Running(n)
    /\ armed' = armed \cup {n}
    /\ mem' = IF cmd # "start" THEN mem \cup {n} ELSE mem
    /\ IF cmd = "rotateCerts" /\ n \in Servers THEN Goto("awaitApi", todo)
                                               ELSE NextToStart
    /\ UNCHANGED <<ctr, data, helper, fresh, stale, quorum, files, known>>

AwaitApi(n) ==
    /\ pc = "awaitApi"
    /\ Running(n) /\ Reachable
    /\ NextToStart
    /\ UNCHANGED <<cluster, mem>>

-----------------------------------------------------------------------------
(* -rotate-certs: a new CA, and new certificates from it.  The members'     *)
(* directories are ranged over as a map, in any order; the client's is the  *)
(* last.  `todo` lists those that are written.                              *)
Written   == Range(todo)
ToWrite   == IF Written = Members THEN {Client} ELSE Members \ Written
NewBundle == IF todo = <<>> THEN {} ELSE fresh

WriteDir(d) ==
    /\ pc = "write"
    /\ d \in ToWrite
    /\ fresh' = NewBundle \cup {d}
    /\ stale' = stale \cup {n \in Members \cup Servers : Running(n) /\ DirOf(n) = d}
    /\ IF d = Client THEN Goto("start", StartList(cmd))
                     ELSE Goto("write", Append(todo, d))
    /\ UNCHANGED <<ctr, armed, data, helper, quorum, files, known, mem>>

-----------------------------------------------------------------------------
(* -restore: each member's container and volume are replaced.  The one-shot *)
(* container that fills a volume is removed before it is run, in case an    *)
(* earlier one was left, and after; -rotate-certs has one for each server.  *)

(* Mutant: as `container start`, `rm` takes "not found" for an error.       *)
RemovableFound(m) == ctr[m] = "stopped"

Removable(m) == ~Running(m)

RemoveMember(m) ==
    /\ pc = "removeMember"
    /\ Removable(m)
    /\ ctr' = [ctr EXCEPT ![m] = "absent"]
    /\ Goto("deleteVolume", todo)
    /\ UNCHANGED <<armed, data, helper, fresh, stale, quorum, files, known, mem>>

(* A volume is not deleted under a container that mounts it.                *)
Deletable(m) == data[m] # "absent" => m \notin helper

DeleteVolume(m) ==
    /\ pc = "deleteVolume"
    /\ Deletable(m)
    /\ data' = [data EXCEPT ![m] = "absent"]
    /\ Goto("createVolume", todo)
    /\ UNCHANGED <<ctr, armed, helper, fresh, stale, quorum, files, known, mem>>

CreateVolume(m) ==
    /\ pc = "createVolume"
    /\ data' = [data EXCEPT ![m] = "blank"]
    /\ Goto("runHelper", todo)
    /\ UNCHANGED <<ctr, armed, helper, fresh, stale, quorum, files, known, mem>>

RunHelper(n) ==
    /\ pc = "runHelper"
    /\ file # "bad"
    /\ helper' = helper \cup {n}
    /\ data' = IF cmd = "restore" THEN [data EXCEPT ![n] = file] ELSE data
    /\ Goto("removeHelper", todo)
    /\ UNCHANGED <<ctr, armed, fresh, stale, quorum, files, known, mem>>

(* The helper fails, and the command ends without removing it.              *)
BadFile(n) ==
    /\ pc = "runHelper"
    /\ file = "bad"
    /\ helper' = helper \cup {n}
    /\ End
    /\ UNCHANGED <<ctr, armed, data, fresh, stale, quorum, files, known>>

RemoveHelper(n) ==
    /\ pc = "removeHelper"
    /\ helper' = helper \ {n}
    /\ IF cmd = "rotateCerts" THEN Goto("start", todo)
       ELSE IF Len(todo) > 1 THEN Goto("removeMember", Tail(todo))
       ELSE Goto("launch", NodesWithRole(listing, "datastore"))
    /\ UNCHANGED <<ctr, armed, data, fresh, stale, quorum, files, known, mem>>

LaunchMember(m) ==
    /\ pc = "launch"
    /\ ctr[m] = "absent"
    /\ ctr' = [ctr EXCEPT ![m] = "running"]
    /\ known' = known \ {m}
    /\ mem' = mem \cup {m}
    /\ IF Len(todo) > 1 THEN Goto("launch", Tail(todo)) ELSE Goto("verify", <<>>)
    /\ UNCHANGED <<armed, data, helper, fresh, stale, quorum, files>>

(* Mutant: that the key can be asked for is taken for an answer.            *)
MarkerUnread == TRUE

MarkerFound == data[FirstMember] # "hollow"

VerifyMarker ==
    /\ pc = "verify"
    /\ Reachable /\ MarkerFound
    /\ Goto("start", StartList(cmd))
    /\ UNCHANGED <<cluster, mem>>

-----------------------------------------------------------------------------
(* -snapshot reads the first member, by itself.                             *)
CanSnapshot == Running(FirstMember) /\ Agree({FirstMember, Client})

SaveSnapshot ==
    /\ pc = "snapshot"
    /\ CanSnapshot
    /\ files' = files \cup {IF MarkerFound THEN "saved" ELSE "hollow"}
    /\ End
    /\ UNCHANGED <<ctr, armed, data, helper, fresh, stale, quorum, known>>

Finish == pc = "done" /\ End /\ UNCHANGED cluster

SaveState ==
    /\ pc = "save"
    /\ known' = mem
    /\ End
    /\ UNCHANGED <<ctr, armed, data, helper, fresh, stale, quorum, files>>

-----------------------------------------------------------------------------
Turn == IF todo = <<>> \/ pc = "write" THEN {} ELSE {Head(todo)}

(* An error that repeating the call would not help: the command ends.       *)
Refused ==
    \/ \E n \in Turn :
        \/ pc = "start" /\ ctr[n] = "absent"
        \/ pc \in {"arm", "awaitApi"} /\ ~Running(n)
        \/ pc = "removeMember" /\ ~Removable(n)
        \/ pc = "deleteVolume" /\ ~Deletable(n)
        \/ pc = "launch" /\ ctr[n] # "absent"
    \/ pc \in {"verify", "awaitApi"} /\ ~Usable
    \/ pc = "verify" /\ Reachable /\ ~MarkerFound
    \/ pc = "snapshot" /\ ~CanSnapshot

GiveUp == Refused /\ End /\ UNCHANGED cluster

(* A call fails, a wait times out or the process is killed.                 *)
Die == cmd # "none" /\ End /\ UNCHANGED cluster

(* os.WriteFile truncates state.json before it writes; a file that does not *)
(* parse ends every command from then on.                                   *)
DieInSave == pc = "save" /\ torn' = TRUE /\ End /\ UNCHANGED cluster

LoadFails == cmd = "none" /\ torn /\ UNCHANGED vars

(* It is killed, or the helper fails, with the helper left behind.          *)
LeaveHelper(n) ==
    /\ pc = "runHelper"
    /\ helper' = helper \cup {n}
    /\ End
    /\ UNCHANGED <<ctr, armed, data, fresh, stale, quorum, files, known>>

(* It is killed, or the disk is full, amid the files of a directory.        *)
TearDir(d) ==
    /\ pc = "write"
    /\ d \in ToWrite
    /\ fresh' = NewBundle \ {d}
    /\ End
    /\ UNCHANGED <<ctr, armed, data, helper, stale, quorum, files, known>>

(* A server without a datastore to talk to exits.                           *)
ServerExits(n) ==
    /\ n \in Servers /\ Running(n) /\ ~Reachable
    /\ ctr' = [ctr EXCEPT ![n] = "stopped"]
    /\ armed' = armed \ {n}
    /\ UNCHANGED <<data, helper, fresh, stale, quorum, files, known, run>>

Elect ==
    /\ ~quorum /\ CanElect
    /\ quorum' = TRUE
    /\ UNCHANGED <<ctr, armed, data, helper, fresh, stale, files, known, run>>

-----------------------------------------------------------------------------
(* A cluster as Create leaves it.                                           *)
Init ==
    /\ listing \in Listings
    /\ ctr = [n \in Nodes |-> "running"]
    /\ armed = K3s
    /\ data = [m \in Members |-> "live"]
    /\ helper = {} /\ fresh = Dirs /\ stale = {}
    /\ quorum = TRUE
    /\ files = {"hollow", "bad"}
    /\ known = Nodes /\ torn = FALSE
    /\ cmd = "none" /\ pc = "idle" /\ todo = <<>> /\ file = "none" /\ mem = {}
    /\ faults = 0

BeginAny ==
    \/ BeginStop \/ BeginStart \/ BeginRotateCerts \/ BeginSnapshot
    \/ \E f \in File : BeginRestore(f)

NodeStep(n) ==
    \/ StopNode(n) \/ StartNode(n) \/ Arm(n) \/ AwaitApi(n)
    \/ RemoveMember(n) \/ DeleteVolume(n) \/ CreateVolume(n)
    \/ RunHelper(n) \/ BadFile(n) \/ RemoveHelper(n) \/ LaunchMember(n)

Work ==
    \/ \E n \in Turn : NodeStep(n)
    \/ \E d \in Dirs : WriteDir(d)
    \/ VerifyMarker \/ SaveSnapshot \/ Finish \/ SaveState \/ GiveUp

Fault ==
    /\ faults < MaxFaults
    /\ faults' = faults + 1
    /\ \/ /\ torn' = torn
          /\ \/ Die
             \/ \E n \in Turn : LeaveHelper(n)
             \/ \E d \in Dirs : TearDir(d)
             \/ \E n \in Servers : ServerExits(n)
       \/ DieInSave

Next ==
    /\ UNCHANGED listing
    /\ \/ (BeginAny \/ Work \/ Elect) /\ UNCHANGED <<torn, faults>>
       \/ Fault
       \/ LoadFails

Spec == Init /\ [][Next]_vars

(* A command that has begun goes on, members that can elect a leader do,    *)
(* and an operator who may repair the cluster, does again and again.        *)
FairSpec ==
    /\ Spec
    /\ WF_vars(Work /\ UNCHANGED <<listing, torn, faults>>)
    /\ WF_vars(Elect /\ UNCHANGED <<listing, torn, faults>>)
    /\ SF_vars(BeginRotateCerts /\ UNCHANGED <<listing, torn, faults>>)
    /\ SF_vars(BeginRestore("saved") /\ UNCHANGED <<listing, torn, faults>>)
=============================================================================
