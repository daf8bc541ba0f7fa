-------------------------- MODULE ProvisioningProofs --------------------------
(***************************************************************************)
(* What holds of Provisioning for every number of sessions, every index    *)
(* bound and every set of clusters.                                        *)
(***************************************************************************)
EXTENDS ProvisioningProps, TLAPS

(* The nodes a call may be about are nodes of the loop it is in. *)
LEMMA TurnSubset ==
    ASSUME TypeOK, NEW s \in Session
    PROVE  Turn(s) \subseteq todo[s] \cup at[s] /\ Turn(s) \subseteq Node
  BY DEF TypeOK, Turn

(* What is selected from a set of nodes is a set of nodes. *)
LEMMA SubsetsOfPlan ==
    ASSUME NEW S \in SUBSET Node
    PROVE  /\ Members(S) \in SUBSET Node /\ BringUp(S) \in SUBSET Node
           /\ K3sNodes(S) \in SUBSET Node /\ Servers(S) \in SUBSET Node
  BY DEF Members, BringUp, K3sNodes, Servers, Agents

(* The load balancer is a node whatever MaxIndex is. *)
LEMMA TheLBIsNode == TheLB \in Node
  BY ConstantsAssumption DEF TheLB, Node, Role

(* A host with nothing of the cluster on it is well typed. *)
LEMMA InitTypeOK == Init => TypeOK
  <1> SUFFICES ASSUME Init PROVE TypeOK
    OBVIOUS
  <1>1. /\ ctr \in [Node -> {"absent", "running", "stopped"}]
        /\ vol \in [Node -> {"absent", "blank", "used"}]
    BY DEF Init
  <1>2. /\ pc \in [Session -> PC]
        /\ cmd \in [Session -> Command \cup {"none"}]
    BY DEF Init, PC
  <1>3. /\ plan \in [Session -> SUBSET Node] /\ todo \in [Session -> SUBSET Node]
        /\ at \in [Session -> SUBSET Node] /\ mem \in [Session -> SUBSET Node]
    BY DEF Init
  <1>4. mounts \in [Session -> BOOLEAN] /\ errs \in [Session -> BOOLEAN]
    BY DEF Init
  <1>5. faults \in 0..MaxFaults
    BY ConstantsAssumption DEF Init
  <1> QED
    BY <1>1, <1>2, <1>3, <1>4, <1>5 DEF Init, TypeOK

(* What a session does to its own variables keeps their types.             *)
LEMMA EndTypeOK ==
    ASSUME TypeOK, NEW s \in Session, End(s)
    PROVE  /\ cmd' \in [Session -> Command \cup {"none"}]
           /\ pc' \in [Session -> PC]
           /\ plan' \in [Session -> SUBSET Node]
           /\ todo' \in [Session -> SUBSET Node]
           /\ at' \in [Session -> SUBSET Node]
           /\ mem' \in [Session -> SUBSET Node]
           /\ mounts' \in [Session -> BOOLEAN]
           /\ errs' \in [Session -> BOOLEAN]
  BY DEF TypeOK, End, Enter, PC

(* So does entering a step. *)
LEMMA EnterTypeOK ==
    ASSUME TypeOK, NEW s \in Session, NEW p \in PC, NEW S \in SUBSET Node,
           Enter(s, p, S)
    PROVE  /\ pc' \in [Session -> PC]
           /\ todo' \in [Session -> SUBSET Node]
           /\ at' \in [Session -> SUBSET Node]
  BY DEF TypeOK, Enter

(* So does the start of a command. *)
LEMMA StartTypeOK ==
    ASSUME TypeOK, faults' = faults, NEW s \in Session,
           NEW c, NEW p \in PC, NEW work \in SUBSET Node,
           NEW P \in SUBSET Node, NEW known \in SUBSET Node,
           Start(s, c, p, work, P, known)
    PROVE  TypeOK'
  <1>1. c \in Command
    BY ConstantsAssumption DEF Start
  <1>2. mounts' \in [Session -> BOOLEAN]
    BY DEF Start, TypeOK
  <1> QED
    BY <1>1, <1>2 DEF Start, TypeOK, Enter, runtime, dir

(* The five commands start well typed: a new node has an index in bounds. *)
LEMMA BeginTypeOK ==
    ASSUME TypeOK, faults' = faults, NEW s \in Session, Begin(s)
    PROVE  TypeOK'
  <1>1. CASE StartCreate(s)
    <2>1. PICK c \in Clusters : Start(s, "create", "network", {}, c, {})
      BY <1>1 DEF StartCreate
    <2>2. c \in SUBSET Node /\ {} \in SUBSET Node
      BY ConstantsAssumption
    <2>3. "network" \in PC
      BY DEF PC
    <2> QED
      BY <2>1, <2>2, <2>3, StartTypeOK
  <1>2. CASE StartAddAgents(s)
    <2>1. PICK i \in 1..MaxIndex, count \in 1..MaxIndex :
              /\ i + count - 1 <= MaxIndex
              /\ Start(s, "addAgents", "volumes",
                       [role : {"agent"}, idx : i..(i + count - 1)],
                       [role : {"agent"}, idx : i..(i + count - 1)], recorded)
      BY <1>2 DEF StartAddAgents
    <2>2. [role : {"agent"}, idx : i..(i + count - 1)] \in SUBSET Node
      BY <2>1, ConstantsAssumption DEF Node, Role
    <2>3. recorded \in SUBSET Node
      BY DEF TypeOK
    <2> QED
      BY <2>1, <2>2, <2>3, StartTypeOK DEF PC
  <1>3. CASE StartAddServer(s)
    <2>1. PICK i \in 1..MaxIndex :
              Start(s, "addServer", "volumes", [role : {"server"}, idx : {i}],
                    [role : {"server"}, idx : {i}], recorded)
      BY <1>3 DEF StartAddServer
    <2>2. [role : {"server"}, idx : {i}] \in SUBSET Node
      BY ConstantsAssumption DEF Node, Role
    <2>3. recorded \in SUBSET Node
      BY DEF TypeOK
    <2> QED
      BY <2>1, <2>2, <2>3, StartTypeOK DEF PC
  <1>4. CASE StartRemoveNode(s)
    <2>1. PICK n \in recorded : Start(s, "removeNode", "stop", {n}, {n}, recorded)
      BY <1>4 DEF StartRemoveNode
    <2>2. {n} \in SUBSET Node /\ recorded \in SUBSET Node
      BY DEF TypeOK
    <2> QED
      BY <2>1, <2>2, StartTypeOK DEF PC
  <1>5. CASE StartDestroy(s)
    <2>1. PICK p \in {"listContainers", "stop"} :
              Start(s, "destroy", p, recorded, recorded, recorded)
      BY <1>5 DEF StartDestroy
    <2>2. p \in PC /\ recorded \in SUBSET Node
      BY DEF TypeOK, PC
    <2> QED
      BY <2>1, <2>2, StartTypeOK
  <1> QED
    BY <1>1, <1>2, <1>3, <1>4, <1>5 DEF Begin

(* Every step of Create, AddAgents and AddServer keeps the types. *)
LEMMA BringUpTypeOK ==
    ASSUME TypeOK, faults' = faults, NEW s \in Session, BringUpStep(s)
    PROVE  TypeOK'
  <1>p. plan[s] \in SUBSET Node /\ mem[s] \in SUBSET Node /\ todo[s] \in SUBSET Node
    BY DEF TypeOK
  <1>t. \A n \in Turn(s) : n \in Node
    BY TurnSubset
  <1>e. \A p \in PC : \A S \in SUBSET Node : Enter(s, p, S) =>
            /\ pc' \in [Session -> PC]
            /\ todo' \in [Session -> SUBSET Node]
            /\ at' \in [Session -> SUBSET Node]
    BY EnterTypeOK
  <1>0. {} \in SUBSET Node /\ \A n \in Node : todo[s] \ {n} \in SUBSET Node
    BY <1>p
  <1>s. /\ Members(plan[s]) \in SUBSET Node /\ BringUp(plan[s]) \in SUBSET Node
        /\ K3sNodes(plan[s]) \in SUBSET Node /\ Servers(plan[s]) \in SUBSET Node
        /\ Servers(mem[s]) \in SUBSET Node
    BY <1>p, SubsetsOfPlan
  <1>pc. /\ "etcdTLS" \in PC /\ "volumes" \in PC /\ "etcdVolumes" \in PC
         /\ "etcdLaunch" \in PC /\ "etcdReady" \in PC /\ "launch" \in PC
         /\ "arm" \in PC /\ "lbConfig" \in PC /\ "lbStop" \in PC
         /\ "lbStart" \in PC /\ "save" \in PC
    BY DEF PC
  <1>1. CASE EnsureNetwork(s)
    <2>1. net' \in BOOLEAN
      BY <1>1, ConstantsAssumption DEF EnsureNetwork, TypeOK
    <2>2. /\ pc' \in [Session -> PC] /\ todo' \in [Session -> SUBSET Node]
          /\ at' \in [Session -> SUBSET Node]
      BY <1>1, <1>e, <1>s, <1>pc, <1>0 DEF EnsureNetwork
    <2> QED
      BY <1>1, <2>1, <2>2 DEF EnsureNetwork, TypeOK, dir
  <1>2. CASE DeliverEtcdTLS(s)
    <2>2. /\ pc' \in [Session -> PC] /\ todo' \in [Session -> SUBSET Node]
          /\ at' \in [Session -> SUBSET Node]
      BY <1>2, <1>e, <1>s, <1>pc, <1>0 DEF DeliverEtcdTLS
    <2> QED
      BY <1>2, <2>2 DEF DeliverEtcdTLS, TypeOK
  <1>3. CASE CreateVolume(s)
    <2>1. PICK n \in Turn(s) :
            /\ vol' = [vol EXCEPT ![n] = "blank"]
            /\ \/ Enter(s, pc[s], todo[s] \ {n})
               \/ Enter(s, "etcdLaunch", Members(plan[s]))
               \/ Enter(s, "launch", BringUp(plan[s]))
      BY <1>3 DEF CreateVolume
    <2>2. pc[s] \in PC /\ n \in Node
      BY <1>t DEF TypeOK
    <2>3. /\ pc' \in [Session -> PC] /\ todo' \in [Session -> SUBSET Node]
          /\ at' \in [Session -> SUBSET Node]
      BY <2>1, <2>2, <1>e, <1>s, <1>pc, <1>0
    <2>4. vol' \in [Node -> {"absent", "blank", "used"}]
      BY <2>1, <2>2 DEF TypeOK
    <2> QED
      BY <1>3, <2>3, <2>4 DEF CreateVolume, TypeOK, dir
  <1>4. CASE LaunchMember(s)
    <2>1. PICK n \in Turn(s) :
            /\ ctr' = [ctr EXCEPT ![n] = "running"]
            /\ vol' = [vol EXCEPT ![n] = "used"]
            /\ trusting' = trusting \cup {n}
            /\ mem' = [mem EXCEPT ![s] = @ \cup {n}]
            /\ \/ Enter(s, "etcdReady", {})
               \/ Enter(s, "etcdLaunch", todo[s] \ {n})
      BY <1>4 DEF LaunchMember
    <2>2. n \in Node
      BY <1>t
    <2>3. /\ pc' \in [Session -> PC] /\ todo' \in [Session -> SUBSET Node]
          /\ at' \in [Session -> SUBSET Node]
      BY <2>1, <2>2, <1>e, <1>pc, <1>0
    <2>4. /\ ctr' \in [Node -> {"absent", "running", "stopped"}]
          /\ vol' \in [Node -> {"absent", "blank", "used"}]
          /\ trusting' \subseteq Node
          /\ mem' \in [Session -> SUBSET Node]
      BY <2>1, <2>2 DEF TypeOK
    <2> QED
      BY <1>4, <2>3, <2>4 DEF LaunchMember, TypeOK, dir
  <1>5. CASE EtcdReady(s)
    <2>2. /\ pc' \in [Session -> PC] /\ todo' \in [Session -> SUBSET Node]
          /\ at' \in [Session -> SUBSET Node]
      BY <1>5, <1>e, <1>s, <1>pc DEF EtcdReady
    <2> QED
      BY <1>5, <2>2 DEF EtcdReady, TypeOK, runtime, dir
  <1>6. CASE LaunchNode(s)
    <2>1. PICK n \in Turn(s) :
            /\ ctr' = [ctr EXCEPT ![n] = "running"]
            /\ vol' = IF HasVolume(n) THEN [vol EXCEPT ![n] = "used"] ELSE vol
            /\ trusting' \in {trusting, trusting \cup {n}}
            /\ lbDisk' \in {lbDisk, Servers(plan[s])}
            /\ lbLive' \in {lbLive, Servers(plan[s])}
      BY <1>6 DEF LaunchNode
    <2>2. n \in Node
      BY <1>t
    <2>3. /\ pc' \in [Session -> PC] /\ todo' \in [Session -> SUBSET Node]
          /\ at' \in [Session -> SUBSET Node]
      BY <1>6, <1>e, <1>p, <1>pc DEF LaunchNode
    <2>4. /\ ctr' \in [Node -> {"absent", "running", "stopped"}]
          /\ vol' \in [Node -> {"absent", "blank", "used"}]
          /\ trusting' \subseteq Node /\ lbDisk' \subseteq Node /\ lbLive' \subseteq Node
      BY <2>1, <2>2, <1>s DEF TypeOK
    <2> QED
      BY <1>6, <2>3, <2>4 DEF LaunchNode, TypeOK
  <1>7. CASE ArmNode(s)
    <2>1. PICK n \in Turn(s) :
            /\ armed' \in {armed, armed \cup {n}}
            /\ kubeconfig' = (kubeconfig \/ (cmd[s] = "create" /\ n = Bootstrap))
            /\ mem' = [mem EXCEPT ![s] = @ \cup {n}]
            /\ \/ Enter(s, "launch", todo[s] \ {n})
               \/ Enter(s, "lbConfig", {})
               \/ Enter(s, "save", {})
      BY <1>7 DEF ArmNode
    <2>2. n \in Node
      BY <1>t
    <2>3. /\ pc' \in [Session -> PC] /\ todo' \in [Session -> SUBSET Node]
          /\ at' \in [Session -> SUBSET Node]
      BY <2>1, <2>2, <1>e, <1>pc, <1>0
    <2>4. armed' \subseteq Node /\ mem' \in [Session -> SUBSET Node]
      BY <2>1, <2>2 DEF TypeOK
    <2>5. kubeconfig' \in BOOLEAN
      BY <2>1
    <2> QED
      BY <1>7, <2>3, <2>4, <2>5 DEF ArmNode, TypeOK
  <1>8. CASE ConfigureLB(s)
    <2>2. /\ pc' \in [Session -> PC] /\ todo' \in [Session -> SUBSET Node]
          /\ at' \in [Session -> SUBSET Node]
      BY <1>8, <1>e, <1>0, <1>pc DEF ConfigureLB
    <2> QED
      BY <1>8, <2>2, <1>s DEF ConfigureLB, TypeOK, runtime
  <1>9. CASE StopLB(s)
    <2>2. /\ pc' \in [Session -> PC] /\ todo' \in [Session -> SUBSET Node]
          /\ at' \in [Session -> SUBSET Node]
      BY <1>9, <1>e, <1>0, <1>pc DEF StopLB
    <2>3. ctr' \in [Node -> {"absent", "running", "stopped"}]
      BY <1>9, TheLBIsNode DEF StopLB, TypeOK
    <2> QED
      BY <1>9, <2>2, <2>3 DEF StopLB, TypeOK, dir
  <1>10. CASE StartLB(s)
    <2>2. /\ pc' \in [Session -> PC] /\ todo' \in [Session -> SUBSET Node]
          /\ at' \in [Session -> SUBSET Node]
      BY <1>10, <1>e, <1>0, <1>pc DEF StartLB
    <2>3. ctr' \in [Node -> {"absent", "running", "stopped"}]
      BY <1>10, TheLBIsNode DEF StartLB, TypeOK
    <2> QED
      BY <1>10, <2>2, <2>3 DEF StartLB, TypeOK, dir
  <1>11. CASE SaveState(s)
    <2>1. recorded' \subseteq Node
      BY <1>11, <1>p DEF SaveState
    <2> QED
      BY <1>11, <2>1, EndTypeOK DEF SaveState, TypeOK, runtime
  <1> QED
    BY <1>1, <1>2, <1>3, <1>4, <1>5, <1>6, <1>7, <1>8, <1>9, <1>10, <1>11
       DEF BringUpStep

(* One call about one node of a teardown loop. *)
LEMMA AfterCallTypeOK ==
    ASSUME TypeOK, NEW s \in Session, NEW n \in Turn(s), AfterCall(s, n)
    PROVE  /\ pc' \in [Session -> PC]
           /\ todo' \in [Session -> SUBSET Node]
           /\ at' \in [Session -> SUBSET Node]
  <1>1. n \in Node /\ todo[s] \ {n} \in SUBSET Node /\ {} \in SUBSET Node
    BY TurnSubset DEF TypeOK
  <1>2. \A p \in PC : Stay(s, p, n) =>
            /\ pc' \in [Session -> PC]
            /\ todo' \in [Session -> SUBSET Node]
            /\ at' \in [Session -> SUBSET Node]
    BY <1>1 DEF Stay, TypeOK
  <1>3. \A head, tail \in PC : NextInLoop(s, n, head, tail) =>
            /\ pc' \in [Session -> PC]
            /\ todo' \in [Session -> SUBSET Node]
            /\ at' \in [Session -> SUBSET Node]
    BY <1>1, EnterTypeOK DEF NextInLoop
  <1>4. /\ "remove" \in PC /\ "volume" \in PC /\ "sweepRemove" \in PC
        /\ "sweepStop" \in PC /\ "sweepVolume" \in PC /\ "listVolumes" \in PC
        /\ "deleteNetwork" \in PC /\ "stop" \in PC /\ "save" \in PC
        /\ "listContainers" \in PC
    BY DEF PC
  <1> QED
    BY <1>2, <1>3, <1>4 DEF AfterCall, NodeDone

(* Every step of RemoveNode and Destroy keeps the types. *)
LEMMA TeardownTypeOK ==
    ASSUME TypeOK, faults' = faults, NEW s \in Session, TeardownStep(s)
    PROVE  TypeOK'
  <1>t. \A n \in Turn(s) : n \in Node
    BY TurnSubset
  <1>e. \A p \in PC : \A S \in SUBSET Node : Enter(s, p, S) =>
            /\ pc' \in [Session -> PC]
            /\ todo' \in [Session -> SUBSET Node]
            /\ at' \in [Session -> SUBSET Node]
    BY EnterTypeOK
  <1>1. CASE StopNode(s)
    <2>1. PICK n \in Turn(s) :
            /\ ctr' \in {ctr, [ctr EXCEPT ![n] = "stopped"]}
            /\ AfterCall(s, n)
      BY <1>1 DEF StopNode
    <2>2. ctr' \in [Node -> {"absent", "running", "stopped"}]
      BY <2>1, <1>t DEF TypeOK
    <2> QED
      BY <1>1, <2>1, <2>2, AfterCallTypeOK DEF StopNode, TypeOK, dir
  <1>2. CASE RemoveContainer(s)
    <2>1. PICK n \in Turn(s) :
            /\ ctr' = [ctr EXCEPT ![n] = "absent"]
            /\ armed' = armed \ {n}
            /\ trusting' = trusting \ {n}
            /\ lbLive' \in {{}, lbLive}
            /\ AfterCall(s, n)
      BY <1>2 DEF RemoveContainer
    <2>2. /\ ctr' \in [Node -> {"absent", "running", "stopped"}]
          /\ armed' \subseteq Node /\ trusting' \subseteq Node /\ lbLive' \subseteq Node
      BY <2>1, <1>t DEF TypeOK
    <2> QED
      BY <1>2, <2>1, <2>2, AfterCallTypeOK DEF RemoveContainer, TypeOK, dir
  <1>3. CASE DeleteVolume(s)
    <2>1. PICK n \in Turn(s) :
            vol' = [vol EXCEPT ![n] = "absent"] /\ AfterCall(s, n)
      BY <1>3 DEF DeleteVolume
    <2>2. vol' \in [Node -> {"absent", "blank", "used"}]
      BY <2>1, <1>t DEF TypeOK
    <2> QED
      BY <1>3, <2>1, <2>2, AfterCallTypeOK DEF DeleteVolume, TypeOK, dir
  <1>4. CASE ListContainers(s)
    <2>1. PICK p \in {"listVolumes", "sweepStop"}, S \in SUBSET Node : Enter(s, p, S)
      BY <1>4 DEF ListContainers
    <2> QED
      BY <1>4, <2>1, <1>e DEF ListContainers, TypeOK, runtime, dir, PC
  <1>5. CASE ListVolumes(s)
    <2>1. PICK p \in {"deleteNetwork", "sweepVolume"}, S \in SUBSET Node : Enter(s, p, S)
      BY <1>5 DEF ListVolumes
    <2> QED
      BY <1>5, <2>1, <1>e DEF ListVolumes, TypeOK, runtime, dir, PC
  <1>6. CASE DeleteNetwork(s)
    <2>1. net' \in BOOLEAN
      BY <1>6 DEF DeleteNetwork
    <2>2. "removeDir" \in PC /\ {} \in SUBSET Node
      BY DEF PC
    <2> QED
      BY <1>6, <2>1, <2>2, <1>e DEF DeleteNetwork, TypeOK, dir
  <1>7. CASE RemoveDir(s)
    BY <1>7, EndTypeOK DEF RemoveDir, TypeOK, runtime
  <1> QED
    BY <1>1, <1>2, <1>3, <1>4, <1>5, <1>6, <1>7 DEF TeardownStep

(* A run that gives up or dies keeps the types. *)
LEMMA GiveUpTypeOK ==
    ASSUME TypeOK, faults' \in 0..MaxFaults, NEW s \in Session,
           End(s), lbDisk' \in {lbDisk, ConfigLeft(s)},
           UNCHANGED <<runtime, disk, recorded, kubeconfig, tlsDir>>
    PROVE  TypeOK'
  <1>1. ConfigLeft(s) \in SUBSET Node
    BY DEF ConfigLeft, Servers, TypeOK
  <1> QED
    BY <1>1, EndTypeOK DEF TypeOK, runtime

(* So does a Destroy that collects an error and goes on. *)
LEMMA CollectTypeOK ==
    ASSUME TypeOK, faults' \in 0..MaxFaults, NEW s \in Session,
           CollectOfList(s) \/ \E n \in Turn(s) : CollectOf(s, n)
    PROVE  TypeOK'
  <1>1. errs' \in [Session -> BOOLEAN] /\ Collect(s)
    BY DEF CollectOfList, CollectOf, Collect, TypeOK
  <1>2. /\ pc' \in [Session -> PC]
        /\ todo' \in [Session -> SUBSET Node]
        /\ at' \in [Session -> SUBSET Node]
    <2>1. CASE CollectOfList(s)
      <3>1. PICK p \in {"listVolumes", "deleteNetwork", "removeDir"} : Enter(s, p, {})
        BY <2>1 DEF CollectOfList
      <3>2. p \in PC /\ {} \in SUBSET Node
        BY DEF PC
      <3> QED
        BY <3>1, <3>2, EnterTypeOK
    <2>2. ASSUME NEW n \in Turn(s), CollectOf(s, n)
          PROVE  /\ pc' \in [Session -> PC]
                 /\ todo' \in [Session -> SUBSET Node]
                 /\ at' \in [Session -> SUBSET Node]
      BY <2>2, AfterCallTypeOK DEF CollectOf
    <2> QED
      BY <2>1, <2>2
  <1> QED
    BY <1>1, <1>2 DEF Collect, TypeOK, runtime, dir

(* Every step keeps the types. *)
LEMMA NextTypeOK == TypeOK /\ [Next]_vars => TypeOK'
  <1> SUFFICES ASSUME TypeOK, [Next]_vars PROVE TypeOK'
    OBVIOUS
  <1>1. CASE UNCHANGED vars
    BY <1>1 DEF vars, runtime, dir, TypeOK
  <1>2. ASSUME NEW s \in Session, Begin(s) \/ Work(s), faults' = faults
        PROVE  TypeOK'
    <2>1. faults' \in 0..MaxFaults
      BY <1>2 DEF TypeOK
    <2>2. CASE RefusedCall(s)
      BY <2>1, <2>2, GiveUpTypeOK, CollectTypeOK DEF RefusedCall, GiveUp
    <2> QED
      BY <1>2, <2>2, BeginTypeOK, BringUpTypeOK, TeardownTypeOK DEF Work
  <1>3. ASSUME NEW s \in Session, Fault(s)
        PROVE  TypeOK'
    <2>1. faults' \in 0..MaxFaults
      BY <1>3, ConstantsAssumption DEF Fault, TypeOK
    <2>2. CASE Die(s)
      BY <2>1, <2>2, GiveUpTypeOK DEF Die
    <2>3. CASE DieInSave(s)
      BY <2>1, <2>3, EndTypeOK DEF DieInSave, TypeOK, runtime
    <2> QED
      BY <1>3, <2>1, <2>2, <2>3, CollectTypeOK DEF Fault
  <1> QED
    BY <1>1, <1>2, <1>3 DEF Next

(* Every variable keeps its type, through every step, refusal and death of  *)
(* the five membership commands.                                            *)
THEOREM TypeCorrect == Spec => []TypeOK
  BY InitTypeOK, NextTypeOK, PTL DEF Spec
=============================================================================
