----------------------------- MODULE MatchProofs -----------------------------
(***************************************************************************)
(* Of commands that run one at a time: as long as no call fails by itself  *)
(* and none is rejected late, each step keeps the record and the host to   *)
(* what the command at work has done.                                      *)
(***************************************************************************)
EXTENDS RecordProofs

(* What each step of a bring-up is done with and has claimed.               *)
StepSets(s) ==
    /\ pc[s] \in {"idle", "network", "etcdTLS", "etcdVolumes"} => Done(s) = {}
    /\ pc[s] \in {"idle", "network", "etcdTLS"} => Claimed(s) = {}
    /\ pc[s] = "etcdVolumes" => Claimed(s) = Members(plan[s]) \ todo[s]
    /\ pc[s] \in {"etcdLaunch", "etcdReady"} => Claimed(s) = Members(plan[s])
    /\ pc[s] = "etcdLaunch" => Done(s) = Members(plan[s]) \ todo[s]
    /\ pc[s] \in {"etcdReady", "volumes"} => Done(s) = Members(plan[s])
    /\ pc[s] = "volumes" => Claimed(s) = {n \in plan[s] \ todo[s] : HasVolume(n)}
    /\ pc[s] \in {"launch", "arm"} => Done(s) = plan[s] \ todo[s]
    /\ pc[s] \in {"lbConfig", "lbStop", "lbStart", "save"} => Done(s) = plan[s]
    /\ pc[s] \in {"launch", "arm", "lbConfig", "lbStop", "lbStart", "save"} =>
         Claimed(s) = {n \in plan[s] : HasVolume(n)}
    /\ pc[s] # "arm" => Launching(s) = {}
    /\ pc[s] = "arm" => Launching(s) = Turn(s)

(* It is so before and after every step.                                    *)
LEMMA ByStep == \A s \in Session : StepSets(s) /\ StepSets(s)'
<1>1. ASSUME NEW s \in Session PROVE StepSets(s)
  <2>1. CASE pc[s] \in {"idle", "network", "etcdTLS"}
    BY <2>1 DEF StepSets, Done, Claimed, Launching
  <2>2. CASE pc[s] = "etcdVolumes"
    BY <2>2 DEF StepSets, Done, Claimed, Launching
  <2>3. CASE pc[s] = "etcdLaunch"
    BY <2>3 DEF StepSets, Done, Claimed, Launching
  <2>4. CASE pc[s] = "etcdReady"
    BY <2>4 DEF StepSets, Done, Claimed, Launching
  <2>5. CASE pc[s] = "volumes"
    BY <2>5 DEF StepSets, Done, Claimed, Launching
  <2>6. CASE pc[s] = "launch"
    BY <2>6 DEF StepSets, Done, Claimed, Launching
  <2>7. CASE pc[s] = "arm"
    BY <2>7 DEF StepSets, Done, Claimed, Launching
  <2>8. CASE pc[s] \in {"lbConfig", "lbStop", "lbStart", "save"}
    BY <2>8 DEF StepSets, Done, Claimed, Launching
  <2>9. CASE pc[s] \notin {"idle", "network", "etcdTLS", "etcdVolumes", "etcdLaunch",
                         "etcdReady", "volumes", "launch", "arm", "lbConfig", "lbStop",
                         "lbStart", "save"}
    BY <2>9 DEF StepSets, Launching
  <2> QED
    BY <2>1, <2>2, <2>3, <2>4, <2>5, <2>6, <2>7, <2>8, <2>9 DEF StepSets
<1>2. ASSUME NEW s \in Session PROVE StepSets(s)'
  BY <1>1, PTL
<1> QED
  BY <1>1, <1>2

(* What the roles tell apart.                                               *)
LEMMA Roles ==
    ASSUME NEW S \in SUBSET Node
    PROVE  /\ S \ BringUp(S) = Members(S) /\ Members(S) \subseteq S
           /\ K3sNodes(S) \subseteq S
           /\ {n \in S \ K3sNodes(S) : HasVolume(n)} = Members(S)
           /\ \A n \in Members(S) \cup K3sNodes(S) : HasVolume(n)
           /\ Members(S) \cap K3sNodes(S) = {}
           /\ ~HasVolume(TheLB)
  BY DEF BringUp, Members, K3sNodes, Servers, Agents, HasVolume, Node, Role, TheLB

-----------------------------------------------------------------------------
(* Commands that add nodes *)

(* A step that changes the container and the volume of one node at most.    *)
LEMMA GrowsWith ==
    ASSUME TypeOK, NEW s \in Session, Grows(s), cmd' = cmd, plan' = plan,
           recorded' = recorded, mem'[s] = Base(s) \cup Done(s)',
           pc'[s] \in LBPC => cmd[s] = "addServer",
           NEW n \in Node, pc[s] = "lbStart" => n = TheLB,
           \A m \in Node \ {n} :
              /\ ctr'[m] = ctr[m] /\ vol'[m] = vol[m]
              /\ m \in Up(s)' <=> m \in Up(s)
              /\ m \in Claimed(s)' <=> m \in Claimed(s),
           Up(s)' \subseteq Node,
           n \in Up(s)' =>
              \/ Stands(n)'
              \/ n = TheLB /\ pc'[s] = "lbStart" /\ ctr'[n] = "stopped" /\ vol'[n] = "absent",
           n \notin Up(s)' => ctr'[n] = "absent" /\ (vol'[n] # "absent" <=> n \in Claimed(s)')
    PROVE  Grows(s)'
<1>1. Base(s)' = Base(s)
  BY DEF Base
<1>2. /\ recorded = Base(s) /\ plan[s] \cap Base(s) = {}
      /\ cmd[s] # "create" => \A m \in plan[s] : m.role \in {"server", "agent"}
  BY DEF Grows
<1>3. ASSUME NEW m \in Up(s)'
      PROVE  \/ Stands(m)'
             \/ m = TheLB /\ pc'[s] = "lbStart" /\ ctr'[m] = "stopped" /\ vol'[m] = "absent"
  <2>1. ASSUME m # n PROVE Stands(m)'
    <3>1. Stands(m)
      BY <1>3, <2>1 DEF Grows
    <3> QED
      BY <1>3, <2>1, <3>1 DEF Stands
  <2> QED
    BY <1>3, <2>1
<1>4. ASSUME NEW m \in Node \ Up(s)'
      PROVE  ctr'[m] = "absent" /\ (vol'[m] # "absent" <=> m \in Claimed(s)')
  <2>1. CASE m # n
    <3>1. ctr[m] = "absent" /\ (vol[m] # "absent" <=> m \in Claimed(s))
      BY <1>4, <2>1 DEF Grows
    <3> QED
      BY <1>4, <2>1, <3>1
  <2> QED
    BY <1>4, <2>1
<1> QED
  BY <1>1, <1>2, <1>3, <1>4 DEF Grows

(* A step that changes no container and no volume.                          *)
LEMMA GrowsQuiet ==
    ASSUME TypeOK, NEW s \in Session, Grows(s), cmd' = cmd, plan' = plan,
           recorded' = recorded, mem'[s] = Base(s) \cup Done(s)',
           pc'[s] \in LBPC => cmd[s] = "addServer", pc[s] # "lbStart",
           UNCHANGED <<ctr, vol>>, Up(s)' = Up(s), Claimed(s)' = Claimed(s)
    PROVE  Grows(s)'
<1>1. Base(s)' = Base(s)
  BY DEF Base
<1>2. /\ recorded = Base(s) /\ plan[s] \cap Base(s) = {}
      /\ cmd[s] # "create" => \A m \in plan[s] : m.role \in {"server", "agent"}
  BY DEF Grows
<1>3. ASSUME NEW m \in Up(s)' PROVE Stands(m)'
  BY <1>3 DEF Grows, Stands
<1>4. ASSUME NEW m \in Node \ Up(s)'
      PROVE  ctr'[m] = "absent" /\ (vol'[m] # "absent" <=> m \in Claimed(s)')
  BY <1>4 DEF Grows
<1> QED
  BY <1>1, <1>2, <1>3, <1>4 DEF Grows

(* Up holds nodes only.                                                     *)
LEMMA UpNodes ==
    ASSUME TypeOK, NEW s \in Session, pc[s] \in AddingPC
    PROVE  Up(s) \subseteq Node
<1>1. Base(s) \subseteq Node
  BY DEF TypeOK, Base
<1>2. Launching(s) \subseteq Node
  BY TurnSubset DEF Launching
<1>3. Done(s) \subseteq Node
  <2>1. plan[s] \in SUBSET Node
    BY DEF TypeOK
  <2>2. Members(plan[s]) \subseteq Node
    BY <2>1, Roles
  <2> QED
    BY <2>1, <2>2, ByStep DEF StepSets, AddingPC
<1> QED
  BY <1>1, <1>2, <1>3 DEF Up

(* The network, the bundle and the waits for etcd and for readiness, and    *)
(* the writing of haproxy.cfg.                                              *)
LEMMA GrowsWaits ==
    ASSUME TypeOK, AddsInv, NEW s \in Session, cmd[s] \in Adding, Grows(s),
           EnsureNetwork(s) \/ DeliverEtcdTLS(s) \/ EtcdReady(s) \/ ConfigureLB(s)
    PROVE  Grows(s)'
<1>1. plan[s] \in SUBSET Node
  BY DEF TypeOK
<1>2. /\ cmd' = cmd /\ plan' = plan /\ recorded' = recorded /\ mem' = mem
      /\ UNCHANGED <<ctr, vol>>
  BY DEF EnsureNetwork, DeliverEtcdTLS, EtcdReady, ConfigureLB, dir, runtime
<1>3. mem[s] = Base(s) \cup Done(s)
  BY DEF Grows
<1>4. StepSets(s) /\ StepSets(s)'
  BY ByStep
<1>5. Base(s)' = Base(s)
  BY <1>2 DEF Base
<1>6. /\ Done(s)' = Done(s) /\ Claimed(s)' = Claimed(s) /\ Launching(s)' = Launching(s)
      /\ pc'[s] \in LBPC => cmd[s] = "addServer"
      /\ pc[s] # "lbStart"
  <2>1. CASE EnsureNetwork(s)
    <3>1. pc[s] = "network"
      BY <2>1 DEF EnsureNetwork
    <3>2. \/ pc'[s] = "etcdTLS"
          \/ /\ pc'[s] = "volumes" /\ todo'[s] = K3sNodes(plan[s])
             /\ Members(plan[s]) = {}
      BY <2>1, EnterFrame DEF EnsureNetwork
    <3> QED
      BY <1>1, <1>2, <1>4, <3>1, <3>2, Roles DEF StepSets, LBPC
  <2>2. CASE DeliverEtcdTLS(s)
    <3>1. pc[s] = "etcdTLS" /\ pc'[s] = "etcdVolumes" /\ todo'[s] = Members(plan[s])
      BY <2>2, EnterFrame DEF DeliverEtcdTLS
    <3> QED
      BY <1>2, <1>4, <3>1 DEF StepSets, LBPC
  <2>3. CASE EtcdReady(s)
    <3>1. pc[s] = "etcdReady" /\ pc'[s] = "volumes" /\ todo'[s] = K3sNodes(plan[s])
      BY <2>3, EnterFrame DEF EtcdReady
    <3> QED
      BY <1>1, <1>2, <1>4, <3>1, Roles DEF StepSets, LBPC
  <2>4. CASE ConfigureLB(s)
    <3>1. pc[s] = "lbConfig" /\ pc'[s] = "lbStop"
      BY <2>4, EnterFrame DEF ConfigureLB
    <3>2. cmd[s] = "addServer"
      BY <3>1 DEF Grows, LBPC
    <3> QED
      BY <1>2, <1>4, <3>1, <3>2 DEF StepSets
  <2> QED
    BY <2>1, <2>2, <2>3, <2>4
<1> QED
  BY <1>2, <1>3, <1>5, <1>6, GrowsQuiet DEF Up

(* A volume is created and claimed.                                         *)
LEMMA GrowsVolume ==
    ASSUME TypeOK, AddsInv, NEW s \in Session, cmd[s] \in Adding, Grows(s), CreateVolume(s)
    PROVE  Grows(s)'
<1>1. plan[s] \in SUBSET Node /\ pc[s] \in {"etcdVolumes", "volumes"}
  BY DEF TypeOK, CreateVolume
<1>2. PICK n \in Turn(s) :
        /\ vol[n] = "absent"
        /\ vol' = [vol EXCEPT ![n] = "blank"]
        /\ \/ todo[s] # {n} /\ Enter(s, pc[s], todo[s] \ {n})
           \/ /\ todo[s] = {n} /\ pc[s] = "etcdVolumes"
              /\ Enter(s, "etcdLaunch", Members(plan[s]))
           \/ /\ todo[s] = {n} /\ pc[s] = "volumes"
              /\ Enter(s, "launch", BringUp(plan[s]))
  BY DEF CreateVolume
<1>3. n \in todo[s] /\ n \in Node
  BY <1>1, <1>2, BringUpTurn
<1>4. /\ cmd' = cmd /\ plan' = plan /\ recorded' = recorded /\ mem' = mem /\ ctr' = ctr
  BY DEF CreateVolume, dir
<1>5. mem[s] = Base(s) \cup Done(s)
  BY DEF Grows
<1>6. StepSets(s) /\ StepSets(s)'
  BY ByStep
<1>7. Base(s)' = Base(s)
  BY <1>4 DEF Base
<1>8. /\ pc[s] = "etcdVolumes" => n \in Members(plan[s])
      /\ pc[s] = "volumes" => n \in K3sNodes(plan[s])
  BY <1>3 DEF AddsInv, SessionInv, InPlan
<1>9. HasVolume(n) /\ n \in plan[s]
  BY <1>1, <1>8, Roles
<1>10. /\ Done(s)' = Done(s) /\ Claimed(s)' = Claimed(s) \cup {n}
       /\ Launching(s)' = {} /\ Launching(s) = {}
       /\ pc'[s] \notin LBPC /\ pc'[s] \in AddingPC
  <2>1. CASE todo[s] # {n} /\ Enter(s, pc[s], todo[s] \ {n})
    <3>1. pc'[s] = pc[s] /\ todo'[s] = todo[s] \ {n}
      BY <2>1, EnterFrame
    <3>2. /\ Launching(s)' = {} /\ Launching(s) = {} /\ Done(s)' = Done(s)
          /\ pc'[s] \notin LBPC /\ pc'[s] \in AddingPC
      BY <1>1, <1>4, <1>6, <3>1 DEF StepSets, LBPC, AddingPC
    <3>3. CASE pc[s] = "etcdVolumes"
      <4>1. /\ Claimed(s) = Members(plan[s]) \ todo[s]
            /\ Claimed(s)' = Members(plan[s]) \ (todo[s] \ {n})
        BY <1>4, <1>6, <3>1, <3>3 DEF StepSets
      <4>2. Claimed(s)' = Claimed(s) \cup {n}
        BY <1>8, <3>3, <4>1
      <4> QED
        BY <3>2, <4>2
    <3>4. CASE pc[s] = "volumes"
      <4>1. /\ Claimed(s) = {m \in plan[s] \ todo[s] : HasVolume(m)}
            /\ Claimed(s)' = {m \in plan[s] \ (todo[s] \ {n}) : HasVolume(m)}
        BY <1>4, <1>6, <3>1, <3>4 DEF StepSets
      <4>2. Claimed(s)' = Claimed(s) \cup {n}
        BY <1>9, <4>1
      <4> QED
        BY <3>2, <4>2
    <3> QED
      BY <1>1, <3>3, <3>4
  <2>2. CASE /\ todo[s] = {n} /\ pc[s] = "etcdVolumes"
             /\ Enter(s, "etcdLaunch", Members(plan[s]))
    <3>1. pc'[s] = "etcdLaunch" /\ todo'[s] = Members(plan[s])
      BY <2>2, EnterFrame
    <3> QED
      BY <1>4, <1>6, <1>8, <2>2, <3>1 DEF StepSets, LBPC, AddingPC
  <2>3. CASE /\ todo[s] = {n} /\ pc[s] = "volumes"
             /\ Enter(s, "launch", BringUp(plan[s]))
    <3>1. pc'[s] = "launch" /\ todo'[s] = BringUp(plan[s])
      BY <2>3, EnterFrame
    <3>2. Done(s)' = plan[s] \ BringUp(plan[s]) /\ Done(s) = Members(plan[s])
      BY <1>4, <1>6, <2>3, <3>1 DEF StepSets
    <3>3. Done(s)' = Done(s)
      BY <1>1, <3>2, Roles
    <3> QED
      BY <1>4, <1>6, <1>9, <2>3, <3>1, <3>3 DEF StepSets, LBPC, AddingPC
  <2> QED
    BY <1>2, <2>1, <2>2, <2>3
<1>11. Up(s)' = Up(s)
  BY <1>7, <1>10 DEF Up
<1>12. n \notin Up(s)
  <2>1. n \notin Up(s) \/ Stands(n)
    BY <1>1 DEF Grows
  <2> QED
    BY <1>2, <1>9, <2>1 DEF Stands
<1>13. ctr'[n] = "absent" /\ vol'[n] = "blank"
  BY <1>2, <1>3, <1>4, <1>12 DEF Grows, TypeOK
<1>14. \A m \in Node \ {n} : vol'[m] = vol[m]
  BY <1>2 DEF TypeOK
<1>15. Up(s) \subseteq Node
  BY <1>1, UpNodes DEF AddingPC
<1> QED
  BY <1>1, <1>3, <1>4, <1>5, <1>10, <1>11, <1>12, <1>13, <1>14, <1>15, GrowsWith

(* An etcd member is launched.                                              *)
LEMMA GrowsMember ==
    ASSUME TypeOK, AddsInv, NEW s \in Session, cmd[s] \in Adding, Grows(s), LaunchMember(s)
    PROVE  Grows(s)'
<1>1. plan[s] \in SUBSET Node /\ pc[s] = "etcdLaunch"
  BY DEF TypeOK, LaunchMember
<1>2. PICK n \in Turn(s) :
        /\ ctr' = [ctr EXCEPT ![n] = "running"]
        /\ vol' = [vol EXCEPT ![n] = "used"]
        /\ mem' = [mem EXCEPT ![s] = @ \cup {n}]
        /\ IF todo[s] = {n} THEN Enter(s, "etcdReady", {})
                           ELSE Enter(s, "etcdLaunch", todo[s] \ {n})
  BY DEF LaunchMember
<1>3. n \in todo[s] /\ n \in Node /\ n \in Members(plan[s])
  BY <1>1, <1>2, BringUpTurn DEF AddsInv, SessionInv, InPlan
<1>4. /\ cmd' = cmd /\ plan' = plan /\ recorded' = recorded
      /\ mem'[s] = mem[s] \cup {n}
  BY <1>2 DEF LaunchMember, dir, TypeOK
<1>5. mem[s] = Base(s) \cup Done(s)
  BY DEF Grows
<1>6. StepSets(s) /\ StepSets(s)'
  BY ByStep
<1>7. Base(s)' = Base(s)
  BY <1>4 DEF Base
<1>8. HasVolume(n)
  BY <1>1, <1>3, Roles
<1>9. /\ Done(s)' = Done(s) \cup {n} /\ Claimed(s)' = Claimed(s)
      /\ Launching(s)' = {} /\ Launching(s) = {}
      /\ pc'[s] \notin LBPC /\ pc'[s] \in AddingPC
  <2>1. CASE todo[s] = {n}
    <3>1. pc'[s] = "etcdReady"
      BY <1>2, <2>1, EnterFrame
    <3> QED
      BY <1>1, <1>3, <1>4, <1>6, <2>1, <3>1 DEF StepSets, LBPC, AddingPC
  <2>2. CASE todo[s] # {n}
    <3>1. pc'[s] = "etcdLaunch" /\ todo'[s] = todo[s] \ {n}
      BY <1>2, <2>2, EnterFrame
    <3> QED
      BY <1>1, <1>3, <1>4, <1>6, <3>1 DEF StepSets, LBPC, AddingPC
  <2> QED
    BY <2>1, <2>2
<1>10. Up(s)' = Up(s) \cup {n}
  BY <1>7, <1>9 DEF Up
<1>11. Stands(n)'
  BY <1>2, <1>3, <1>8 DEF Stands, TypeOK
<1>12. \A m \in Node \ {n} : ctr'[m] = ctr[m] /\ vol'[m] = vol[m]
  BY <1>2 DEF TypeOK
<1>13. Up(s) \subseteq Node
  BY <1>1, UpNodes DEF AddingPC
<1>14. mem'[s] = Base(s) \cup Done(s)'
  BY <1>4, <1>5, <1>9
<1> QED
  BY <1>1, <1>3, <1>4, <1>9, <1>10, <1>11, <1>12, <1>13, <1>14, GrowsWith

(* A node that a run is to launch is not up yet.                            *)
LEMMA LaunchesNew ==
    ASSUME TypeOK, AddsInv, NEW s \in Session, cmd[s] \in Adding, Grows(s),
           pc[s] \in {"etcdVolumes", "etcdLaunch", "volumes", "launch"},
           NEW n \in todo[s]
    PROVE  /\ n \in plan[s] /\ n \in Node /\ n \notin Up(s)
           /\ ctr[n] = "absent" /\ (vol[n] # "absent" <=> n \in Claimed(s))
<1>1. plan[s] \in SUBSET Node
  BY DEF TypeOK
<1>2. StepSets(s)
  BY ByStep
<1>3. /\ pc[s] \in {"etcdVolumes", "etcdLaunch"} => n \in Members(plan[s])
      /\ pc[s] = "volumes" => n \in K3sNodes(plan[s])
      /\ pc[s] = "launch" => n \in BringUp(plan[s])
  BY DEF AddsInv, SessionInv, InPlan
<1>4. n \in plan[s]
  BY <1>1, <1>3, Roles DEF BringUp
<1>5. n \notin Done(s) /\ Launching(s) = {}
  BY <1>1, <1>2, <1>3, Roles DEF StepSets
<1>6. n \notin Base(s)
  BY <1>4 DEF Grows
<1>7. n \notin Up(s)
  BY <1>5, <1>6 DEF Up
<1> QED
  BY <1>1, <1>4, <1>7 DEF Grows

(* A server, the load balancer or an agent is launched.                     *)
LEMMA GrowsLaunch ==
    ASSUME TypeOK, AddsInv, NEW s \in Session, cmd[s] \in Adding, Grows(s), LaunchNode(s)
    PROVE  Grows(s)'
<1>1. plan[s] \in SUBSET Node /\ pc[s] = "launch"
  BY DEF TypeOK, LaunchNode
<1>2. PICK n \in Turn(s) :
        /\ ctr' = [ctr EXCEPT ![n] = "running"]
        /\ vol' = IF HasVolume(n) THEN [vol EXCEPT ![n] = "used"] ELSE vol
  BY DEF LaunchNode
<1>3. n \in todo[s] /\ n \in Node /\ Turn(s) = {n}
  BY <1>1, <1>2, BringUpTurn
<1>4. /\ cmd' = cmd /\ plan' = plan /\ recorded' = recorded /\ mem' = mem
      /\ pc'[s] = "arm" /\ todo'[s] = todo[s]
  BY EnterFrame DEF LaunchNode
<1>5. mem[s] = Base(s) \cup Done(s)
  BY DEF Grows
<1>6. StepSets(s) /\ StepSets(s)'
  BY ByStep
<1>7. Base(s)' = Base(s)
  BY <1>4 DEF Base
<1>8. Turn(s)' = Turn(s)
  BY <1>1, <1>4 DEF Turn
<1>9. /\ Done(s)' = Done(s) /\ Claimed(s)' = Claimed(s)
      /\ Launching(s)' = {n} /\ Launching(s) = {}
  BY <1>1, <1>3, <1>4, <1>6, <1>8 DEF StepSets
<1>10. Up(s)' = Up(s) \cup {n}
  BY <1>7, <1>9 DEF Up
<1>11. vol[n] # "absent" <=> n \in Claimed(s)
  BY <1>1, <1>3, LaunchesNew
<1>12. n \in Claimed(s) => HasVolume(n)
  BY ClaimedNodes
<1>13. Stands(n)'
  BY <1>2, <1>3, <1>11, <1>12 DEF Stands, TypeOK
<1>14. \A m \in Node \ {n} : ctr'[m] = ctr[m] /\ vol'[m] = vol[m]
  BY <1>2 DEF TypeOK
<1>15. Up(s) \subseteq Node
  BY <1>1, UpNodes DEF AddingPC
<1> QED
  BY <1>1, <1>3, <1>4, <1>5, <1>9, <1>10, <1>13, <1>14, <1>15, GrowsWith DEF LBPC

(* It is armed, awaited and recorded by the run.                            *)
LEMMA GrowsArm ==
    ASSUME TypeOK, AddsInv, NEW s \in Session, cmd[s] \in Adding, Grows(s), ArmNode(s)
    PROVE  Grows(s)'
<1>1. plan[s] \in SUBSET Node /\ pc[s] = "arm"
  BY DEF TypeOK, ArmNode
<1>2. PICK n \in Turn(s) :
        /\ mem' = [mem EXCEPT ![s] = @ \cup {n}]
        /\ IF todo[s] # {n} THEN Enter(s, "launch", todo[s] \ {n})
           ELSE Enter(s, IF cmd[s] = "addServer" THEN "lbConfig" ELSE "save", {})
  BY DEF ArmNode
<1>3. n \in todo[s] /\ n \in plan[s] /\ Turn(s) = {n}
  BY <1>1, <1>2, BringUpTurn DEF AddsInv, SessionInv, InPlan, BringUp
<1>4. /\ cmd' = cmd /\ plan' = plan /\ recorded' = recorded
      /\ mem'[s] = mem[s] \cup {n} /\ UNCHANGED <<ctr, vol>>
  BY <1>2 DEF ArmNode, TypeOK
<1>5. mem[s] = Base(s) \cup Done(s)
  BY DEF Grows
<1>6. StepSets(s) /\ StepSets(s)'
  BY ByStep
<1>7. Base(s)' = Base(s)
  BY <1>4 DEF Base
<1>8. /\ Done(s)' = Done(s) \cup {n} /\ Claimed(s)' = Claimed(s)
      /\ Launching(s)' = {} /\ Launching(s) = {n}
      /\ pc'[s] \in LBPC => cmd[s] = "addServer"
  <2>1. CASE todo[s] # {n}
    <3>1. pc'[s] = "launch" /\ todo'[s] = todo[s] \ {n}
      BY <1>2, <2>1, EnterFrame
    <3> QED
      BY <1>1, <1>3, <1>4, <1>6, <3>1 DEF StepSets, LBPC
  <2>2. CASE todo[s] = {n}
    <3>1. pc'[s] = IF cmd[s] = "addServer" THEN "lbConfig" ELSE "save"
      BY <1>2, <2>2, EnterFrame
    <3> QED
      BY <1>1, <1>3, <1>4, <1>6, <2>2, <3>1 DEF StepSets, LBPC
  <2> QED
    BY <2>1, <2>2
<1>9. Up(s)' = Up(s) /\ mem'[s] = Base(s) \cup Done(s)'
  BY <1>4, <1>5, <1>7, <1>8 DEF Up
<1> QED
  BY <1>1, <1>4, <1>8, <1>9, GrowsQuiet

(* The load balancer is stopped and started.                                *)
LEMMA GrowsLB ==
    ASSUME TypeOK, AddsInv, NEW s \in Session, cmd[s] \in Adding, Grows(s),
           StopLB(s) \/ StartLB(s)
    PROVE  Grows(s)'
<1>1. plan[s] \in SUBSET Node /\ pc[s] \in {"lbStop", "lbStart"}
  BY DEF TypeOK, StopLB, StartLB
<1>2. /\ cmd' = cmd /\ plan' = plan /\ recorded' = recorded /\ mem' = mem /\ vol' = vol
      /\ \A m \in Node \ {TheLB} : ctr'[m] = ctr[m]
  BY DEF StopLB, StartLB, dir, TypeOK
<1>3. mem[s] = Base(s) \cup Done(s) /\ cmd[s] = "addServer"
  BY <1>1 DEF Grows, LBPC
<1>4. pc'[s] \in {"lbStart", "save"}
  BY EnterFrame DEF StopLB, StartLB
<1>5. StepSets(s) /\ StepSets(s)'
  BY ByStep
<1>6. /\ Done(s)' = Done(s) /\ Claimed(s)' = Claimed(s)
      /\ Launching(s)' = {} /\ Launching(s) = {}
  BY <1>1, <1>2, <1>4, <1>5 DEF StepSets
<1>7. Base(s)' = Base(s)
  BY <1>2 DEF Base
<1>8. Up(s)' = Up(s)
  BY <1>6, <1>7 DEF Up
<1>9. Up(s) \subseteq Node
  BY <1>1, UpNodes DEF AddingPC
<1>10. ~HasVolume(TheLB) /\ TheLB \in Node
  BY TheLBIsNode DEF HasVolume, TheLB
<1>11. TheLB \in Up(s) => vol[TheLB] = "absent" /\ ctr[TheLB] # "absent"
  BY <1>10 DEF Grows, Stands
<1>12. TheLB \notin Up(s) => ctr[TheLB] = "absent" /\ (vol[TheLB] # "absent" <=> TheLB \in Claimed(s))
  BY <1>10 DEF Grows
<1>13. CASE StopLB(s)
  <2>1. pc[s] = "lbStop" /\ pc'[s] = "lbStart"
    BY <1>13, EnterFrame DEF StopLB
  <2>2. TheLB \in Up(s) => ctr'[TheLB] = "stopped"
    <3>1. TheLB \in Up(s) => ctr[TheLB] = "running"
      BY <2>1 DEF Grows, Stands
    <3> QED
      BY <1>10, <1>13, <3>1 DEF StopLB, TypeOK
  <2>3. TheLB \notin Up(s) => ctr'[TheLB] = "absent"
    BY <1>12, <1>13 DEF StopLB
  <2> QED
    BY <1>2, <1>3, <1>6, <1>8, <1>9, <1>10, <1>11, <1>12, <2>1, <2>2, <2>3, GrowsWith
<1>14. CASE StartLB(s)
  <2>1. pc[s] = "lbStart" /\ pc'[s] = "save"
    BY <1>14, EnterFrame DEF StartLB
  <2>2. ctr'[TheLB] = "running" /\ TheLB \in Up(s)
    BY <1>10, <1>12, <1>14 DEF StartLB, TypeOK
  <2>3. Stands(TheLB)'
    BY <1>2, <1>10, <1>11, <2>2 DEF Stands
  <2> QED
    BY <1>2, <1>3, <1>6, <1>8, <1>9, <1>10, <2>1, <2>2, <2>3, GrowsWith
<1> QED
  BY <1>13, <1>14

(* Nothing refuses a command that grows what is there.                      *)
LEMMA GrowsUnrefused ==
    ASSUME TypeOK, AddsInv, NEW s \in Session, cmd[s] \in Adding, Grows(s),
           cmd[s] = "addServer" => TheLB \in recorded
    PROVE  ~Refused(s)
<1>1. plan[s] \in SUBSET Node /\ StepSets(s)
  BY ByStep DEF TypeOK
<1>2. ASSUME pc[s] \in {"etcdVolumes", "volumes"}, NEW n \in Turn(s), vol[n] # "absent"
      PROVE  FALSE
  <2>1. n \in todo[s] /\ n \in plan[s] /\ n \in Claimed(s)
    BY <1>2, BringUpTurn, LaunchesNew
  <2> QED
    BY <1>1, <1>2, <2>1 DEF StepSets
<1>3. ASSUME pc[s] \in {"etcdLaunch", "launch"}, NEW n \in Turn(s), ~Launchable(n)
      PROVE  FALSE
  <2>1. n \in todo[s] /\ n \in plan[s] /\ ctr[n] = "absent"
          /\ (vol[n] # "absent" <=> n \in Claimed(s))
    BY <1>3, BringUpTurn, LaunchesNew
  <2>2. pc[s] = "etcdLaunch" => n \in Members(plan[s])
    BY <2>1 DEF AddsInv, SessionInv, InPlan
  <2>3. HasVolume(n) => n \in Claimed(s)
    BY <1>1, <1>3, <2>1, <2>2 DEF StepSets
  <2> QED
    BY <1>3, <2>1, <2>3 DEF Launchable
<1>4. ASSUME pc[s] = "etcdReady", NEW n \in Members(plan[s]), ctr[n] # "running"
      PROVE  FALSE
  <2>1. n \in Up(s)
    BY <1>1, <1>4 DEF StepSets, Up
  <2> QED
    BY <1>4, <2>1 DEF Grows, Stands
<1>5. ASSUME pc[s] = "arm", NEW n \in Turn(s), ctr[n] # "running" PROVE FALSE
  <2>1. n \in Up(s)
    BY <1>1, <1>5 DEF StepSets, Up
  <2> QED
    BY <1>5, <2>1 DEF Grows, Stands
<1>6. ASSUME pc[s] = "lbStart", ctr[TheLB] = "absent" PROVE FALSE
  <2>1. cmd[s] = "addServer"
    BY <1>6 DEF Grows, LBPC
  <2>2. TheLB \in Up(s)
    BY <2>1 DEF Up, Base
  <2> QED
    BY <1>6, <2>2 DEF Grows, Stands
<1> QED
  BY <1>2, <1>3, <1>4, <1>5, <1>6 DEF Refused

(* What such a command saves is what is there.                              *)
LEMMA GrowsSaved ==
    ASSUME TypeOK, AddsInv, SoloInv, OneShape, NEW s \in Session, cmd[s] \in Adding,
           Grows(s), SaveState(s), cmd[s] # "create" => Rooted(recorded)
    PROVE  Exactly(recorded)' /\ Rooted(recorded)'
<1>1. StepSets(s) /\ pc[s] = "save"
  BY ByStep DEF SaveState
<1>2. recorded' = Up(s) /\ Up(s) = Base(s) \cup plan[s]
  BY <1>1 DEF SaveState, Grows, Up, StepSets, Adding
<1>3. UNCHANGED <<ctr, vol>>
  BY DEF SaveState, runtime
<1>4. \A n \in Up(s) : Stands(n)
  BY <1>1 DEF Grows
<1>5. \A n \in Node \ Up(s) : Gone(n)
  <2>1. \A n \in Claimed(s) : n \in Up(s)
    BY <1>1, <1>2 DEF StepSets
  <2> QED
    BY <2>1 DEF Grows, Gone
<1>6. Exactly(recorded)'
  BY <1>2, <1>3, <1>4, <1>5 DEF Exactly, Stands, Gone
<1>7. Rooted(Up(s))
  <2>1. CASE cmd[s] = "create"
    <3>1. /\ plan[s] \in Clusters /\ ValidCluster(plan[s]) /\ Up(s) = plan[s]
      BY <1>2, <2>1 DEF SoloInv, LBInv, Base
    <3>2. Bootstrap \in plan[s] /\ \A n \in plan[s] : n.role = "lb" => n = TheLB
      BY <3>1, ConstantsAssumption
    <3>3. Managed => Members(plan[s]) # {}
      BY <3>1 DEF Managed, OneShape
    <3>4. Members(plan[s]) # {} => FirstMember \in plan[s]
      <4>1. ASSUME Members(plan[s]) # {} PROVE FirstMember \in Members(plan[s])
        <5>1. PICK k \in 1..MaxIndex :
                Members(plan[s]) = [role : {"datastore"}, idx : 1..(2*k + 1)]
          BY <3>1, <4>1 DEF ValidCluster
        <5>2. 1 \in 1..(2*k + 1)
          BY ConstantsAssumption
        <5> QED
          BY <5>1, <5>2 DEF FirstMember
      <4> QED
        BY <4>1 DEF Members
    <3> QED
      BY <3>1, <3>2, <3>3, <3>4 DEF Rooted
  <2>2. CASE cmd[s] # "create"
    <3>1. recorded = Base(s) /\ \A n \in plan[s] : n.role # "lb"
      BY <2>2 DEF Grows
    <3> QED
      BY <1>2, <2>2, <3>1 DEF Rooted
  <2> QED
    BY <2>1, <2>2
<1> QED
  BY <1>2, <1>6, <1>7 DEF Rooted, Managed

(* A Create over a cluster that is there comes to a refused volume.         *)
LEMMA DoomedSteps ==
    ASSUME TypeOK, AddsInv, SoloInv, NEW s \in Session, Doomed(s), Rooted(recorded),
           BringUpStep(s)
    PROVE  Doomed(s)' /\ UNCHANGED <<cmd, plan, ctr, vol, disk, recorded, errs>>
<1>1. /\ plan[s] \in Clusters /\ ValidCluster(plan[s]) /\ Bootstrap \in plan[s]
      /\ plan[s] \subseteq Node /\ recorded \subseteq Node
  BY DEF Doomed, SoloInv, LBInv, AddsInv, SessionInv, InPlan, TypeOK
<1>2. \A n \in recorded : HasVolume(n) => vol[n] # "absent"
  BY <1>1 DEF Doomed, Exactly, Stands
<1>3. ~CreateVolume(s)
  <2>1. SUFFICES ASSUME CreateVolume(s) PROVE FALSE
    OBVIOUS
  <2>2. PICK n \in Turn(s) : vol[n] = "absent"
    BY <2>1 DEF CreateVolume
  <2>3. IsNext(n, todo[s]) /\ pc[s] \in {"etcdVolumes", "volumes"}
    BY <2>1, <2>2 DEF CreateVolume, Turn
  <2>4. n \in Node /\ n.idx \in Nat \ {0}
    BY <2>2, TurnSubset, ConstantsAssumption DEF Node
  <2>5. CASE pc[s] = "etcdVolumes"
    <3>1. todo[s] = Members(plan[s]) /\ Managed
      BY <1>1, <2>3, <2>5 DEF Doomed, Managed, IsNext
    <3>2. FirstMember \in recorded /\ HasVolume(FirstMember)
      BY <3>1 DEF Rooted, FirstMember, HasVolume
    <3>3. n # FirstMember
      BY <1>2, <2>2, <3>2
    <3>4. FirstMember \in Members(plan[s])
      <4>1. PICK k \in 1..MaxIndex :
              Members(plan[s]) = [role : {"datastore"}, idx : 1..(2*k + 1)]
        BY <1>1, <2>3, <3>1 DEF ValidCluster, IsNext
      <4>2. 1 \in 1..(2*k + 1)
        BY ConstantsAssumption
      <4> QED
        BY <4>1, <4>2 DEF FirstMember
    <3>5. Before(n, FirstMember) /\ n.role = "datastore"
      BY <2>3, <3>1, <3>3, <3>4 DEF IsNext, Members
    <3> QED
      BY <2>4, <3>5 DEF Before, FirstMember, Rank
  <2>6. CASE pc[s] = "volumes"
    <3>1. todo[s] = K3sNodes(plan[s])
      BY <2>6 DEF Doomed
    <3>2. Bootstrap \in todo[s] /\ n.role \in {"server", "agent"}
      BY <1>1, <2>3, <3>1 DEF K3sNodes, Servers, Agents, Bootstrap, IsNext
    <3>3. n # Bootstrap
      BY <1>2, <2>2 DEF Rooted, Bootstrap, HasVolume
    <3>4. Before(n, Bootstrap)
      BY <2>3, <3>2, <3>3 DEF IsNext
    <3> QED
      BY <2>4, <3>2, <3>4 DEF Before, Bootstrap, Rank
  <2> QED
    BY <2>3, <2>5, <2>6
<1>4. EnsureNetwork(s) \/ DeliverEtcdTLS(s)
  BY <1>3 DEF Doomed, BringUpStep, CreateVolume, LaunchMember, EtcdReady, LaunchNode,
     ArmNode, ConfigureLB, StopLB, StartLB, SaveState
<1>5. /\ cmd' = cmd /\ plan' = plan /\ UNCHANGED <<ctr, vol, disk, recorded, errs>>
  BY <1>4 DEF EnsureNetwork, DeliverEtcdTLS, dir
<1>6. \/ pc'[s] = "etcdTLS" /\ Members(plan[s]) # {}
      \/ /\ pc'[s] = "volumes" /\ Members(plan[s]) = {}
         /\ todo'[s] = K3sNodes(plan[s])
      \/ /\ pc'[s] = "etcdVolumes" /\ Members(plan[s]) # {}
         /\ todo'[s] = Members(plan[s])
  BY <1>4, EnterFrame DEF EnsureNetwork, DeliverEtcdTLS, Doomed
<1> QED
  BY <1>5, <1>6 DEF Doomed, Exactly, Stands, Gone

-----------------------------------------------------------------------------
(* Commands that tear down *)

(* RemoveNode goes from the one call to the next of its one node.           *)
LEMMA ShrinksSteps ==
    ASSUME TypeOK, NEW s \in Session, cmd[s] = "removeNode", Shrinks(s), TeardownStep(s)
    PROVE  Shrinks(s)' /\ cmd' = cmd /\ UNCHANGED <<disk, recorded, errs>>
<1>1. PICK n \in Agents(recorded) : plan[s] = {n}
  BY DEF Shrinks
<1>2. n \in Node /\ HasVolume(n)
  BY DEF Agents, TypeOK, HasVolume
<1>3. StopNode(s) \/ RemoveContainer(s) \/ DeleteVolume(s)
  BY DEF TeardownStep, Shrinks, ListContainers, ListVolumes, DeleteNetwork, RemoveDir
<1>4. /\ cmd' = cmd /\ plan' = plan /\ mem' = mem /\ UNCHANGED <<disk, recorded, errs>>
  BY <1>3 DEF StopNode, RemoveContainer, DeleteVolume, dir
<1>5. mem[s] = recorded /\ \A m \in Node \ {n} : IF m \in recorded THEN Stands(m) ELSE Gone(m)
  BY <1>1 DEF Shrinks
<1>6. CASE StopNode(s)
  <2>1. pc[s] = "stop" /\ todo[s] = {n} /\ Turn(s) = {n}
    BY <1>1, <1>6 DEF StopNode, Shrinks, Turn
  <2>2. /\ ctr' = IF ctr[n] = "running" THEN [ctr EXCEPT ![n] = "stopped"] ELSE ctr
        /\ Stay(s, "remove", n) /\ vol' = vol
    BY <1>6, <2>1 DEF StopNode, AfterCall
  <2>3. pc'[s] = "remove" /\ at'[s] = {n} /\ todo'[s] = {n}
    BY <2>1, <2>2 DEF Stay, TypeOK
  <2>4. ctr'[n] # "running" /\ \A m \in Node \ {n} : ctr'[m] = ctr[m] /\ vol'[m] = vol[m]
    BY <1>2, <2>2 DEF TypeOK
  <2>5. \A m \in Node \ {n} : IF m \in recorded' THEN Stands(m)' ELSE Gone(m)'
    BY <1>4, <1>5, <2>4 DEF Stands, Gone
  <2> QED
    BY <1>1, <1>4, <1>5, <2>3, <2>4, <2>5 DEF Shrinks, Agents
<1>7. CASE RemoveContainer(s)
  <2>1. pc[s] = "remove" /\ todo[s] = {n} /\ Turn(s) = {n}
    BY <1>1, <1>7 DEF RemoveContainer, Shrinks, Turn
  <2>2. ctr' = [ctr EXCEPT ![n] = "absent"] /\ Stay(s, "volume", n) /\ vol' = vol
    BY <1>2, <1>7, <2>1 DEF RemoveContainer, AfterCall
  <2>3. pc'[s] = "volume" /\ at'[s] = {n} /\ todo'[s] = {n}
    BY <2>1, <2>2 DEF Stay, TypeOK
  <2>4. ctr'[n] = "absent" /\ \A m \in Node \ {n} : ctr'[m] = ctr[m] /\ vol'[m] = vol[m]
    BY <1>2, <2>2 DEF TypeOK
  <2>5. \A m \in Node \ {n} : IF m \in recorded' THEN Stands(m)' ELSE Gone(m)'
    BY <1>4, <1>5, <2>4 DEF Stands, Gone
  <2> QED
    BY <1>1, <1>4, <1>5, <2>3, <2>4, <2>5 DEF Shrinks, Agents
<1>8. CASE DeleteVolume(s)
  <2>1. pc[s] = "volume" /\ todo[s] = {n} /\ Turn(s) = {n} /\ ctr[n] = "absent"
    BY <1>1, <1>8 DEF DeleteVolume, Shrinks, Turn
  <2>2. vol' = [vol EXCEPT ![n] = "absent"] /\ NodeDone(s, n) /\ ctr' = ctr
    BY <1>8, <2>1 DEF DeleteVolume, AfterCall
  <2>3. pc'[s] = "save"
    BY <2>1, <2>2, EnterFrame DEF NodeDone, NextInLoop
  <2>4. Gone(n)' /\ \A m \in Node \ {n} : ctr'[m] = ctr[m] /\ vol'[m] = vol[m]
    BY <1>2, <2>1, <2>2 DEF TypeOK, Gone
  <2>5. \A m \in Node \ {n} : IF m \in recorded' THEN Stands(m)' ELSE Gone(m)'
    BY <1>4, <1>5, <2>4 DEF Stands, Gone
  <2> QED
    BY <1>1, <1>4, <1>5, <2>3, <2>4, <2>5 DEF Shrinks, Agents
<1> QED
  BY <1>3, <1>6, <1>7, <1>8

(* What it saves is what is there.                                          *)
LEMMA ShrinksSaved ==
    ASSUME TypeOK, NEW s \in Session, cmd[s] = "removeNode", Shrinks(s), SaveState(s),
           Rooted(recorded)
    PROVE  Exactly(recorded)' /\ Rooted(recorded)'
<1>1. PICK n \in Agents(recorded) : plan[s] = {n}
  BY DEF Shrinks
<1>2. recorded' = recorded \ {n} /\ UNCHANGED <<ctr, vol>>
  BY <1>1 DEF SaveState, Shrinks, runtime
<1>3. Gone(n) /\ \A m \in Node \ {n} : IF m \in recorded THEN Stands(m) ELSE Gone(m)
  BY <1>1 DEF Shrinks, SaveState
<1>4. Exactly(recorded)'
  BY <1>2, <1>3 DEF Exactly, Stands, Gone
<1>5. n # Bootstrap /\ n # FirstMember
  BY <1>1 DEF Agents, Bootstrap, FirstMember
<1> QED
  BY <1>2, <1>4, <1>5 DEF Rooted, Managed

(* The steps of a Destroy up to its last, none of which the next refuses.   *)
LEMMA ClearsSteps ==
    ASSUME TypeOK, NEW s \in Session, cmd[s] = "destroy", TeardownStep(s), ~RemoveDir(s)
    PROVE  Clears(s)' /\ cmd' = cmd /\ UNCHANGED <<disk, recorded, errs>>
<1>1. cmd' = cmd /\ UNCHANGED <<disk, recorded, errs>>
  BY DEF TeardownStep, StopNode, RemoveContainer, DeleteVolume, ListContainers,
     ListVolumes, DeleteNetwork, dir
<1>2. ASSUME pc'[s] \notin {"remove", "sweepRemove", "volume"} PROVE Clears(s)'
  BY <1>2 DEF Clears
<1>3. ASSUME NEW n, NEW p \in {"stop", "sweepStop", "sweepVolume"},
             NEW q \in {"listContainers", "listVolumes", "deleteNetwork"},
             NextInLoop(s, n, p, q)
      PROVE  Clears(s)'
  <2>1. pc'[s] \in {p, q}
    BY <1>3, EnterFrame DEF NextInLoop
  <2> QED
    BY <1>2, <2>1
<1>4. CASE StopNode(s)
  <2>1. PICK n \in Turn(s) :
          /\ ctr' = IF ctr[n] = "running" THEN [ctr EXCEPT ![n] = "stopped"] ELSE ctr
          /\ AfterCall(s, n)
    BY <1>4 DEF StopNode
  <2>2. ctr'[n] # "running"
    BY <2>1, TurnSubset DEF TypeOK
  <2>3. Stay(s, "remove", n) \/ Stay(s, "sweepRemove", n)
    BY <1>4, <2>1 DEF StopNode, AfterCall
  <2>4. pc'[s] \in {"remove", "sweepRemove"} /\ at'[s] = {n}
    BY <2>3 DEF Stay, TypeOK
  <2>5. \A m \in at'[s] : ctr'[m] # "running"
    BY <2>2, <2>4
  <2> QED
    BY <1>1, <2>4, <2>5 DEF Clears
<1>5. CASE RemoveContainer(s)
  <2>1. PICK n \in Turn(s) : ctr' = [ctr EXCEPT ![n] = "absent"] /\ AfterCall(s, n)
    BY <1>5 DEF RemoveContainer
  <2>2. ctr'[n] = "absent"
    BY <2>1, TurnSubset DEF TypeOK
  <2>3. \/ Stay(s, "volume", n) \/ NextInLoop(s, n, "stop", "listContainers")
        \/ NextInLoop(s, n, "sweepStop", "listVolumes")
    BY <1>5, <2>1 DEF RemoveContainer, AfterCall, NodeDone
  <2>4. CASE Stay(s, "volume", n)
    <3>1. pc'[s] = "volume" /\ at'[s] = {n}
      BY <2>4 DEF Stay, TypeOK
    <3>2. \A m \in at'[s] : ctr'[m] = "absent"
      BY <2>2, <3>1
    <3> QED
      BY <1>1, <3>1, <3>2 DEF Clears
  <2> QED
    BY <1>1, <1>3, <2>3, <2>4
<1>6. CASE DeleteVolume(s)
  <2>1. PICK n \in Turn(s) : \/ NextInLoop(s, n, "stop", "listContainers")
                             \/ NextInLoop(s, n, "sweepVolume", "deleteNetwork")
    BY <1>6 DEF DeleteVolume, AfterCall, NodeDone
  <2> QED
    BY <1>1, <1>3, <2>1
<1>7. CASE ListContainers(s)
  BY <1>1, <1>2, <1>7, EnterFrame DEF ListContainers
<1>8. CASE ListVolumes(s)
  BY <1>1, <1>2, <1>8, EnterFrame DEF ListVolumes
<1>9. CASE DeleteNetwork(s)
  BY <1>1, <1>2, <1>9, EnterFrame DEF DeleteNetwork
<1> QED
  BY <1>1, <1>4, <1>5, <1>6, <1>7, <1>8, <1>9 DEF TeardownStep

-----------------------------------------------------------------------------
(* All commands *)

(* The invariant of a session that runs no command.                         *)
LEMMA IdleOrderly ==
    ASSUME NEW s \in Session, cmd'[s] = "none"
    PROVE  Orderly(s)'
  BY DEF Orderly, Adding

(* A step after which the command goes on.                                  *)
LEMMA GoesOn ==
    ASSUME NoOverlap, TypeOK, AddsInv, SoloInv, Matched, NEW s \in Session, Step(s),
           cmd'[s] # "none", UNCHANGED <<disk, recorded, errs>>, Orderly(s)'
    PROVE  Matched'
<1>1. \A t \in Session \ {s} : cmd'[t] = "none"
  BY SoloKept DEF SoloInv
<1>2. \A t \in Session : ~errs'[t] /\ Orderly(t)'
  BY <1>1, IdleOrderly DEF Matched
<1>3. (disk = "ok" \/ recorded # {} => Rooted(recorded))'
  BY DEF Matched, Rooted, Managed
<1> QED
  BY <1>2, <1>3 DEF Matched

(* A step after which it has ended.                                         *)
LEMMA Ends ==
    ASSUME NoOverlap, TypeOK, AddsInv, SoloInv, Matched, NEW s \in Session, Step(s), End(s),
           (disk = "ok" \/ recorded # {} => Rooted(recorded))', Exactly(recorded)'
    PROVE  Matched'
<1>1. \A t \in Session : cmd'[t] = "none"
  BY SoloKept, EndFrame DEF SoloInv
<1>2. \A t \in Session : ~errs'[t]
  BY DEF End, TypeOK, Matched
<1> QED
  BY <1>1, <1>2, IdleOrderly DEF Matched

(* A command that starts finds what is there recorded.                      *)
LEMMA MatchedBegin ==
    ASSUME NoOverlap, TypeOK, AddsInv, SoloInv, Matched, NEW s \in Session, Begin(s),
           Step(s)
    PROVE  Matched'
<1>1. ASSUME NEW c, NEW p, NEW work, NEW P, NEW known, Start(s, c, p, work, P, known)
      PROVE  /\ UNCHANGED <<disk, recorded, errs, ctr, vol>> /\ Exactly(recorded)
             /\ cmd'[s] = c /\ pc'[s] = p /\ todo'[s] = work /\ plan'[s] = P
             /\ mem'[s] = known
  <2>1. \A t \in Session : cmd[t] = "none"
    BY <1>1 DEF Start, NoOverlap
  <2> QED
    BY <1>1, <2>1, StartFrame DEF Start, Matched, runtime, dir
<1>2. recorded \subseteq Node /\ (disk = "ok" => Rooted(recorded))
  BY DEF Matched, TypeOK
<1>3. StepSets(s)'
  BY ByStep
<1>4. CASE StartCreate(s)
  <2>1. PICK c \in Clusters : Start(s, "create", "network", {}, c, {})
    BY <1>4 DEF StartCreate
  <2>2. /\ UNCHANGED <<disk, recorded, errs, ctr, vol>> /\ Exactly(recorded)
        /\ cmd'[s] = "create" /\ pc'[s] = "network" /\ mem'[s] = {}
    BY <1>1, <2>1
  <2>3. CASE recorded = {}
    <3>1. Up(s)' = {} /\ Claimed(s)' = {} /\ Done(s)' = {} /\ Base(s)' = {}
      BY <1>3, <2>2 DEF StepSets, Up, Base
    <3>2. \A n \in Node : ctr'[n] = "absent" /\ vol'[n] = "absent"
      BY <2>2, <2>3 DEF Exactly, Gone
    <3>3. Grows(s)'
      BY <2>2, <2>3, <3>1, <3>2 DEF Grows, LBPC
    <3> QED
      BY <2>2, <3>3, GoesOn DEF Orderly, Adding
  <2>4. CASE recorded # {}
    <3>1. Doomed(s)'
      BY <2>2, <2>4 DEF Doomed, Exactly, Stands, Gone
    <3> QED
      BY <2>2, <3>1, GoesOn DEF Orderly, Adding
  <2> QED
    BY <2>3, <2>4
<1>5. ASSUME NEW c \in {"addAgents", "addServer"}, NEW new \in SUBSET Node, disk = "ok",
             Start(s, c, "volumes", new, new, recorded),
             new \cap recorded = {}, \A n \in new : n.role \in {"server", "agent"},
             c = "addServer" => TheLB \in recorded
      PROVE  Matched'
  <2>1. /\ UNCHANGED <<disk, recorded, errs, ctr, vol>> /\ Exactly(recorded)
        /\ cmd'[s] = c /\ pc'[s] = "volumes" /\ todo'[s] = new /\ plan'[s] = new
        /\ mem'[s] = recorded
    BY <1>1, <1>5
  <2>2. Members(new) = {}
    BY <1>5 DEF Members
  <2>3. /\ Claimed(s)' = {} /\ Done(s)' = {} /\ Base(s)' = recorded
        /\ Up(s)' = recorded
    BY <1>3, <2>1, <2>2 DEF StepSets, Up, Base
  <2>4. Grows(s)'
    BY <1>2, <1>5, <2>1, <2>3 DEF Grows, LBPC, Exactly, Stands, Gone
  <2>5. Orderly(s)'
    BY <1>2, <1>5, <2>1, <2>4 DEF Orderly, Rooted, Managed
  <2> QED
    BY <2>1, <2>5, GoesOn
<1>6. CASE StartAddAgents(s)
  <2>1. PICK i \in 1..MaxIndex, count \in 1..MaxIndex :
          /\ IsNextIndex(i, recorded, "agent") /\ i + count - 1 <= MaxIndex
          /\ Start(s, "addAgents", "volumes", [role : {"agent"}, idx : i..(i + count - 1)],
                   [role : {"agent"}, idx : i..(i + count - 1)], recorded)
    BY <1>6 DEF StartAddAgents
  <2> DEFINE new == [role : {"agent"}, idx : i..(i + count - 1)]
  <2>2. new \in SUBSET Node
    BY <2>1, ConstantsAssumption DEF Node, Role
  <2>3. \A n \in new : n.role = "agent" /\ n.idx >= i /\ n.idx \in Nat
    BY <2>1, ConstantsAssumption
  <2>4. \A n \in recorded : n.role = "agent" => n.idx < i /\ n.idx \in Nat
    BY <1>2, <2>1, ConstantsAssumption DEF IsNextIndex, Node
  <2>5. \A n \in new : n \notin recorded
    BY <2>1, <2>3, <2>4
  <2> HIDE DEF new
  <2>6. Start(s, "addAgents", "volumes", new, new, recorded) /\ disk = "ok"
    BY <1>6, <2>1 DEF StartAddAgents, new
  <2> QED
    BY <1>5, <2>2, <2>3, <2>5, <2>6
<1>7. CASE StartAddServer(s)
  <2>1. PICK i \in 1..MaxIndex :
          /\ IsNextIndex(i, recorded, "server") /\ AddServerable(recorded)
          /\ Start(s, "addServer", "volumes", [role : {"server"}, idx : {i}],
                   [role : {"server"}, idx : {i}], recorded)
    BY <1>7 DEF StartAddServer
  <2> DEFINE new == [role : {"server"}, idx : {i}]
  <2>2. new \in SUBSET Node
    BY <2>1, ConstantsAssumption DEF Node, Role
  <2>3. \A n \in new : n.role = "server" /\ n.idx = i
    OBVIOUS
  <2>4. \A n \in recorded : n.role = "server" => n.idx < i /\ n.idx \in Nat
    BY <1>2, <2>1, ConstantsAssumption DEF IsNextIndex, Node
  <2>5. \A n \in new : n \notin recorded
    BY <2>1, <2>3, <2>4
  <2> HIDE DEF new
  <2>6. Start(s, "addServer", "volumes", new, new, recorded) /\ disk = "ok"
    BY <1>7, <2>1 DEF StartAddServer, new
  <2>7. TheLB \in recorded
    BY <1>2, <2>1, <2>6 DEF AddServerable, Rooted
  <2> QED
    BY <1>5, <2>2, <2>3, <2>5, <2>6, <2>7
<1>8. CASE StartRemoveNode(s)
  <2>1. PICK n \in recorded :
          Removable(n) /\ Start(s, "removeNode", "stop", {n}, {n}, recorded) /\ disk = "ok"
    BY <1>8 DEF StartRemoveNode
  <2>2. /\ UNCHANGED <<disk, recorded, errs, ctr, vol>> /\ Exactly(recorded)
        /\ cmd'[s] = "removeNode" /\ pc'[s] = "stop" /\ todo'[s] = {n} /\ plan'[s] = {n}
        /\ mem'[s] = recorded
    BY <1>1, <2>1
  <2>3. n \in Agents(recorded)
    BY <2>1 DEF Removable, Agents
  <2>4. Shrinks(s)'
    BY <2>2, <2>3 DEF Shrinks, Exactly, Stands, Gone, Agents
  <2>5. Orderly(s)'
    BY <1>2, <2>1, <2>2, <2>4 DEF Orderly, Adding, Rooted, Managed
  <2> QED
    BY <2>2, <2>5, GoesOn
<1>9. CASE StartDestroy(s)
  <2> DEFINE first == IF recorded = {} THEN "listContainers" ELSE "stop"
  <2>1. /\ UNCHANGED <<disk, recorded, errs>> /\ cmd'[s] = "destroy" /\ pc'[s] = first
    BY <1>1, <1>9 DEF StartDestroy
  <2>2. Orderly(s)'
    BY <2>1 DEF Orderly, Adding, Clears
  <2> QED
    BY <2>1, <2>2, GoesOn
<1> QED
  BY <1>4, <1>6, <1>7, <1>8, <1>9 DEF Begin

(* Every step of a bring-up.                                                *)
LEMMA MatchedBringUp ==
    ASSUME NoOverlap, OneShape, TypeOK, AddsInv, SoloInv, Matched, NEW s \in Session,
           BringUpStep(s), Step(s)
    PROVE  Matched'
<1>1. pc[s] \in AddingPC
  BY DEF BringUpStep, EnsureNetwork, DeliverEtcdTLS, CreateVolume, LaunchMember, EtcdReady,
     LaunchNode, ArmNode, ConfigureLB, StopLB, StartLB, SaveState, AddingPC
<1>2. Orderly(s) /\ (cmd[s] # "create" => Rooted(recorded))
  <2>1. cmd[s] \in Adding \cup {"removeNode"}
    BY <1>1, ByPC
  <2> QED
    BY <2>1 DEF Matched, Orderly, Adding
<1>3. CASE SaveState(s)
  <2>1. End(s)
    BY <1>3 DEF SaveState
  <2>2. Exactly(recorded)' /\ Rooted(recorded)'
    <3>1. CASE cmd[s] \in Adding
      <4>1. Grows(s)
        BY <1>2, <1>3, <3>1 DEF Orderly, Doomed, SaveState
      <4> QED
        BY <1>2, <1>3, <3>1, <4>1, GrowsSaved
    <3>2. CASE cmd[s] = "removeNode"
      BY <1>2, <1>3, <3>2, ShrinksSaved DEF Orderly
    <3> QED
      BY <1>3, <3>1, <3>2, ByPC DEF SaveState
  <2> QED
    BY <2>1, <2>2, Ends
<1>4. CASE ~SaveState(s)
  <2>1. cmd[s] \in Adding
    BY <1>4, ByPC DEF BringUpStep, EnsureNetwork, DeliverEtcdTLS, CreateVolume,
       LaunchMember, EtcdReady, LaunchNode, ArmNode, ConfigureLB, StopLB, StartLB, AddingPC
  <2>2. CASE Doomed(s)
    <3>1. Rooted(recorded)
      BY <2>2 DEF Matched, Doomed
    <3>2. Doomed(s)' /\ cmd' = cmd /\ UNCHANGED <<disk, recorded, errs>>
      BY <2>2, <3>1, DoomedSteps
    <3>3. Orderly(s)' /\ cmd'[s] # "none"
      BY <2>2, <3>2 DEF Orderly, Doomed
    <3> QED
      BY <3>2, <3>3, GoesOn
  <2>3. CASE Grows(s)
    <3>1. Grows(s)'
      BY <1>4, <2>1, <2>3, GrowsWaits, GrowsVolume, GrowsMember, GrowsLaunch, GrowsArm,
         GrowsLB DEF BringUpStep
    <3>2. cmd' = cmd /\ UNCHANGED <<disk, recorded, errs>>
      BY <1>4 DEF BringUpStep, EnsureNetwork, DeliverEtcdTLS, CreateVolume,
         LaunchMember, EtcdReady, LaunchNode, ArmNode, ConfigureLB, StopLB, StartLB, dir
    <3>3. Orderly(s)'
      BY <1>2, <2>1, <3>1, <3>2 DEF Orderly, Adding, Rooted, Managed
    <3> QED
      BY <2>1, <3>2, <3>3, GoesOn DEF Adding
  <2> QED
    BY <1>2, <2>1, <2>2, <2>3 DEF Orderly
<1> QED
  BY <1>3, <1>4

(* Every step of a teardown.                                                *)
LEMMA MatchedTeardown ==
    ASSUME NoOverlap, TypeOK, AddsInv, DestroyInv, SoloInv, Matched, NEW s \in Session,
           TeardownStep(s), Step(s)
    PROVE  Matched'
<1>1. cmd[s] \in Teardown
  <2>1. pc[s] \notin AddingPC \cup {"idle"}
    BY DEF TeardownStep, StopNode, RemoveContainer, DeleteVolume, ListContainers,
       ListVolumes, DeleteNetwork, RemoveDir, AddingPC
  <2> QED
    BY <2>1, ByPC
<1>2. Orderly(s) /\ ~errs[s]
  BY DEF Matched
<1>3. CASE cmd[s] = "removeNode"
  <2>1. Shrinks(s)' /\ cmd' = cmd /\ UNCHANGED <<disk, recorded, errs>>
    BY <1>2, <1>3, ShrinksSteps DEF Orderly
  <2>2. Orderly(s)'
    BY <1>2, <1>3, <2>1 DEF Orderly, Adding, Rooted, Managed
  <2> QED
    BY <1>3, <2>1, <2>2, GoesOn
<1>4. CASE cmd[s] = "destroy" /\ ~RemoveDir(s)
  <2>1. Clears(s)' /\ cmd' = cmd /\ UNCHANGED <<disk, recorded, errs>>
    BY <1>4, ClearsSteps
  <2>2. Orderly(s)'
    BY <1>4, <2>1 DEF Orderly, Adding
  <2> QED
    BY <1>4, <2>1, <2>2, GoesOn
<1>5. CASE cmd[s] = "destroy" /\ RemoveDir(s)
  <2>1. /\ End(s) /\ recorded' = {} /\ disk' = "absent" /\ UNCHANGED <<ctr, vol>>
        /\ pc[s] = "removeDir"
    BY <1>5 DEF RemoveDir, runtime
  <2>2. \A n \in Node : ctr[n] = "absent" /\ vol[n] = "absent"
    BY <1>2, <2>1 DEF DestroyInv, Swept
  <2>3. Exactly(recorded)'
    BY <2>1, <2>2 DEF Exactly, Gone
  <2> QED
    BY <2>1, <2>3, Ends
<1> QED
  BY <1>1, <1>3, <1>4, <1>5 DEF Teardown

(* A command that is refused, and has not been rejected late, has changed   *)
(* nothing: a Create over a cluster that is there, or one of a cluster that *)
(* cannot be had.                                                           *)
LEMMA RefusedAtFirst ==
    ASSUME TypeOK, AddsInv, DestroyInv, Matched, NEW s \in Session, RefusedCall(s),
           ~Strands(s)
    PROVE  GiveUp(s) /\ cmd[s] # "none" /\ Exactly(recorded)
<1>1. Orderly(s) /\ ~errs[s] /\ Swept(s)
  BY DEF Matched, DestroyInv
<1>2. CASE Refused(s) /\ GiveUp(s)
  <2>1. cmd[s] \in Adding
    BY <1>2, ByPC DEF Refused, AddingPC
  <2>2. ~Grows(s)
    BY <1>1, <1>2, <2>1, GrowsUnrefused DEF Orderly
  <2>3. Doomed(s)
    BY <1>1, <2>1, <2>2 DEF Orderly
  <2> QED
    BY <1>2, <2>3 DEF Doomed
<1>3. CASE Rejected(s) /\ GiveUp(s)
  <2>1. BadCluster(s) /\ cmd[s] = "create"
    BY <1>3 DEF Rejected, Strands, BadCluster
  <2>2. CASE Doomed(s)
    BY <1>3, <2>1, <2>2 DEF Doomed
  <2>3. CASE Grows(s)
    <3>1. recorded = {} /\ Base(s) = {}
      BY <2>1, <2>3 DEF Grows, Base
    <3>2. Done(s) = {} /\ Claimed(s) = {} /\ Launching(s) = {}
      <4>1. CASE pc[s] = "etcdTLS"
        BY <4>1, ByStep DEF StepSets
      <4>2. CASE pc[s] = "volumes" /\ Members(plan[s]) = {} /\ todo[s] = K3sNodes(plan[s])
        <5>1. Done(s) = {} /\ Launching(s) = {}
                /\ Claimed(s) = {n \in plan[s] \ todo[s] : HasVolume(n)}
          BY <4>2, ByStep DEF StepSets
        <5>2. \A n \in plan[s] : HasVolume(n) => n \in K3sNodes(plan[s])
          BY <4>2 DEF TypeOK, Node, Role, HasVolume, K3sNodes, Servers, Agents, Members
        <5> QED
          BY <4>2, <5>1, <5>2
      <4> QED
        BY <2>1, <4>1, <4>2 DEF BadCluster
    <3>3. Exactly({})
      BY <2>3, <3>1, <3>2 DEF Grows, Up, Exactly, Gone
    <3> QED
      BY <1>3, <2>1, <3>1, <3>3
  <2> QED
    BY <1>1, <2>1, <2>2, <2>3 DEF Orderly, Adding
<1>4. ASSUME NEW n \in Turn(s), StillRunning(s, n) \/ StillMounted(s, n)
      PROVE  FALSE
  <2>1. n \in Node
    BY TurnSubset
  <2>2. /\ pc[s] \in {"remove", "sweepRemove", "volume"} => n \in at[s]
        /\ pc[s] \in {"remove", "sweepRemove", "volume", "sweepVolume"}
    BY <1>4 DEF Turn, StillRunning, StillMounted
  <2>3. cmd[s] \in {"removeNode", "destroy"}
    BY <2>2, ByPC DEF AddingPC, Teardown
  <2>4. CASE cmd[s] = "removeNode"
    <3>1. Shrinks(s)
      BY <1>1, <2>4 DEF Orderly
    <3> QED
      BY <1>4, <2>2, <3>1 DEF Shrinks, StillRunning, StillMounted
  <2>5. CASE cmd[s] = "destroy"
    <3>1. Clears(s)
      BY <1>1, <2>5 DEF Orderly
    <3> QED
      BY <1>1, <1>4, <2>1, <2>2, <3>1 DEF Clears, Swept, StillRunning, StillMounted
  <2> QED
    BY <2>3, <2>4, <2>5
<1>5. ~StillAttached(s)
  BY <1>1 DEF StillAttached, Swept
<1> QED
  BY <1>2, <1>4, <1>5, <1>3 DEF RefusedCall

(* It ends where it found things.                                           *)
LEMMA MatchedRefused ==
    ASSUME NoOverlap, TypeOK, AddsInv, DestroyInv, SoloInv, Matched, NEW s \in Session,
           RefusedCall(s), ~Strands(s), Step(s)
    PROVE  Matched'
<1>1. GiveUp(s) /\ Exactly(recorded)
  BY RefusedAtFirst
<1>2. End(s) /\ UNCHANGED <<ctr, vol, disk, recorded>>
  BY <1>1 DEF GiveUp, runtime
<1>3. Exactly(recorded)' /\ (disk = "ok" \/ recorded # {} => Rooted(recorded))'
  BY <1>1, <1>2 DEF Matched, Exactly, Stands, Gone, Rooted, Managed
<1> QED
  BY <1>2, <1>3, Ends

(* A step that changes nothing.                                             *)
LEMMA MatchedStill ==
    ASSUME UNCHANGED vars
    PROVE  Matched' = Matched
<1>1. \A s \in Session : Done(s)' = Done(s) /\ Claimed(s)' = Claimed(s) /\ Turn(s)' = Turn(s)
  BY SameSets DEF vars, Same, Turn
<1>2. \A s \in Session : Launching(s)' = Launching(s) /\ Base(s)' = Base(s)
  BY <1>1 DEF vars, dir, Launching, Base
<1>3. \A s \in Session : Up(s)' = Up(s)
  BY <1>1, <1>2 DEF Up
<1>4. UNCHANGED <<ctr, vol, disk, recorded, cmd, pc, plan, todo, at, mem, errs, faults>>
  BY DEF vars, runtime, dir
<1>5. Exactly(recorded)' = Exactly(recorded)
  BY <1>4 DEF Exactly, Stands, Gone
<1>6. Rooted(recorded)' = Rooted(recorded)
  BY <1>4 DEF Rooted, Managed
<1>7. ASSUME NEW s \in Session
      PROVE  /\ Grows(s)' = Grows(s) /\ Doomed(s)' = Doomed(s)
             /\ Shrinks(s)' = Shrinks(s) /\ Clears(s)' = Clears(s)
  <2>1. Grows(s)' = Grows(s)
    BY <1>1, <1>2, <1>3, <1>4 DEF Grows, Stands
  <2>2. Doomed(s)' = Doomed(s)
    BY <1>4, <1>5 DEF Doomed
  <2>3. Shrinks(s)' = Shrinks(s)
    BY <1>4 DEF Shrinks, Stands, Gone, Agents
  <2>4. Clears(s)' = Clears(s)
    BY <1>4 DEF Clears
  <2> QED
    BY <2>1, <2>2, <2>3, <2>4
<1> QED
  BY <1>4, <1>5, <1>6, <1>7 DEF Matched, Orderly

(* A step in which nothing fails by itself and nothing is rejected late     *)
(* keeps the record and the host in step.                                   *)
LEMMA MatchedStep ==
    ASSUME NoOverlap, OneShape, TypeOK, AddsInv, DestroyInv, SoloInv, Matched,
           NEW s \in Session, Begin(s) \/ Work(s), ~Strands(s)
    PROVE  Matched'
<1>1. Step(s)
  BY DEF Step
<1> QED
  BY <1>1, MatchedBegin, MatchedBringUp, MatchedTeardown, MatchedRefused DEF Work
=============================================================================
