----------------------------- MODULE RecordProofs -----------------------------
(***************************************************************************)
(* What a Destroy without errors leaves behind, beside commands that add   *)
(* nodes; and, of commands that run one at a time, that state.json says    *)
(* what is on the host.  For every index bound and every set of clusters.  *)
(***************************************************************************)
EXTENDS RecordInv, AddsProofs

(* A bring-up goes from one of its steps to another, or ends.               *)
LEMMA BringUpEnters ==
    ASSUME TypeOK, NEW s \in Session, BringUpStep(s)
    PROVE  \/ End(s)
           \/ /\ \E p \in AddingPC : \E S : Enter(s, p, S)
              /\ UNCHANGED <<cmd, plan, errs>>
              /\ \A t \in Session \ {s} : mem'[t] = mem[t]
<1> DEFINE Enters == \E p \in AddingPC : \E S : Enter(s, p, S)
           Frame == UNCHANGED <<cmd, plan, errs>> /\ \A t \in Session \ {s} : mem'[t] = mem[t]
<1>1. CASE EnsureNetwork(s)
  <2>1. Enters
    BY <1>1 DEF EnsureNetwork, AddingPC
  <2>2. Frame
    BY <1>1 DEF EnsureNetwork
  <2> QED
    BY <2>1, <2>2
<1>2. CASE DeliverEtcdTLS(s)
  <2>1. Enters
    BY <1>2 DEF DeliverEtcdTLS, AddingPC
  <2>2. Frame
    BY <1>2 DEF DeliverEtcdTLS
  <2> QED
    BY <2>1, <2>2
<1>3. CASE CreateVolume(s)
  <2>1. Enters
    BY <1>3 DEF CreateVolume, AddingPC
  <2>2. Frame
    BY <1>3 DEF CreateVolume
  <2> QED
    BY <2>1, <2>2
<1>4. CASE LaunchMember(s)
  <2>1. Enters
    BY <1>4 DEF LaunchMember, AddingPC
  <2>2. Frame
    BY <1>4 DEF LaunchMember, TypeOK
  <2> QED
    BY <2>1, <2>2
<1>5. CASE EtcdReady(s)
  <2>1. Enters
    BY <1>5 DEF EtcdReady, AddingPC
  <2>2. Frame
    BY <1>5 DEF EtcdReady
  <2> QED
    BY <2>1, <2>2
<1>6. CASE LaunchNode(s)
  <2>1. Enters
    BY <1>6 DEF LaunchNode, AddingPC
  <2>2. Frame
    BY <1>6 DEF LaunchNode
  <2> QED
    BY <2>1, <2>2
<1>7. CASE ArmNode(s)
  <2>1. Enters
    BY <1>7 DEF ArmNode, AddingPC
  <2>2. Frame
    BY <1>7 DEF ArmNode, TypeOK
  <2> QED
    BY <2>1, <2>2
<1>8. CASE ConfigureLB(s)
  <2>1. Enters
    BY <1>8 DEF ConfigureLB, AddingPC
  <2>2. Frame
    BY <1>8 DEF ConfigureLB
  <2> QED
    BY <2>1, <2>2
<1>9. CASE StopLB(s)
  <2>1. Enters
    BY <1>9 DEF StopLB, AddingPC
  <2>2. Frame
    BY <1>9 DEF StopLB
  <2> QED
    BY <2>1, <2>2
<1>10. CASE StartLB(s)
  <2>1. Enters
    BY <1>10 DEF StartLB, AddingPC
  <2>2. Frame
    BY <1>10 DEF StartLB
  <2> QED
    BY <2>1, <2>2
<1> QED
  BY <1>1, <1>2, <1>3, <1>4, <1>5, <1>6, <1>7, <1>8, <1>9, <1>10 DEF BringUpStep, SaveState

(* A step of s is none of the others'.                                      *)
LEMMA StepSame ==
    ASSUME TypeOK, NEW s \in Session, Step(s)
    PROVE  \A t \in Session \ {s} : Same(t) /\ errs'[t] = errs[t]
<1> DEFINE Others == \A t \in Session \ {s} : Same(t) /\ errs'[t] = errs[t]
<1>1. ASSUME \E p, S : Enter(s, p, S), UNCHANGED <<cmd, plan, mem, errs>>
      PROVE  Others
  BY <1>1, EnterFrame DEF Same
<1>2. ASSUME \E n : AfterCall(s, n), UNCHANGED <<cmd, plan, mem>>,
             \A t \in Session \ {s} : errs'[t] = errs[t]
      PROVE  Others
  BY <1>2, AfterCallFrame DEF Same
<1>3. ASSUME End(s) PROVE Others
  <2>1. \A t \in Session \ {s} : errs'[t] = errs[t]
    BY <1>3 DEF End, TypeOK
  <2> QED
    BY <1>3, <2>1, EndFrame
<1>4. ASSUME \E c, p, work, P, known : Start(s, c, p, work, P, known) PROVE Others
  <2>1. errs' = errs
    BY <1>4 DEF Start
  <2> QED
    BY <1>4, <2>1, StartFrame
<1>5. ASSUME Collect(s) PROVE \A t \in Session \ {s} : errs'[t] = errs[t]
  BY <1>5 DEF Collect, TypeOK
<1>6. CASE Begin(s)
  BY <1>4, <1>6 DEF Begin, StartCreate, StartAddAgents, StartAddServer, StartRemoveNode,
     StartDestroy
<1>7. CASE BringUpStep(s)
  BY <1>3, <1>7, BringUpEnters, EnterFrame DEF Same
<1>8. CASE TeardownStep(s)
  BY <1>1, <1>2, <1>3, <1>8 DEF TeardownStep, StopNode, RemoveContainer, DeleteVolume,
     ListContainers, ListVolumes, DeleteNetwork, RemoveDir
<1>9. ASSUME NEW n, CollectOf(s, n) PROVE Others
  BY <1>2, <1>5, <1>9 DEF CollectOf, Collect
<1>10. ASSUME CollectOfList(s) PROVE Others
  <2>1. \E p, S : Enter(s, p, S)
    BY <1>10 DEF CollectOfList
  <2> QED
    BY <1>5, <1>10, <2>1, EnterFrame DEF CollectOfList, Collect, Same
<1>11. CASE RefusedCall(s) \/ Fault(s)
  BY <1>3, <1>9, <1>10, <1>11 DEF RefusedCall, Fault, GiveUp, Die, DieInSave
<1> QED
  BY <1>6, <1>7, <1>8, <1>11 DEF Step, Work

(* A session that is idle can do no more than start a command.              *)
LEMMA IdleBegins ==
    ASSUME TypeOK, AddsInv, NEW s \in Session, Step(s), cmd[s] = "none"
    PROVE  Begin(s)
<1>1. pc[s] = "idle"
  BY DEF AddsInv, SessionInv, Shape
<1>2. ~BringUpStep(s)
  BY <1>1 DEF BringUpStep, EnsureNetwork, DeliverEtcdTLS, CreateVolume,
     LaunchMember, EtcdReady, LaunchNode, ArmNode, ConfigureLB, StopLB, StartLB, SaveState
<1>3. ~TeardownStep(s)
  BY <1>1 DEF TeardownStep, StopNode, RemoveContainer, DeleteVolume,
     ListContainers, ListVolumes, DeleteNetwork, RemoveDir
<1>4. ~RefusedCall(s)
  BY <1>1 DEF RefusedCall, GiveUp, CollectOf, CollectOfList, Collect
<1>5. ~Fault(s)
  BY <1>1 DEF Fault, CollectOf, CollectOfList, Collect, Die, DieInSave
<1> QED
  BY <1>2, <1>3, <1>4, <1>5 DEF Step, Work

(* While a command tears down, no other session moves.                      *)
LEMMA TeardownAlone ==
    ASSUME TypeOK, AddsInv, OnlyAddsOverlap, NEW s \in Session, Step(s),
           NEW t \in Session \ {s}
    PROVE  cmd[t] \notin Teardown
<1> SUFFICES ASSUME cmd[t] \in Teardown PROVE FALSE
  OBVIOUS
<1>1. cmd[s] = "none" /\ cmd[t] # "none"
  BY DEF AddsInv, Alone, Teardown
<1>2. PICK c, p, work, P, known : Start(s, c, p, work, P, known)
  BY <1>1, IdleBegins DEF Begin, StartCreate, StartAddAgents, StartAddServer,
     StartRemoveNode, StartDestroy
<1>3. cmd[t] \in Adding
  BY <1>1, <1>2 DEF Start, OnlyAddsOverlap
<1> QED
  BY <1>3 DEF Adding, Teardown

-----------------------------------------------------------------------------
(* Destroy *)

(* The next call of a teardown, after one that took from the host what its  *)
(* loop is then done with, or has reported an error.                        *)
LEMMA SweptAfterCall ==
    ASSUME TypeOK, AddsInv, NEW s \in Session, Swept(s), NEW n, AfterCall(s, n),
           cmd' = cmd,
           ~errs'[s] =>
              /\ ~errs[s]
              /\ \A m \in Node : ctr'[m] # "absent" => ctr[m] # "absent"
              /\ \A m \in Node : vol'[m] # "absent" => vol[m] # "absent"
              /\ pc[s] = "sweepRemove" => \A m \in Node : ctr'[m] # "absent" => m # n
              /\ pc[s] = "sweepVolume" => \A m \in Node : vol'[m] # "absent" => m # n
    PROVE  Swept(s)'
<1>1. CASE pc[s] \in {"stop", "remove", "volume"}
  <2>1. cmd[s] \in Teardown
    BY <1>1, ByPC DEF AddingPC
  <2>2. pc'[s] \in {"remove", "volume", "stop", "save"}
          \/ (pc'[s] = "listContainers" /\ cmd[s] = "destroy")
    BY <1>1, <2>1, StayFrame, EnterFrame DEF AfterCall, NodeDone, NextInLoop, Teardown
  <2> QED
    BY <2>2 DEF Swept, SweepPC
<1>2. CASE pc[s] = "sweepStop"
  <2>1. Stay(s, "sweepRemove", n)
    BY <1>2 DEF AfterCall
  <2>2. pc'[s] = "sweepRemove" /\ todo'[s] = todo[s]
    BY <2>1, StayFrame DEF Stay
  <2> QED
    BY <1>2, <2>2 DEF Swept, SweepPC
<1>3. CASE pc[s] = "sweepRemove"
  <2>1. \/ todo[s] = {n} /\ pc'[s] = "listVolumes"
        \/ pc'[s] = "sweepStop" /\ todo'[s] = todo[s] \ {n}
    BY <1>3, EnterFrame DEF AfterCall, NextInLoop
  <2> QED
    BY <1>3, <2>1 DEF Swept, SweepPC
<1>4. CASE pc[s] = "sweepVolume"
  <2>1. \/ todo[s] = {n} /\ pc'[s] = "deleteNetwork"
        \/ pc'[s] = "sweepVolume" /\ todo'[s] = todo[s] \ {n}
    BY <1>4, EnterFrame DEF AfterCall, NextInLoop
  <2> QED
    BY <1>4, <2>1 DEF Swept, SweepPC
<1> QED
  BY <1>1, <1>2, <1>3, <1>4 DEF AfterCall

(* The steps of a teardown.                                                 *)
LEMMA SweptTeardown ==
    ASSUME TypeOK, AddsInv, NEW s \in Session, Swept(s), TeardownStep(s)
    PROVE  Swept(s)'
<1>1. CASE StopNode(s)
  <2>1. PICK n \in Turn(s) :
          /\ ctr' = IF ctr[n] = "running" THEN [ctr EXCEPT ![n] = "stopped"] ELSE ctr
          /\ AfterCall(s, n)
    BY <1>1 DEF StopNode
  <2>2. \A m \in Node : ctr'[m] # "absent" => ctr[m] # "absent"
    BY <2>1 DEF TypeOK
  <2>3. pc[s] \notin {"sweepRemove", "sweepVolume"}
    BY <1>1 DEF StopNode
  <2> QED
    BY <1>1, <2>1, <2>2, <2>3, SweptAfterCall DEF StopNode
<1>2. CASE RemoveContainer(s)
  <2>1. PICK n \in Turn(s) : ctr' = [ctr EXCEPT ![n] = "absent"] /\ AfterCall(s, n)
    BY <1>2 DEF RemoveContainer
  <2>2. \A m \in Node : ctr'[m] # "absent" => ctr[m] # "absent" /\ m # n
    BY <2>1 DEF TypeOK
  <2>3. pc[s] # "sweepVolume"
    BY <1>2 DEF RemoveContainer
  <2> QED
    BY <1>2, <2>1, <2>2, <2>3, SweptAfterCall DEF RemoveContainer
<1>3. CASE DeleteVolume(s)
  <2>1. PICK n \in Turn(s) : vol' = [vol EXCEPT ![n] = "absent"] /\ AfterCall(s, n)
    BY <1>3 DEF DeleteVolume
  <2>2. \A m \in Node : vol'[m] # "absent" => vol[m] # "absent" /\ m # n
    BY <2>1 DEF TypeOK
  <2>3. pc[s] # "sweepRemove"
    BY <1>3 DEF DeleteVolume
  <2> QED
    BY <1>3, <2>1, <2>2, <2>3, SweptAfterCall DEF DeleteVolume
<1>4. CASE ListContainers(s)
  <2> DEFINE labelled == {n \in Node : ctr[n] # "absent"}
  <2>1. /\ UNCHANGED <<ctr, cmd, errs>> /\ cmd[s] = "destroy"
        /\ \/ labelled = {} /\ pc'[s] = "listVolumes"
           \/ pc'[s] = "sweepStop" /\ todo'[s] = labelled
    BY <1>4, EnterFrame DEF ListContainers, runtime, Swept, SweepPC
  <2> QED
    BY <2>1 DEF Swept
<1>5. CASE ListVolumes(s)
  <2> DEFINE labelled == {n \in Node : vol[n] # "absent"}
  <2>1. /\ UNCHANGED <<ctr, vol, cmd, errs>> /\ cmd[s] = "destroy" /\ pc[s] = "listVolumes"
        /\ \/ labelled = {} /\ pc'[s] = "deleteNetwork"
           \/ pc'[s] = "sweepVolume" /\ todo'[s] = labelled
    BY <1>5, EnterFrame DEF ListVolumes, runtime, Swept, SweepPC
  <2> QED
    BY <2>1 DEF Swept
<1>6. CASE DeleteNetwork(s)
  <2>1. UNCHANGED <<ctr, vol, cmd, errs>> /\ pc[s] = "deleteNetwork" /\ pc'[s] = "removeDir"
    BY <1>6, EnterFrame DEF DeleteNetwork
  <2> QED
    BY <2>1 DEF Swept, SweepPC
<1>7. CASE RemoveDir(s)
  <2>1. pc'[s] = "idle"
    BY <1>7, EndFrame DEF RemoveDir
  <2> QED
    BY <2>1 DEF Swept, SweepPC
<1> QED
  BY <1>1, <1>2, <1>3, <1>4, <1>5, <1>6, <1>7 DEF TeardownStep

(* A step of a session keeps its part of the invariant.                     *)
LEMMA SweptStep ==
    ASSUME TypeOK, AddsInv, NEW s \in Session, Swept(s), Step(s)
    PROVE  Swept(s)'
<1>1. ASSUME pc'[s] \notin SweepPC PROVE Swept(s)'
  BY <1>1 DEF Swept, SweepPC
<1>2. ASSUME End(s) PROVE Swept(s)'
  BY <1>1, <1>2, EndFrame DEF SweepPC
<1>3. CASE Begin(s)
  <2>1. PICK c, p, work, P, known : /\ Start(s, c, p, work, P, known)
                                    /\ \/ p \in {"network", "volumes", "stop"}
                                       \/ p = "listContainers" /\ c = "destroy"
    BY <1>3 DEF Begin, StartCreate, StartAddAgents, StartAddServer,
     StartRemoveNode, StartDestroy
  <2>2. pc'[s] = p /\ cmd'[s] = c
    BY <2>1, StartFrame
  <2> QED
    BY <2>1, <2>2 DEF Swept, SweepPC
<1>4. CASE BringUpStep(s)
  <2>1. End(s) \/ \E p \in AddingPC : \E S : Enter(s, p, S)
    BY <1>4, BringUpEnters
  <2> QED
    BY <1>1, <1>2, <2>1, EnterFrame DEF SweepPC, AddingPC
<1>5. CASE TeardownStep(s)
  BY <1>5, SweptTeardown
<1>6. ASSUME NEW n, CollectOf(s, n) PROVE Swept(s)'
  <2>1. errs'[s] = TRUE
    BY <1>6 DEF CollectOf, Collect, TypeOK
  <2> QED
    BY <1>6, <2>1, SweptAfterCall DEF CollectOf, Collect
<1>7. ASSUME CollectOfList(s) PROVE Swept(s)'
  <2>1. errs'[s] = TRUE /\ cmd'[s] = "destroy"
    BY <1>7 DEF CollectOfList, Collect, TypeOK
  <2> QED
    BY <2>1 DEF Swept
<1>8. CASE RefusedCall(s) \/ Fault(s)
  BY <1>2, <1>6, <1>7, <1>8 DEF RefusedCall, Fault, GiveUp, Die, DieInSave
<1> QED
  BY <1>3, <1>4, <1>5, <1>8 DEF Step, Work

(* Every step keeps what Destroy knows of the host.                         *)
LEMMA NextDestroy ==
    ASSUME OnlyAddsOverlap, TypeOK, AddsInv, DestroyInv, [Next]_vars
    PROVE  DestroyInv'
<1>1. CASE UNCHANGED vars
  BY <1>1 DEF vars, runtime, DestroyInv, Swept
<1>2. ASSUME NEW s \in Session, Step(s) PROVE DestroyInv'
  <2>1. Swept(s)'
    BY <1>2, SweptStep DEF DestroyInv
  <2>2. ASSUME NEW t \in Session \ {s} PROVE Swept(t)'
    <3>1. cmd[t] # "destroy" /\ Same(t)
      BY <1>2, TeardownAlone, StepSame DEF Teardown
    <3>2. pc[t] \notin SweepPC
      BY <3>1 DEF DestroyInv, Swept
    <3> QED
      BY <3>1, <3>2 DEF Same, Swept, SweepPC
  <2> QED
    BY <2>1, <2>2 DEF DestroyInv
<1> QED
  BY <1>1, <1>2 DEF Next, Step

(* What Destroy knows of the host at each of its steps is so, whatever      *)
(* commands have left and whatever adds nodes when no Destroy runs.         *)
THEOREM DestroyInvariant ==
    ASSUME OnlyAddsOverlap
    PROVE  Spec => []DestroyInv
<1>1. Init => DestroyInv
  BY DEF Init, DestroyInv, Swept, SweepPC
<1>2. TypeOK /\ AddsInv /\ DestroyInv /\ [Next]_vars => DestroyInv'
  BY NextDestroy
<1> QED
  BY <1>1, <1>2, AddsInvariant, PTL DEF Spec

(* The second pass of Destroy misses no container and no volume without     *)
(* reporting so, whatever commands have left and whatever adds nodes when   *)
(* no Destroy runs.                                                         *)
THEOREM DestroyIsComplete ==
    ASSUME OnlyAddsOverlap
    PROVE  Spec => []DestroyLeavesNothing
<1>1. DestroyInv => DestroyLeavesNothing
  BY DEF DestroyInv, Swept, DestroyLeavesNothing, NothingLeft
<1> QED
  BY <1>1, DestroyInvariant, PTL

-----------------------------------------------------------------------------
(* What is recorded is up *)

(* A node with a volume is taken down by a teardown only.                   *)
LEMMA StaysUp ==
    ASSUME TypeOK, NEW s \in Session, Step(s), ~TeardownStep(s),
           NEW n \in Node, HasVolume(n), ctr[n] = "running"
    PROVE  ctr'[n] = "running"
<1>1. n # TheLB
  BY DEF HasVolume, TheLB
<1>2. CASE BringUpStep(s)
  BY <1>1, <1>2 DEF BringUpStep, EnsureNetwork, DeliverEtcdTLS, CreateVolume, LaunchMember,
     EtcdReady, LaunchNode, ArmNode, ConfigureLB, StopLB, StartLB, SaveState, runtime, TypeOK
<1>3. CASE Begin(s)
  BY <1>3 DEF Begin, StartCreate, StartAddAgents, StartAddServer, StartRemoveNode,
     StartDestroy, Start, runtime
<1>4. CASE RefusedCall(s) \/ Fault(s)
  BY <1>4 DEF RefusedCall, Fault, GiveUp, CollectOf, CollectOfList, Collect, Die, DieInSave,
     runtime
<1> QED
  BY <1>2, <1>3, <1>4 DEF Step, Work

(* A bring-up counts as done what it has seen up.                           *)
LEMMA DoneIsUp ==
    ASSUME TypeOK, NEW s \in Session, BringUpStep(s), ~SaveState(s)
    PROVE  \A n \in mem'[s] : n \in mem[s] \/ ctr'[n] = "running"
<1>1. CASE LaunchMember(s)
  <2>1. PICK n \in Turn(s) :
          /\ ctr' = [ctr EXCEPT ![n] = "running"]
          /\ mem' = [mem EXCEPT ![s] = @ \cup {n}]
    BY <1>1 DEF LaunchMember
  <2>2. n \in Node
    BY <2>1, TurnSubset
  <2> QED
    BY <2>1, <2>2 DEF TypeOK
<1>2. CASE ArmNode(s)
  BY <1>2 DEF ArmNode, TypeOK
<1>3. CASE ~LaunchMember(s) /\ ~ArmNode(s)
  <2>1. mem' = mem
    BY <1>3 DEF BringUpStep, EnsureNetwork, DeliverEtcdTLS, CreateVolume, EtcdReady,
       LaunchNode, ConfigureLB, StopLB, StartLB
  <2> QED
    BY <2>1
<1> QED
  BY <1>1, <1>2, <1>3

(* RemoveNode goes from one call to the next and comes to its save.         *)
LEMMA SparesStep ==
    ASSUME TypeOK, NEW s \in Session, cmd[s] = "removeNode", Spares(s), TeardownStep(s)
    PROVE  Spares(s)'
<1>1. StopNode(s) \/ RemoveContainer(s) \/ DeleteVolume(s)
  BY DEF TeardownStep, Spares, ListContainers, ListVolumes, DeleteNetwork, RemoveDir
<1>2. UNCHANGED <<cmd, plan, mem, recorded>>
  BY <1>1 DEF StopNode, RemoveContainer, DeleteVolume, dir
<1>3. PICK n \in Turn(s) :
        /\ AfterCall(s, n)
        /\ \A m \in Node \ {n} : ctr'[m] = ctr[m]
        /\ pc[s] = "stop" => ctr'[n] # "running"
        /\ pc[s] = "remove" => ctr'[n] = "absent"
  <2>1. CASE StopNode(s)
    BY <2>1, TurnSubset DEF StopNode, TypeOK
  <2>2. CASE RemoveContainer(s)
    BY <2>2, TurnSubset DEF RemoveContainer, TypeOK
  <2>3. CASE DeleteVolume(s)
    BY <2>3 DEF DeleteVolume
  <2> QED
    BY <1>1, <2>1, <2>2, <2>3
<1>4. pc[s] \in {"stop", "remove", "volume"}
  BY <1>1 DEF Spares, StopNode, RemoveContainer, DeleteVolume
<1>5. n \in plan[s] /\ todo[s] \subseteq plan[s]
  BY <1>3, <1>4 DEF Spares, Turn
<1>6. Live(recorded \ plan[s])'
  BY <1>2, <1>3, <1>5 DEF Spares, Live, TypeOK
<1>7. \/ pc[s] = "stop" /\ pc'[s] = "remove" /\ at'[s] = {n} /\ todo'[s] = todo[s]
      \/ pc[s] = "remove" /\ pc'[s] = "volume" /\ at'[s] = {n} /\ todo'[s] = todo[s]
      \/ pc'[s] = "stop" /\ todo'[s] \subseteq todo[s]
      \/ pc'[s] = "save"
  BY <1>3, <1>4, StayFrame, EnterFrame DEF AfterCall, NodeDone, NextInLoop, Stay, TypeOK
<1> QED
  BY <1>2, <1>3, <1>5, <1>6, <1>7 DEF Spares

(* It is not refused.                                                       *)
LEMMA SparesUnrefused ==
    ASSUME NEW s \in Session, cmd[s] = "removeNode", Spares(s)
    PROVE  ~RefusedCall(s)
<1>1. ~Refused(s) /\ ~StillAttached(s)
  BY DEF Spares, Refused, StillAttached
<1>2. \A n \in Turn(s) : ~StillRunning(s, n) /\ ~StillMounted(s, n)
  BY DEF Spares, StillRunning, StillMounted, Turn
<1>3. ~Rejected(s)
  BY DEF Rejected, BadCluster, BadManifest, SameAddress
<1> QED
  BY <1>1, <1>2, <1>3 DEF RefusedCall

(* The start of a command.                                                  *)
LEMMA BeginLive ==
    ASSUME OnlyAddsOverlap, TypeOK, AddsInv, LiveInv, NEW s \in Session, Begin(s)
    PROVE  LiveInv'
<1>1. Step(s)
  BY DEF Step
<1>2. \A t \in Session \ {s} :
         /\ cmd[t] \notin Teardown /\ cmd'[t] = cmd[t] /\ mem'[t] = mem[t]
  BY <1>1, StepSame, TeardownAlone DEF Same
<1>3. ASSUME NEW c, NEW p, NEW work, NEW P, NEW known, Start(s, c, p, work, P, known),
             c \in Adding => known \in {{}, recorded},
             c = "removeNode" => known = recorded /\ p = "stop" /\ work = P
      PROVE  LiveInv'
  <2>1. /\ cmd[s] = "none" /\ UNCHANGED <<recorded, ctr>>
        /\ cmd'[s] = c /\ pc'[s] = p /\ todo'[s] = work /\ plan'[s] = P /\ mem'[s] = known
    BY <1>3, StartFrame DEF Start, runtime, dir
  <2>2. Live(recorded)
    BY <1>2, <2>1 DEF LiveInv, Teardown
  <2>3. Live(recorded)'
    BY <2>1, <2>2 DEF Live
  <2>4. ASSUME NEW t \in Session, cmd'[t] \in Adding PROVE Live(mem[t])'
    <3>1. Live(mem'[t])
      <4>1. CASE t = s
        BY <1>3, <2>1, <2>2, <2>4, <4>1 DEF Live
      <4>2. CASE t # s
        BY <1>2, <2>4, <4>2 DEF LiveInv
      <4> QED
        BY <4>1, <4>2
    <3> QED
      BY <2>1, <3>1 DEF Live
  <2>5. ASSUME NEW t \in Session, cmd'[t] = "removeNode" PROVE Spares(t)'
    <3>1. t = s /\ c = "removeNode"
      BY <1>2, <2>1, <2>5 DEF Teardown
    <3> QED
      BY <1>3, <2>1, <2>2, <3>1 DEF Spares, Live
  <2> QED
    BY <2>3, <2>4, <2>5 DEF LiveInv
<1>4. CASE StartCreate(s)
  BY <1>3, <1>4 DEF StartCreate
<1>5. CASE StartAddAgents(s) \/ StartAddServer(s)
  BY <1>3, <1>5 DEF StartAddAgents, StartAddServer
<1>6. CASE StartRemoveNode(s)
  BY <1>3, <1>6 DEF StartRemoveNode, Adding
<1>7. CASE StartDestroy(s)
  BY <1>3, <1>7 DEF StartDestroy, Adding
<1> QED
  BY <1>4, <1>5, <1>6, <1>7 DEF Begin

(* Every step in which nothing fails by itself.                             *)
LEMMA StepLive ==
    ASSUME OnlyAddsOverlap, TypeOK, AddsInv, LiveInv, NEW s \in Session, Step(s), ~Fault(s)
    PROVE  LiveInv'
<1>1. \A t \in Session \ {s} :
         /\ cmd[t] \notin Teardown /\ cmd'[t] = cmd[t] /\ mem'[t] = mem[t]
  BY StepSame, TeardownAlone DEF Same
<1>2. \A t \in Session : mem[t] \subseteq Node
  BY DEF TypeOK
<1>3. CASE Begin(s)
  BY <1>3, BeginLive
<1>4. ASSUME ~TeardownStep(s), NEW S \in SUBSET Node, Live(S)
      PROVE  \A n \in S : HasVolume(n) => ctr'[n] = "running"
  BY <1>4, StaysUp DEF Live
<1>5. CASE BringUpStep(s) /\ ~SaveState(s)
  <2>1. pc[s] \in AddingPC \ {"save"}
    BY <1>5 DEF BringUpStep, EnsureNetwork, DeliverEtcdTLS, CreateVolume, LaunchMember,
       EtcdReady, LaunchNode, ArmNode, ConfigureLB, StopLB, StartLB, AddingPC
  <2>2. cmd[s] \in Adding /\ cmd[s] \notin Teardown
    BY <2>1, ByPC
  <2>3. recorded' = recorded /\ cmd' = cmd
    BY <1>5 DEF BringUpStep, EnsureNetwork, DeliverEtcdTLS, CreateVolume, LaunchMember,
       EtcdReady, LaunchNode, ArmNode, ConfigureLB, StopLB, StartLB, dir
  <2>4. ~TeardownStep(s)
    BY <2>1 DEF TeardownStep, StopNode, RemoveContainer, DeleteVolume, ListContainers,
       ListVolumes, DeleteNetwork, RemoveDir, AddingPC
  <2>5. Live(recorded)'
    <3>1. Live(recorded) /\ recorded \in SUBSET Node
      BY <1>1, <2>2 DEF LiveInv, TypeOK
    <3> QED
      BY <1>4, <2>3, <2>4, <3>1 DEF Live
  <2>6. ASSUME NEW t \in Session, cmd'[t] \in Adding PROVE Live(mem[t])'
    <3>1. Live(mem[t]) /\ mem[t] \in SUBSET Node
      BY <1>2, <2>3, <2>6 DEF LiveInv
    <3>2. \A n \in mem[t] : HasVolume(n) => ctr'[n] = "running"
      BY <1>4, <2>4, <3>1
    <3>3. CASE t # s
      BY <1>1, <3>2, <3>3 DEF Live
    <3>4. CASE t = s
      BY <1>5, <3>2, <3>4, DoneIsUp DEF Live
    <3> QED
      BY <3>3, <3>4
  <2>7. \A t \in Session : cmd'[t] # "removeNode"
    BY <1>1, <2>2, <2>3 DEF Teardown
  <2> QED
    BY <2>5, <2>6, <2>7 DEF LiveInv
<1>6. ASSUME UNCHANGED ctr, End(s), Live(recorded')
      PROVE  LiveInv'
  <2>1. cmd'[s] = "none"
    BY <1>6, EndFrame
  <2>2. \A t \in Session : cmd'[t] \in Adding => t # s /\ cmd[t] \in Adding /\ mem'[t] = mem[t]
    BY <1>1, <2>1 DEF Adding
  <2>3. \A t \in Session : cmd'[t] # "removeNode"
    BY <1>1, <2>1 DEF Teardown
  <2> QED
    BY <1>6, <2>2, <2>3 DEF LiveInv, Live
<1>7. CASE SaveState(s)
  <2>1. UNCHANGED ctr /\ End(s) /\ pc[s] = "save"
    BY <1>7 DEF SaveState, runtime
  <2>2. Live(recorded')
    <3>1. CASE cmd[s] = "removeNode"
      BY <1>7, <3>1 DEF LiveInv, Spares, SaveState
    <3>2. CASE cmd[s] \in Adding
      BY <1>7, <3>2 DEF LiveInv, SaveState, Adding
    <3> QED
      BY <2>1, <3>1, <3>2, ByPC
  <2> QED
    BY <1>6, <2>1, <2>2
<1>8. CASE TeardownStep(s) \/ (RefusedCall(s) /\ cmd[s] \notin Adding)
  <2>1. cmd[s] \in Teardown
    <3>1. CASE TeardownStep(s)
      <4>1. pc[s] \notin AddingPC \cup {"idle"}
        BY <3>1 DEF TeardownStep, StopNode, RemoveContainer, DeleteVolume, ListContainers,
           ListVolumes, DeleteNetwork, RemoveDir, AddingPC
      <4> QED
        BY <4>1, ByPC
    <3>2. CASE RefusedCall(s) /\ cmd[s] \notin Adding
      <4>1. cmd[s] # "none"
        BY <3>2 DEF RefusedCall, GiveUp, CollectOf, CollectOfList, Collect
      <4> QED
        BY <3>2, <4>1 DEF TypeOK, Command, Adding, Teardown
    <3> QED
      BY <1>8, <3>1, <3>2
  <2>2. \A t \in Session \ {s} : cmd'[t] = "none"
    BY <1>1, <2>1, ByPC
  <2>3. CASE RemoveDir(s)
    BY <1>6, <2>3 DEF RemoveDir, runtime, Live
  <2>4. CASE ~RemoveDir(s)
    <3>1. RefusedCall(s) => cmd[s] = "destroy"
      BY <2>1, SparesUnrefused DEF LiveInv, Teardown
    <3>2. cmd' = cmd
      BY <1>8, <2>4, <3>1 DEF TeardownStep, StopNode, RemoveContainer, DeleteVolume,
         ListContainers, ListVolumes, DeleteNetwork, RefusedCall, GiveUp, CollectOf,
         CollectOfList, Collect
    <3>3. cmd[s] = "removeNode" => Spares(s)'
      BY <1>8, <3>1, SparesStep DEF LiveInv
    <3>4. cmd[s] \notin Adding
      BY <2>1 DEF Adding, Teardown
    <3>5. \A t \in Session : cmd'[t] \in Adding \cup Teardown => t = s
      BY <2>2 DEF Adding, Teardown
    <3> QED
      BY <2>1, <3>2, <3>3, <3>4, <3>5 DEF LiveInv, Teardown
  <2> QED
    BY <2>3, <2>4
<1>9. CASE RefusedCall(s) /\ cmd[s] \in Adding
  <2>1. End(s) /\ UNCHANGED <<ctr, recorded>>
    BY <1>9 DEF RefusedCall, GiveUp, CollectOf, CollectOfList, Collect, Adding, runtime
  <2>2. Live(recorded)
    BY <1>1, <1>9, ByPC DEF LiveInv
  <2> QED
    BY <1>6, <2>1, <2>2
<1> QED
  BY <1>3, <1>5, <1>7, <1>8, <1>9 DEF Step, Work

(* As long as nothing fails by itself.                                      *)
THEOREM GhostsInvariant ==
    ASSUME OnlyAddsOverlap
    PROVE  Spec => []GhostsInv
<1>1. Init => GhostsInv
  BY DEF Init, GhostsInv, LiveInv, Live, Adding
<1>2. ASSUME TypeOK, AddsInv, GhostsInv, [Next]_vars PROVE GhostsInv'
  <2>1. CASE UNCHANGED vars
    BY <1>2, <2>1 DEF vars, runtime, dir, GhostsInv, LiveInv, Live, Spares
  <2>2. ASSUME NEW s \in Session, faults' = 0,
               Fault(s) \/ ((Begin(s) \/ Work(s)) /\ UNCHANGED faults)
        PROVE  LiveInv'
    <3>1. ~Fault(s) /\ faults = 0
      BY <1>2, <2>2 DEF Fault, TypeOK
    <3> QED
      BY <1>2, <2>2, <3>1, StepLive DEF Step, GhostsInv
  <2> QED
    BY <1>2, <2>1, <2>2 DEF Next, GhostsInv
<1> QED
  BY <1>1, <1>2, AddsInvariant, PTL DEF Spec

(* Of commands that add nodes at the same time none takes down what another *)
(* records, or records a node that is not running, whatever they overwrite  *)
(* of each other's state.json and however they are refused.                 *)
THEOREM NoGhostIsRecorded ==
    ASSUME OnlyAddsOverlap
    PROVE  Spec => []NoGhosts
<1>1. GhostsInv => NoGhosts
  <2> SUFFICES ASSUME GhostsInv, faults = 0, \A s \in Session : cmd[s] \in Adding \cup {"none"}
               PROVE  Live(recorded)
    BY DEF NoGhosts, Live
  <2>1. \A s \in Session : cmd[s] \notin Teardown
    BY DEF Adding, Teardown
  <2> QED
    BY <2>1 DEF GhostsInv, LiveInv
<1> QED
  BY <1>1, GhostsInvariant, PTL

-----------------------------------------------------------------------------
(* One command at a time: the load balancer *)

(* A step of a command that has begun leaves it running or ends it.         *)
LEMMA CommandKept ==
    ASSUME TypeOK, AddsInv, NEW s \in Session, Step(s), cmd[s] # "none"
    PROVE  cmd' = cmd \/ cmd'[s] = "none"
<1>1. ~Begin(s)
  BY DEF Begin, StartCreate, StartAddAgents, StartAddServer, StartRemoveNode,
     StartDestroy, Start
<1>2. CASE BringUpStep(s)
  BY <1>2, BringUpEnters, EndFrame
<1>3. CASE TeardownStep(s)
  BY <1>3, EndFrame DEF TeardownStep, StopNode, RemoveContainer, DeleteVolume,
     ListContainers, ListVolumes, DeleteNetwork, RemoveDir
<1>4. CASE RefusedCall(s) \/ Fault(s)
  BY <1>4, EndFrame DEF RefusedCall, Fault, GiveUp, CollectOf, CollectOfList, Collect,
     Die, DieInSave
<1> QED
  BY <1>1, <1>2, <1>3, <1>4 DEF Step, Work

(* The one that runs stays the only one.                                    *)
LEMMA SoloKept ==
    ASSUME NoOverlap, TypeOK, AddsInv, Solo, NEW s \in Session, Step(s)
    PROVE  Solo' /\ \A t \in Session \ {s} : cmd[t] = "none" /\ cmd'[t] = "none"
<1>1. \A t \in Session \ {s} : cmd'[t] = cmd[t]
  BY StepSame DEF Same
<1>2. \A t \in Session \ {s} : cmd[t] = "none"
  <2>1. CASE cmd[s] = "none"
    <3>1. PICK c, p, work, P, known : Start(s, c, p, work, P, known)
      BY <2>1, IdleBegins DEF Begin, StartCreate, StartAddAgents, StartAddServer,
         StartRemoveNode, StartDestroy
    <3> QED
      BY <3>1 DEF Start, NoOverlap
  <2> QED
    BY <2>1 DEF Solo
<1> QED
  BY <1>1, <1>2 DEF Solo

(* The turn of a bring-up is one node, of those the loop is not done with.   *)
LEMMA BringUpTurn ==
    ASSUME TypeOK, NEW s \in Session,
           pc[s] \in {"etcdVolumes", "etcdLaunch", "volumes", "launch", "arm"},
           NEW n \in Turn(s)
    PROVE  n \in todo[s] /\ n \in Node /\ Turn(s) = {n}
<1>1. Turn(s) = {m \in todo[s] : IsNext(m, todo[s])}
  BY DEF Turn
<1>2. todo[s] \in SUBSET Node
  BY DEF TypeOK
<1> QED
  BY <1>1, <1>2, IsNextUnique

(* A command that is idle or tears down asks nothing of the load balancer.  *)
LEMMA NoLB ==
    ASSUME NEW s \in Session, cmd'[s] \notin {"create", "addServer"}
    PROVE  LBInv(s)'
  BY DEF LBInv

(* A step of a bring-up that touches neither the nodes recorded nor a load   *)
(* balancer that runs.                                                       *)
LEMMA LBKeeps ==
    ASSUME TypeOK, AddsInv, NEW s \in Session, LBInv(s), cmd' = cmd, plan' = plan,
           mem'[s] \subseteq mem[s] \cup Members(plan[s]),
           UNCHANGED <<lbLive, lbDisk>>,
           ctr[TheLB] = "running" => ctr'[TheLB] = "running",
           pc'[s] \notin {"arm", "lbStop", "lbStart", "save"}
    PROVE  LBInv(s)'
<1>1. Launching(s)' = {}
  BY DEF Launching
<1>2. TheLB \notin Members(plan[s]) /\ Members(plan[s]) \subseteq plan[s]
  BY DEF Members, TheLB
<1> QED
  BY <1>1, <1>2 DEF LBInv, LBServes, Servers

(* Every step of a bring-up.                                                *)
LEMMA LBBringUp ==
    ASSUME TypeOK, AddsInv, NEW s \in Session, LBInv(s), BringUpStep(s)
    PROVE  LBInv(s)'
<1>0. pc[s] \in AddingPC \ {"save"} => cmd[s] \in Adding
  BY ByPC
<1>1. CASE EnsureNetwork(s)
  BY <1>1, LBKeeps, EnterFrame DEF EnsureNetwork, dir
<1>2. CASE DeliverEtcdTLS(s)
  BY <1>2, LBKeeps, EnterFrame DEF DeliverEtcdTLS
<1>3. CASE CreateVolume(s)
  <2>1. pc'[s] \in {"etcdVolumes", "etcdLaunch", "volumes", "launch"}
    BY <1>3, EnterFrame DEF CreateVolume
  <2> QED
    BY <1>3, <2>1, LBKeeps DEF CreateVolume, dir
<1>4. CASE LaunchMember(s)
  <2>1. PICK n \in Turn(s) :
          /\ ctr' = [ctr EXCEPT ![n] = "running"]
          /\ mem' = [mem EXCEPT ![s] = @ \cup {n}]
    BY <1>4 DEF LaunchMember
  <2>2. n \in Members(plan[s])
    BY <1>4, <2>1, BringUpTurn DEF LaunchMember, AddsInv, SessionInv, InPlan
  <2>3. pc'[s] \in {"etcdLaunch", "etcdReady"}
    BY <1>4, EnterFrame DEF LaunchMember
  <2>4. /\ mem'[s] \subseteq mem[s] \cup Members(plan[s])
        /\ ctr[TheLB] = "running" => ctr'[TheLB] = "running"
    BY <2>1, <2>2, TheLBIsNode DEF TypeOK
  <2> QED
    BY <1>4, <2>3, <2>4, LBKeeps DEF LaunchMember, dir
<1>5. CASE EtcdReady(s)
  BY <1>5, LBKeeps, EnterFrame DEF EtcdReady, dir, runtime
<1>6. CASE LaunchNode(s)
  <2>1. PICK n \in Turn(s) :
          /\ ctr' = [ctr EXCEPT ![n] = "running"]
          /\ lbLive' = IF n.role = "lb" THEN Servers(plan[s]) ELSE lbLive
    BY <1>6 DEF LaunchNode
  <2>2. Turn(s) = {n} /\ n \in Node
    BY <1>6, <2>1, BringUpTurn DEF LaunchNode
  <2>3. pc'[s] = "arm" /\ todo'[s] = todo[s] /\ cmd' = cmd /\ plan' = plan /\ mem' = mem
    BY <1>6, EnterFrame DEF LaunchNode
  <2>4. Launching(s)' = {n}
    BY <1>6, <2>2, <2>3 DEF Launching, Turn, LaunchNode
  <2>5. ASSUME cmd[s] = "create", TheLB \in mem[s] \cup {n} PROVE LBServes(plan[s])'
    <3>1. n = TheLB \/ LBServes(plan[s])
      BY <1>6, <2>5 DEF LBInv, Launching, LaunchNode
    <3>2. ctr'[TheLB] = "running"
      BY <2>1, <2>2, <3>1, TheLBIsNode DEF TypeOK, LBServes
    <3>3. Servers(plan[s]) \subseteq lbLive'
      BY <2>1, <3>1 DEF LBServes, TheLB
    <3> QED
      BY <2>3, <3>2, <3>3 DEF LBServes, Servers
  <2> QED
    BY <2>3, <2>4, <2>5 DEF LBInv
<1>7. CASE ArmNode(s)
  <2>1. PICK n \in Turn(s) :
          /\ mem' = [mem EXCEPT ![s] = @ \cup {n}]
          /\ IF todo[s] # {n} THEN Enter(s, "launch", todo[s] \ {n})
             ELSE Enter(s, IF cmd[s] = "addServer" THEN "lbConfig" ELSE "save", {})
    BY <1>7 DEF ArmNode
  <2>2. Launching(s) = {n} /\ n \in BringUp(plan[s])
    BY <1>7, <2>1, BringUpTurn
       DEF ArmNode, AddsInv, SessionInv, InPlan, Launching
  <2>3. /\ mem'[s] = mem[s] \cup {n} /\ cmd' = cmd /\ plan' = plan /\ lbLive' = lbLive
        /\ ctr' = ctr
    BY <1>7, <2>1 DEF ArmNode, TypeOK
  <2>4. \/ pc'[s] = "launch"
        \/ pc'[s] = "lbConfig"
        \/ pc'[s] = "save" /\ cmd[s] # "addServer"
    BY <2>1, EnterFrame
  <2>5. Launching(s)' = {}
    BY <2>4 DEF Launching
  <2>6. n \in plan[s]
    BY <2>2 DEF BringUp
  <2> QED
    BY <2>2, <2>3, <2>4, <2>5, <2>6 DEF LBInv, LBServes, Servers
<1>8. ASSUME pc[s] \in LBPC, pc'[s] \in {"lbStop", "lbStart", "save"}, cmd' = cmd,
             mem' = mem,
             pc'[s] \in {"lbStop", "lbStart"} => lbDisk' = Servers(mem[s]),
             pc'[s] = "save" => ctr'[TheLB] = "running" /\ Servers(mem[s]) \subseteq lbLive'
      PROVE  LBInv(s)'
  <2>1. cmd[s] # "create"
    BY <1>8 DEF AddsInv, SessionInv, Shape
  <2> QED
    BY <1>8, <2>1 DEF LBInv, LBServes, Servers
<1>9. CASE ConfigureLB(s)
  <2>1. pc'[s] = "lbStop"
    BY <1>9, EnterFrame DEF ConfigureLB
  <2> QED
    BY <1>8, <1>9, <2>1 DEF ConfigureLB, LBPC
<1>10. CASE StopLB(s)
  <2>1. pc'[s] = "lbStart"
    BY <1>10, EnterFrame DEF StopLB
  <2>2. cmd[s] = "addServer" => lbDisk' = Servers(mem[s])
    BY <1>10 DEF StopLB, dir, LBInv
  <2> QED
    BY <1>10, <2>1, <2>2, NoLB, <1>0 DEF StopLB, LBPC, LBInv, AddsInv, SessionInv,
       Shape, Servers
<1>11. CASE StartLB(s)
  <2>1. pc'[s] = "save"
    BY <1>11, EnterFrame DEF StartLB
  <2>2. ctr'[TheLB] = "running"
    BY <1>11, TheLBIsNode DEF StartLB, TypeOK
  <2>3. cmd[s] = "addServer" => Servers(mem[s]) \subseteq lbLive'
    BY <1>11 DEF StartLB, LBInv
  <2> QED
    BY <1>11, <2>1, <2>2, <2>3 DEF StartLB, LBPC, LBInv, AddsInv, SessionInv,
       Shape, Servers, LBServes
<1>12. CASE SaveState(s)
  BY <1>12, EndFrame, NoLB DEF SaveState
<1> QED
  BY <1>1, <1>2, <1>3, <1>4, <1>5, <1>6, <1>7, <1>9, <1>10, <1>11, <1>12 DEF BringUpStep

(* Every step keeps one command at a time and what it has the LB serve.      *)
LEMMA NextSolo ==
    ASSUME NoOverlap, TypeOK, AddsInv, SoloInv, [Next]_vars
    PROVE  SoloInv'
<1>1. CASE UNCHANGED vars
  BY <1>1 DEF vars, runtime, dir, SoloInv, Solo, LBInv, LBServes, Launching, Turn, Servers
<1>2. ASSUME NEW s \in Session, Step(s) PROVE SoloInv'
  <2>1. Solo' /\ \A t \in Session \ {s} : cmd'[t] = "none"
    BY <1>2, SoloKept DEF SoloInv
  <2>2. \A t \in Session \ {s} : LBInv(t)'
    BY <2>1, NoLB
  <2>3. LBInv(s)'
    <3>1. CASE BringUpStep(s)
      BY <3>1, LBBringUp DEF SoloInv
    <3>2. CASE cmd[s] = "none"
      <4>1. Begin(s)
        BY <1>2, <3>2, IdleBegins
      <4>2. PICK c, p, work, P, known :
              /\ Start(s, c, p, work, P, known)
              /\ p \in {"network", "volumes", "stop", "listContainers"}
              /\ c = "create" => P \in Clusters /\ ValidCluster(P) /\ known = {}
        <5> DEFINE Started(c, p, work, P, known) ==
              /\ Start(s, c, p, work, P, known)
              /\ p \in {"network", "volumes", "stop", "listContainers"}
              /\ c = "create" => P \in Clusters /\ ValidCluster(P) /\ known = {}
        <5>1. CASE StartCreate(s)
          <6>1. PICK c \in Clusters : ValidCluster(c) /\ Start(s, "create", "network", {}, c, {})
            BY <5>1 DEF StartCreate
          <6>2. Started("create", "network", {}, c, {})
            BY <6>1
          <6> QED
            BY <6>2
        <5>2. CASE StartAddAgents(s)
          <6>1. PICK new : Start(s, "addAgents", "volumes", new, new, recorded)
            BY <5>2 DEF StartAddAgents
          <6>2. Started("addAgents", "volumes", new, new, recorded)
            BY <6>1
          <6> QED
            BY <6>2
        <5>3. CASE StartAddServer(s)
          <6>1. PICK new : Start(s, "addServer", "volumes", new, new, recorded)
            BY <5>3 DEF StartAddServer
          <6>2. Started("addServer", "volumes", new, new, recorded)
            BY <6>1
          <6> QED
            BY <6>2
        <5>4. CASE StartRemoveNode(s)
          <6>1. PICK n \in recorded : Start(s, "removeNode", "stop", {n}, {n}, recorded)
            BY <5>4 DEF StartRemoveNode
          <6>2. Started("removeNode", "stop", {n}, {n}, recorded)
            BY <6>1
          <6> QED
            BY <6>2
        <5>5. CASE StartDestroy(s)
          <6> DEFINE first == IF recorded = {} THEN "listContainers" ELSE "stop"
          <6>1. Started("destroy", first, recorded, recorded, recorded)
            BY <5>5 DEF StartDestroy
          <6> QED
            BY <6>1
        <5> QED
          BY <4>1, <5>1, <5>2, <5>3, <5>4, <5>5 DEF Begin
      <4>3. Launching(s)' = {} /\ plan'[s] = P /\ mem'[s] = known /\ cmd'[s] = c
            /\ pc'[s] = p
        BY <4>2, StartFrame DEF Launching
      <4> QED
        BY <4>2, <4>3 DEF LBInv
    <3>3. CASE cmd[s] # "none" /\ ~BringUpStep(s)
      <4>1. cmd'[s] = "none" \/ cmd'[s] \in Teardown
        <5>1. ~Begin(s)
          BY <3>3 DEF Begin, StartCreate, StartAddAgents, StartAddServer,
             StartRemoveNode, StartDestroy, Start
        <5>2. CASE TeardownStep(s)
          <6>1. pc[s] \notin AddingPC \cup {"idle"}
            BY <5>2 DEF TeardownStep, StopNode, RemoveContainer, DeleteVolume,
               ListContainers, ListVolumes, DeleteNetwork, RemoveDir, AddingPC
          <6> QED
            BY <1>2, <3>3, <6>1, ByPC, CommandKept
        <5>3. CASE RefusedCall(s) \/ Fault(s)
          BY <5>3, EndFrame DEF RefusedCall, Fault, GiveUp, CollectOf, CollectOfList, Collect,
             Die, DieInSave, Teardown
        <5> QED
          BY <1>2, <3>3, <5>1, <5>2, <5>3 DEF Step, Work
      <4> QED
        BY <4>1, NoLB DEF Teardown
    <3> QED
      BY <3>1, <3>2, <3>3
  <2> QED
    BY <2>1, <2>2, <2>3 DEF SoloInv
<1> QED
  BY <1>1, <1>2 DEF Next, Step

(* One command runs at a time, and whatever failed before, the load         *)
(* balancer it is to leave behind serves what it is to record.              *)
THEOREM SoloInvariant ==
    ASSUME NoOverlap
    PROVE  Spec => []SoloInv
<1>1. OnlyAddsOverlap
  BY DEF NoOverlap, OnlyAddsOverlap
<1>2. Init => SoloInv
  BY DEF Init, SoloInv, Solo, LBInv
<1>3. TypeOK /\ AddsInv /\ SoloInv /\ [Next]_vars => SoloInv'
  BY NextSolo
<1> QED
  BY <1>1, <1>2, <1>3, AddsInvariant, PTL DEF Spec

(* Whatever failed before, the haproxy that a -create or -add-server leaves  *)
(* running has loaded every server that state.json names.                    *)
THEOREM LBServesWhatIsRecorded ==
    ASSUME NoOverlap
    PROVE  Spec => LBServesRecord
<1>1. OnlyAddsOverlap
  BY DEF NoOverlap, OnlyAddsOverlap
<1>2. ASSUME TypeOK, AddsInv, SoloInv, [Next]_vars, NEW s \in Session, SaveState(s),
             cmd[s] \in {"create", "addServer"}, TheLB \in recorded'
      PROVE  ctr[TheLB] = "running" /\ Servers(recorded') \subseteq lbLive
  <2>1. recorded' = mem[s]
    BY <1>2 DEF SaveState
  <2>2. pc[s] = "save" /\ LBInv(s)
    BY <1>2 DEF SaveState, SoloInv
  <2> QED
    BY <1>2, <2>1, <2>2 DEF LBInv, LBServes, Servers
<1>3. TypeOK /\ AddsInv /\ SoloInv /\ [Next]_vars =>
          [\A s \in Session :
             SaveState(s) /\ cmd[s] \in {"create", "addServer"} /\ TheLB \in recorded'
                => ctr[TheLB] = "running" /\ Servers(recorded') \subseteq lbLive]_vars
  BY <1>2
<1> QED
  BY <1>1, <1>3, AddsInvariant, SoloInvariant, PTL DEF Spec, LBServesRecord
=============================================================================
