--------------------------- MODULE MembershipProofs ---------------------------
(***************************************************************************)
(* Of commands that run one at a time: however many failures there were    *)
(* before, a Destroy without an error brings the cluster back to where     *)
(* state.json is true; and while it is, the five commands implement        *)
(* Membership, call by call.                                               *)
(***************************************************************************)
EXTENDS ProvisioningHistory, MatchProofs

-----------------------------------------------------------------------------
(* What failed is forgotten *)

(* Only a Destroy collects errors.                                          *)
LEMMA CalmStep ==
    ASSUME TypeOK, NEW s \in Session, Step(s), Calm
    PROVE  Calm'
<1>1. \A t \in Session \ {s} : cmd'[t] # "destroy" => ~errs'[t]
  BY StepSame DEF Same, Calm
<1>2. ASSUME End(s) PROVE ~errs'[s]
  BY <1>2 DEF End, TypeOK
<1>3. ASSUME UNCHANGED <<cmd, errs>> PROVE cmd'[s] # "destroy" => ~errs'[s]
  BY <1>3 DEF Calm
<1>4. CASE Begin(s)
  <2>1. cmd[s] = "none" /\ errs' = errs
    BY <1>4 DEF Begin, StartCreate, StartAddAgents, StartAddServer, StartRemoveNode,
       StartDestroy, Start
  <2> QED
    BY <1>1, <2>1 DEF Calm
<1>5. CASE BringUpStep(s)
  BY <1>1, <1>2, <1>3, <1>5, BringUpEnters DEF Calm
<1>6. CASE TeardownStep(s)
  BY <1>1, <1>2, <1>3, <1>6 DEF TeardownStep, StopNode, RemoveContainer, DeleteVolume,
     ListContainers, ListVolumes, DeleteNetwork, RemoveDir, Calm
<1>7. ASSUME Collect(s) PROVE cmd'[s] = "destroy"
  BY <1>7 DEF Collect
<1>8. CASE RefusedCall(s) \/ Fault(s)
  BY <1>1, <1>2, <1>7, <1>8 DEF RefusedCall, Fault, GiveUp, CollectOf, CollectOfList,
     Die, DieInSave, Calm
<1> QED
  BY <1>4, <1>5, <1>6, <1>8 DEF Step, Work

(* The Destroy that returns with no error removes the state dir.            *)
LEMMA CleanRemoves ==
    ASSUME TypeOK, AddsInv, Next, NEW s \in Session, DestroysCleanly(s)
    PROVE  Step(s) /\ RemoveDir(s)
<1>1. PICK t \in Session : Fault(t) \/ ((Begin(t) \/ Work(t)) /\ UNCHANGED faults)
  BY DEF Next
<1>2. Step(t) /\ ~Fault(t)
  BY <1>1 DEF Step, Fault, DestroysCleanly, TypeOK
<1>3. t = s
  <2>1. pc'[s] # pc[s]
    BY DEF DestroysCleanly
  <2> QED
    BY <1>2, <2>1, StepSame DEF Same
<1>4. pc[s] = "removeDir"
  BY DEF DestroysCleanly
<1>5. ~Begin(s)
  <2>1. cmd[s] # "none"
    BY <1>4 DEF AddsInv, SessionInv, Shape
  <2> QED
    BY <2>1 DEF Begin, StartCreate, StartAddAgents, StartAddServer, StartRemoveNode,
       StartDestroy, Start
<1>6. ~BringUpStep(s)
  BY <1>4 DEF BringUpStep, EnsureNetwork, DeliverEtcdTLS, CreateVolume, LaunchMember,
     EtcdReady, LaunchNode, ArmNode, ConfigureLB, StopLB, StartLB, SaveState
<1>7. ~RefusedCall(s)
  BY <1>4 DEF RefusedCall, Refused, Rejected, BadCluster, BadManifest, SameAddress,
     StillRunning, StillMounted, StillAttached
<1>8. RemoveDir(s)
  BY <1>1, <1>2, <1>3, <1>4, <1>5, <1>6, <1>7 DEF Work, TeardownStep, StopNode,
     RemoveContainer, DeleteVolume, ListContainers, ListVolumes, DeleteNetwork
<1> QED
  BY <1>2, <1>3, <1>8

(* It leaves nothing on the host and nothing on record.                     *)
LEMMA CleanLeaves ==
    ASSUME TypeOK, AddsInv, DestroyInv, Next, NEW s \in Session, DestroysCleanly(s)
    PROVE  /\ \A n \in Node : Gone(n) /\ Gone(n)'
           /\ recorded' = {} /\ disk' = "absent" /\ End(s)
<1>1. RemoveDir(s) /\ pc[s] = "removeDir" /\ ~errs[s]
  BY CleanRemoves DEF DestroysCleanly
<1>2. \A n \in Node : ctr[n] = "absent" /\ vol[n] = "absent"
  BY <1>1 DEF DestroyInv, Swept
<1> QED
  BY <1>1, <1>2 DEF RemoveDir, runtime, Gone

(* So the record and the host are in step again.                            *)
LEMMA CleanMatches ==
    ASSUME NoOverlap, TypeOK, AddsInv, DestroyInv, SoloInv, Calm, Next,
           NEW s \in Session, DestroysCleanly(s)
    PROVE  Matched' /\ \A t \in Session : cmd'[t] = "none"
<1>1. Step(s) /\ End(s)
  BY CleanRemoves, CleanLeaves
<1>2. \A t \in Session : cmd'[t] = "none"
  BY <1>1, SoloKept, EndFrame DEF SoloInv
<1>3. \A t \in Session : ~errs'[t]
  BY <1>1, <1>2, CalmStep DEF Calm
<1>4. Exactly(recorded)'
  BY CleanLeaves DEF Exactly
<1> QED
  BY <1>2, <1>3, <1>4, CleanLeaves, IdleOrderly DEF Matched

(* Every step keeps the invariant.                                          *)
LEMMA NextSound ==
    ASSUME NoOverlap, OneShape, TypeOK, AddsInv, DestroyInv, SoloInv, SoundInv,
           [HistoryNext]_historyVars
    PROVE  SoundInv'
<1>1. CASE UNCHANGED historyVars
  <2>1. UNCHANGED <<vars, cmd, errs, sound>>
    BY <1>1 DEF historyVars, vars
  <2>2. Calm'
    BY <2>1 DEF SoundInv, Calm
  <2> QED
    BY <2>1, <2>2, MatchedStill DEF SoundInv
<1>2. CASE HistoryNext
  <2>1. PICK s \in Session : Fault(s) \/ ((Begin(s) \/ Work(s)) /\ UNCHANGED faults)
    BY <1>2 DEF HistoryNext, Next
  <2>2. Calm'
    <3>1. Step(s)
      BY <2>1 DEF Step
    <3> QED
      BY <3>1, CalmStep DEF SoundInv
  <2>3. ASSUME sound' PROVE Matched'
    <3>1. CASE \E t \in Session : DestroysCleanly(t)
      BY <1>2, <3>1, CleanMatches DEF HistoryNext, SoundInv
    <3>2. CASE sound /\ faults' = faults /\ ~Strands(s)
      <4>1. ~Fault(s)
        BY <3>2 DEF Fault, TypeOK
      <4> QED
        BY <2>1, <3>2, <4>1, MatchedStep DEF SoundInv
    <3> QED
      BY <1>2, <2>3, <3>1, <3>2 DEF HistoryNext
  <2>4. sound' \in BOOLEAN
    BY <1>2 DEF HistoryNext
  <2> QED
    BY <2>2, <2>3, <2>4 DEF SoundInv
<1> QED
  BY <1>1, <1>2

(* The memory changes nothing of what the commands do.                      *)
LEMMA HistoryOfSpec == HistorySpec => Spec
<1>1. HistoryInit => Init
  BY DEF HistoryInit
<1>2. [HistoryNext]_historyVars => [Next]_vars
  BY DEF HistoryNext, historyVars
<1> QED
  BY <1>1, <1>2, PTL DEF HistorySpec, Spec

(* Whatever failed before the last Destroy that reported no error, the      *)
(* record and the host differ by just what the command at work has done.    *)
THEOREM SoundInvariant ==
    ASSUME NoOverlap, OneShape
    PROVE  HistorySpec => []SoundInv
<1>1. OnlyAddsOverlap
  BY DEF NoOverlap, OnlyAddsOverlap
<1>2. HistoryInit => SoundInv
  BY DEF HistoryInit, Init, SoundInv, Calm, Matched, Exactly, Gone, Orderly, Adding
<1>3. TypeOK /\ AddsInv /\ DestroyInv /\ SoloInv /\ SoundInv /\ [HistoryNext]_historyVars
        => SoundInv'
  BY NextSound
<1> QED
  BY <1>1, <1>2, <1>3, HistoryOfSpec, AddsInvariant, DestroyInvariant, SoloInvariant, PTL
  DEF HistorySpec

(* state.json can be believed again after every clean Destroy: a failed     *)
(* command, a death or a torn state file is remembered by nothing that such *)
(* a Destroy leaves.                                                        *)
THEOREM CleanDestroyRestores ==
    ASSUME NoOverlap, OneShape
    PROVE  HistorySpec => []RecordHolds
<1>1. SoundInv => RecordHolds
  BY DEF SoundInv, Matched, RecordHolds
<1> QED
  BY <1>1, SoundInvariant, PTL

-----------------------------------------------------------------------------
(* The commands as transactions *)

(* What is asked for is what the one command asks for.                      *)
LEMMA WantedOfOne ==
    /\ \A s \in Session : Solo /\ cmd[s] # "none" => Wanted = Asked(s)
    /\ \A s \in Session : (Solo /\ cmd[s] # "none" => Wanted = Asked(s))'
<1>1. ASSUME NEW s \in Session, Solo, cmd[s] # "none" PROVE Wanted = Asked(s)
  <2>1. Busy = {s}
    BY <1>1 DEF Solo, Busy
  <2> QED
    BY <2>1 DEF Wanted
<1>2. ASSUME NEW s \in Session PROVE (Solo /\ cmd[s] # "none" => Wanted = Asked(s))'
  <2>1. SUFFICES ASSUME Solo', cmd'[s] # "none" PROVE Wanted' = Asked(s)'
    OBVIOUS
  <2>2. Busy' = {s}
    BY <2>1 DEF Solo, Busy
  <2> QED
    BY <2>2 DEF Wanted
<1> QED
  BY <1>1, <1>2

(* When none runs it is what is recorded.                                   *)
LEMMA WantedOfNone ==
    /\ (\A s \in Session : cmd[s] = "none") => Wanted = recorded
    /\ (\A s \in Session : cmd'[s] = "none") => Wanted' = recorded'
BY DEF Wanted, Busy

(* Nothing else is asked for as long as the command goes on.                *)
LEMMA WantedKept ==
    ASSUME UNCHANGED <<cmd, plan, recorded>>
    PROVE  Wanted' = Wanted
<1>1. Busy' = Busy /\ \A s \in Session : Asked(s)' = Asked(s)
  BY DEF Busy, Asked
<1>2. Busy # {} => (CHOOSE s \in Busy : TRUE) \in Session
  BY DEF Busy
<1> QED
  BY <1>1, <1>2 DEF Wanted

(* What a command that grows or shrinks the cluster asks for.               *)
LEMMA AskedOf ==
    ASSUME NEW s \in Session
    PROVE  /\ cmd[s] \in Adding /\ Grows(s) => Asked(s) = Base(s) \cup plan[s]
           /\ Doomed(s) => Asked(s) = recorded
           /\ cmd[s] = "removeNode" => Asked(s) = recorded \ plan[s]
           /\ cmd[s] = "destroy" => Asked(s) = {}
<1>1. ASSUME cmd[s] \in Adding, Grows(s) PROVE Asked(s) = Base(s) \cup plan[s]
  <2>1. CASE cmd[s] = "create"
    BY <1>1, <2>1 DEF Asked, Base, Grows
  <2>2. CASE cmd[s] \in {"addAgents", "addServer"}
    BY <2>2 DEF Asked, Base
  <2> QED
    BY <1>1, <2>1, <2>2 DEF Adding
<1>2. Doomed(s) => Asked(s) = recorded
  BY DEF Doomed, Asked
<1>3. /\ cmd[s] = "removeNode" => Asked(s) = recorded \ plan[s]
      /\ cmd[s] = "destroy" => Asked(s) = {}
  BY DEF Asked
<1> QED
  BY <1>1, <1>2, <1>3

(* Where state.json says exactly what is on the host, the two are one set.  *)
LEMMA OnHostExactly ==
    /\ TypeOK /\ Exactly(recorded) => OnHost = recorded
    /\ TypeOK' /\ Exactly(recorded)' => OnHost' = recorded'
<1>1. ASSUME TypeOK, Exactly(recorded) PROVE OnHost = recorded
  BY <1>1 DEF TypeOK, Exactly, Stands, Gone, OnHost
<1>2. ASSUME TypeOK', Exactly(recorded)' PROVE OnHost' = recorded'
  BY <1>2 DEF TypeOK, Exactly, Stands, Gone, OnHost
<1> QED
  BY <1>1, <1>2

(* A call that changes what there is of one node at most.                   *)
LEMMA OneNode ==
    ASSUME sound, sound' = sound, UNCHANGED <<cmd, plan, recorded>>,
           NEW n \in Node, \A m \in Node \ {n} : ctr'[m] = ctr[m] /\ vol'[m] = vol[m],
           \/ n \in Wanted /\ (n \in OnHost => n \in OnHost')
           \/ n \notin Wanted /\ (n \in OnHost' => n \in OnHost)
    PROVE  [Abstract!Next]_(Abstract!membership)
<1>1. Wanted' = Wanted
  BY WantedKept
<1>2. \A m \in Node \ {n} : m \in OnHost' <=> m \in OnHost
  BY DEF OnHost
<1>3. OnHost' \subseteq Node /\ OnHost \subseteq Node
  BY DEF OnHost
<1>4. CASE n \in OnHost <=> n \in OnHost'
  <2>1. OnHost' = OnHost
    BY <1>2, <1>3, <1>4
  <2> QED
    BY <1>1, <2>1 DEF Abstract!membership
<1>5. CASE n \notin OnHost /\ n \in OnHost'
  <2>1. OnHost' = OnHost \cup {n} /\ n \in Wanted
    BY <1>2, <1>3, <1>5
  <2>2. Abstract!Raise(n)
    BY <1>1, <1>5, <2>1 DEF Abstract!Raise
  <2> QED
    BY <2>2 DEF Abstract!Next
<1>6. CASE n \in OnHost /\ n \notin OnHost'
  <2>1. OnHost' = OnHost \ {n} /\ n \notin Wanted
    BY <1>2, <1>3, <1>6
  <2>2. Abstract!Drop(n)
    BY <1>1, <1>6, <2>1 DEF Abstract!Drop
  <2> QED
    BY <2>2 DEF Abstract!Next
<1> QED
  BY <1>4, <1>5, <1>6

(* A call that leaves on the host what there is on it.                      *)
LEMMA SameHost ==
    ASSUME sound' = sound, UNCHANGED <<cmd, plan, recorded>>,
           \A m \in Node : (ctr'[m] = "absent" <=> ctr[m] = "absent") /\ vol'[m] = vol[m]
    PROVE  UNCHANGED Abstract!membership
<1>1. OnHost' = OnHost
  BY DEF OnHost
<1> QED
  BY <1>1, WantedKept DEF Abstract!membership

(* A command begins.                                                        *)
LEMMA BeginRefines ==
    ASSUME NoOverlap, TypeOK, TypeOK', AddsInv, SoloInv, SoloInv', Matched,
           NEW s \in Session, Begin(s), sound, sound' = sound
    PROVE  [Abstract!Next]_(Abstract!membership)
<1>1. ASSUME NEW c, NEW p, NEW work, NEW P, NEW known, Start(s, c, p, work, P, known),
             c # "none"
      PROVE  /\ Abstract!Ask /\ Wanted' = Asked(s)'
             /\ cmd'[s] = c /\ plan'[s] = P /\ UNCHANGED <<recorded, OnHost>>
  <2>1. \A t \in Session : cmd[t] = "none"
    BY <1>1 DEF Start, NoOverlap
  <2>2. UNCHANGED <<recorded, ctr, vol>> /\ cmd'[s] = c /\ plan'[s] = P
    BY <1>1, StartFrame DEF Start, runtime, dir
  <2>3. Wanted = recorded
    BY <2>1, WantedOfNone
  <2>4. Wanted' = Asked(s)'
    BY <1>1, <2>2, WantedOfOne DEF SoloInv
  <2>5. OnHost' = OnHost
    BY <2>2 DEF OnHost
  <2> QED
    BY <2>2, <2>3, <2>4, <2>5 DEF Abstract!Ask
<1>2. recorded \subseteq Node /\ (disk = "ok" => recorded # {})
  BY DEF Matched, TypeOK, Rooted
<1>3. CASE StartCreate(s)
  <2>1. PICK c \in Clusters : Start(s, "create", "network", {}, c, {})
    BY <1>3 DEF StartCreate
  <2>2. /\ Abstract!Ask /\ Wanted' = Asked(s)'
        /\ cmd'[s] = "create" /\ plan'[s] = c /\ UNCHANGED <<recorded, OnHost>>
    BY <1>1, <2>1
  <2>3. CASE recorded = {}
    <3>1. Abstract!Form
      BY <2>2, <2>3 DEF Asked, Abstract!Form
    <3> QED
      BY <3>1 DEF Abstract!Next
  <2>4. CASE recorded # {}
    <3>1. Wanted' = Wanted
      BY <2>2, <2>4 DEF Asked, Abstract!Ask
    <3> QED
      BY <2>2, <3>1 DEF Abstract!membership
  <2> QED
    BY <2>3, <2>4
<1>4. ASSUME NEW c \in {"addAgents", "addServer"}, NEW p, NEW work, NEW P, NEW known,
             Start(s, c, p, work, P, known), disk = "ok",
             \A n \in P : n.role \in {"server", "agent"}
      PROVE  [Abstract!Next]_(Abstract!membership)
  <2>1. /\ Abstract!Ask /\ Wanted' = Asked(s)'
        /\ cmd'[s] = c /\ plan'[s] = P /\ UNCHANGED <<recorded, OnHost>>
    BY <1>1, <1>4
  <2>2. Wanted' = recorded \cup P
    BY <2>1 DEF Asked
  <2>3. P \subseteq Node
    BY <2>1 DEF TypeOK
  <2>4. Abstract!Grow
    BY <1>2, <1>4, <2>1, <2>2, <2>3 DEF Abstract!Grow
  <2> QED
    BY <2>4 DEF Abstract!Next
<1>5. CASE StartAddAgents(s)
  <2>1. PICK i \in 1..MaxIndex, count \in 1..MaxIndex :
          Start(s, "addAgents", "volumes", [role : {"agent"}, idx : i..(i + count - 1)],
                [role : {"agent"}, idx : i..(i + count - 1)], recorded)
    BY <1>5 DEF StartAddAgents
  <2> DEFINE new == [role : {"agent"}, idx : i..(i + count - 1)]
  <2>2. \A n \in new : n.role = "agent"
    OBVIOUS
  <2>3. disk = "ok"
    BY <1>5 DEF StartAddAgents
  <2> HIDE DEF new
  <2>4. Start(s, "addAgents", "volumes", new, new, recorded)
    BY <2>1 DEF new
  <2> QED
    BY <1>4, <2>2, <2>3, <2>4
<1>6. CASE StartAddServer(s)
  <2>1. PICK i \in 1..MaxIndex :
          Start(s, "addServer", "volumes", [role : {"server"}, idx : {i}],
                [role : {"server"}, idx : {i}], recorded)
    BY <1>6 DEF StartAddServer
  <2> DEFINE new == [role : {"server"}, idx : {i}]
  <2>2. \A n \in new : n.role = "server"
    OBVIOUS
  <2>3. disk = "ok"
    BY <1>6 DEF StartAddServer
  <2> HIDE DEF new
  <2>4. Start(s, "addServer", "volumes", new, new, recorded)
    BY <2>1 DEF new
  <2> QED
    BY <1>4, <2>2, <2>3, <2>4
<1>7. CASE StartRemoveNode(s)
  <2>1. PICK n \in recorded :
          Removable(n) /\ Start(s, "removeNode", "stop", {n}, {n}, recorded)
    BY <1>7 DEF StartRemoveNode
  <2>2. /\ Abstract!Ask /\ Wanted' = Asked(s)'
        /\ cmd'[s] = "removeNode" /\ plan'[s] = {n} /\ UNCHANGED <<recorded, OnHost>>
    BY <1>1, <2>1
  <2>3. Wanted' = recorded \ {n}
    BY <2>2 DEF Asked
  <2>4. Abstract!Shrink
    BY <2>1, <2>2, <2>3 DEF Abstract!Shrink, Removable
  <2> QED
    BY <2>4 DEF Abstract!Next
<1>8. CASE StartDestroy(s)
  <2>1. /\ Abstract!Ask /\ Wanted' = Asked(s)' /\ cmd'[s] = "destroy"
    BY <1>1, <1>8 DEF StartDestroy
  <2>2. Abstract!Clear
    BY <2>1 DEF Asked, Abstract!Clear
  <2> QED
    BY <2>2 DEF Abstract!Next
<1> QED
  BY <1>3, <1>5, <1>6, <1>7, <1>8 DEF Begin

(* A bring-up makes what is asked for and not there, a node at a time.      *)
LEMMA GrowRefines ==
    ASSUME TypeOK, AddsInv, SoloInv, NEW s \in Session, cmd[s] \in Adding, Grows(s),
           BringUpStep(s), ~SaveState(s), sound, sound' = sound
    PROVE  [Abstract!Next]_(Abstract!membership)
<1>1. Wanted = Base(s) \cup plan[s]
  BY WantedOfOne, AskedOf DEF SoloInv, Adding
<1>2. CASE EnsureNetwork(s) \/ DeliverEtcdTLS(s) \/ EtcdReady(s) \/ ArmNode(s) \/ ConfigureLB(s)
  BY <1>2, SameHost DEF EnsureNetwork, DeliverEtcdTLS, EtcdReady, ArmNode, ConfigureLB,
     runtime, dir
<1>3. CASE StopLB(s) \/ StartLB(s)
  <2>1. \A m \in Node : ctr'[m] = "absent" <=> ctr[m] = "absent"
    BY <1>3, TheLBIsNode DEF StopLB, StartLB, TypeOK
  <2> QED
    BY <1>3, <2>1, SameHost DEF StopLB, StartLB, dir
<1>4. CASE CreateVolume(s)
  <2>1. PICK n \in Turn(s) : vol' = [vol EXCEPT ![n] = "blank"]
    BY <1>4 DEF CreateVolume
  <2>2. n \in Node /\ n \in plan[s]
    BY <1>4, <2>1, BringUpTurn, LaunchesNew DEF CreateVolume
  <2>3. n \in OnHost'
    BY <2>1, <2>2 DEF OnHost, TypeOK
  <2>4. \A m \in Node \ {n} : ctr'[m] = ctr[m] /\ vol'[m] = vol[m]
    BY <1>4, <2>1 DEF CreateVolume, TypeOK
  <2> QED
    BY <1>1, <1>4, <2>2, <2>3, <2>4, OneNode DEF CreateVolume, dir
<1>5. CASE LaunchMember(s) \/ LaunchNode(s)
  <2>1. PICK n \in Turn(s) :
          /\ ctr' = [ctr EXCEPT ![n] = "running"]
          /\ vol' = [vol EXCEPT ![n] = "used"] \/ vol' = vol
    BY <1>5 DEF LaunchMember, LaunchNode
  <2>2. n \in Node /\ n \in plan[s]
    BY <1>5, <2>1, BringUpTurn, LaunchesNew DEF LaunchMember, LaunchNode
  <2>3. n \in OnHost'
    BY <2>1, <2>2 DEF OnHost, TypeOK
  <2>4. \A m \in Node \ {n} : ctr'[m] = ctr[m] /\ vol'[m] = vol[m]
    BY <2>1 DEF TypeOK
  <2> QED
    BY <1>1, <1>5, <2>2, <2>3, <2>4, OneNode DEF LaunchMember, LaunchNode, dir
<1> QED
  BY <1>2, <1>3, <1>4, <1>5 DEF BringUpStep

(* A teardown takes away what is there and not asked for.                   *)
LEMMA TakeRefines ==
    ASSUME TypeOK, AddsInv, SoloInv, NEW s \in Session,
           \/ cmd[s] = "removeNode" /\ Shrinks(s)
           \/ cmd[s] = "destroy",
           TeardownStep(s), ~RemoveDir(s), sound, sound' = sound
    PROVE  [Abstract!Next]_(Abstract!membership)
<1>1. \A n \in Turn(s) : n \in Node
  BY TurnSubset
<1>2. UNCHANGED <<cmd, plan, recorded>>
  BY DEF TeardownStep, StopNode, RemoveContainer, DeleteVolume, ListContainers,
     ListVolumes, DeleteNetwork, dir
<1>3. CASE StopNode(s)
  <2>1. PICK n \in Turn(s) :
          ctr' = IF ctr[n] = "running" THEN [ctr EXCEPT ![n] = "stopped"] ELSE ctr
    BY <1>3 DEF StopNode
  <2>2. \A m \in Node : ctr'[m] = "absent" <=> ctr[m] = "absent"
    BY <1>1, <2>1 DEF TypeOK
  <2> QED
    BY <1>2, <1>3, <2>2, SameHost DEF StopNode
<1>4. CASE RemoveContainer(s) \/ DeleteVolume(s)
  <2>1. PICK n \in Turn(s) :
          \/ ctr' = [ctr EXCEPT ![n] = "absent"] /\ vol' = vol
          \/ vol' = [vol EXCEPT ![n] = "absent"] /\ ctr' = ctr
    BY <1>4 DEF RemoveContainer, DeleteVolume
  <2>2. n \notin Wanted
    <3>1. CASE cmd[s] = "removeNode" /\ Shrinks(s)
      <4>1. Wanted = recorded \ plan[s]
        BY <3>1, WantedOfOne, AskedOf DEF SoloInv
      <4>2. pc[s] \in {"remove", "volume"}
        BY <1>4, <3>1 DEF Shrinks, RemoveContainer, DeleteVolume
      <4>3. n \in plan[s]
        BY <2>1, <3>1, <4>2 DEF Shrinks, Turn
      <4> QED
        BY <4>1, <4>3
    <3>2. CASE cmd[s] = "destroy"
      BY <3>2, WantedOfOne, AskedOf DEF SoloInv
    <3> QED
      BY <3>1, <3>2
  <2>3. \A m \in Node \ {n} : ctr'[m] = ctr[m] /\ vol'[m] = vol[m]
    BY <1>1, <2>1 DEF TypeOK
  <2>4. n \in OnHost' => n \in OnHost
    BY <1>1, <2>1 DEF TypeOK, OnHost
  <2> QED
    BY <1>1, <1>2, <2>2, <2>3, <2>4, OneNode
<1>5. CASE ListContainers(s) \/ ListVolumes(s) \/ DeleteNetwork(s)
  BY <1>2, <1>5, SameHost DEF ListContainers, ListVolumes, DeleteNetwork, runtime
<1> QED
  BY <1>3, <1>4, <1>5 DEF TeardownStep

(* When the one command ends, nothing is asked for any more.                *)
LEMMA EndsIdle ==
    ASSUME TypeOK, NEW s \in Session, Solo, cmd[s] # "none", End(s)
    PROVE  Wanted' = recorded'
<1>1. \A t \in Session : cmd'[t] = "none"
  BY DEF End, Solo, TypeOK
<1> QED
  BY <1>1, WantedOfNone

(* state.json is written, or removed, when all that was asked for is done.  *)
LEMMA CommitRefines ==
    ASSUME TypeOK, TypeOK', NEW s \in Session, End(s), UNCHANGED <<ctr, vol>>, Solo,
           cmd[s] # "none", Exactly(recorded)', recorded' = Asked(s),
           sound, sound' = sound
    PROVE  [Abstract!Next]_(Abstract!membership)
<1>1. Wanted = Asked(s)
  BY WantedOfOne
<1>2. Wanted' = recorded'
  BY EndsIdle
<1>3. OnHost' = recorded' /\ OnHost' = OnHost
  <2>1. OnHost' = OnHost
    BY DEF OnHost
  <2> QED
    BY <2>1, OnHostExactly
<1>4. Abstract!Commit
  BY <1>1, <1>2, <1>3 DEF Abstract!Commit
<1> QED
  BY <1>4 DEF Abstract!Next

(* Every step while things are sound.                                       *)
LEMMA SoundRefines ==
    ASSUME NoOverlap, OneShape, TypeOK, TypeOK', AddsInv, DestroyInv, SoloInv, SoloInv',
           Matched, NEW s \in Session, Begin(s) \/ Work(s), ~Strands(s),
           sound, sound' = sound
    PROVE  [Abstract!Next]_(Abstract!membership)
<1>1. CASE Begin(s)
  BY <1>1, BeginRefines
<1>2. CASE BringUpStep(s)
  <2>1. pc[s] \in AddingPC
    BY <1>2 DEF BringUpStep, EnsureNetwork, DeliverEtcdTLS, CreateVolume, LaunchMember,
       EtcdReady, LaunchNode, ArmNode, ConfigureLB, StopLB, StartLB, SaveState, AddingPC
  <2>2. /\ cmd[s] \in Adding \cup {"removeNode"}
        /\ cmd[s] = "removeNode" => pc[s] = "save"
    BY <2>1, ByPC DEF Adding
  <2>3. Orderly(s) /\ (cmd[s] # "create" => Rooted(recorded))
    BY <2>2 DEF Matched, Orderly, Adding
  <2>4. CASE SaveState(s)
    <3>1. End(s) /\ UNCHANGED <<ctr, vol>> /\ cmd[s] # "none" /\ pc[s] = "save"
      BY <2>2, <2>4 DEF SaveState, runtime, Adding
    <3>2. CASE cmd[s] \in Adding
      <4>1. Grows(s)
        BY <2>3, <3>1, <3>2 DEF Orderly, Doomed
      <4>2. Exactly(recorded)'
        BY <2>3, <2>4, <3>2, <4>1, GrowsSaved
      <4>3. recorded' = Base(s) \cup plan[s]
        BY <2>4, <3>1, <3>2, <4>1, ByStep DEF SaveState, Grows, StepSets, Adding
      <4> QED
        BY <3>1, <3>2, <4>1, <4>2, <4>3, AskedOf, CommitRefines DEF SoloInv
    <3>3. CASE cmd[s] = "removeNode"
      <4>1. Shrinks(s) /\ Rooted(recorded)
        BY <2>3, <3>3 DEF Orderly
      <4>2. Exactly(recorded)'
        BY <2>4, <3>3, <4>1, ShrinksSaved
      <4>3. recorded' = recorded \ plan[s]
        BY <2>4, <3>3, <4>1 DEF SaveState, Shrinks
      <4> QED
        BY <3>1, <3>3, <4>2, <4>3, AskedOf, CommitRefines DEF SoloInv
    <3> QED
      BY <2>2, <3>2, <3>3
  <2>5. CASE ~SaveState(s)
    <3>1. cmd[s] \in Adding
      BY <1>2, <2>2, <2>5 DEF BringUpStep, EnsureNetwork, DeliverEtcdTLS, CreateVolume,
         LaunchMember, EtcdReady, LaunchNode, ArmNode, ConfigureLB, StopLB, StartLB
    <3>2. CASE Grows(s)
      BY <1>2, <2>5, <3>1, <3>2, GrowRefines
    <3>3. CASE Doomed(s)
      <4>1. Rooted(recorded)
        BY <3>3 DEF Matched, Doomed
      <4> QED
        BY <1>2, <3>3, <4>1, DoomedSteps, SameHost
    <3> QED
      BY <2>3, <3>1, <3>2, <3>3 DEF Orderly
  <2> QED
    BY <2>4, <2>5
<1>3. CASE TeardownStep(s)
  <2>1. pc[s] \notin AddingPC \cup {"idle"}
    BY <1>3 DEF TeardownStep, StopNode, RemoveContainer, DeleteVolume, ListContainers,
       ListVolumes, DeleteNetwork, RemoveDir, AddingPC
  <2>2. cmd[s] \in {"removeNode", "destroy"}
    BY <2>1, ByPC DEF Teardown
  <2>3. Orderly(s) /\ ~errs[s]
    BY DEF Matched
  <2>4. CASE RemoveDir(s)
    <3>1. /\ pc[s] = "removeDir" /\ End(s) /\ UNCHANGED <<ctr, vol>> /\ recorded' = {}
      BY <2>4 DEF RemoveDir, runtime
    <3>2. /\ cmd[s] = "destroy"
          /\ \A n \in Node : ctr[n] = "absent" /\ vol[n] = "absent"
      BY <2>3, <3>1 DEF DestroyInv, Swept, SweepPC
    <3>3. Exactly(recorded)'
      BY <3>1, <3>2 DEF Exactly, Gone
    <3> QED
      BY <3>1, <3>2, <3>3, AskedOf, CommitRefines DEF SoloInv
  <2>5. CASE ~RemoveDir(s)
    <3>1. cmd[s] = "removeNode" => Shrinks(s)
      BY <2>3 DEF Orderly
    <3> QED
      BY <1>3, <2>2, <2>5, <3>1, TakeRefines
  <2> QED
    BY <2>4, <2>5
<1>4. CASE RefusedCall(s)
  <2>1. GiveUp(s) /\ Exactly(recorded)
    BY <1>4, RefusedAtFirst
  <2>2. End(s) /\ UNCHANGED <<ctr, vol, recorded>>
    BY <2>1 DEF GiveUp, runtime
  <2>3. OnHost = recorded /\ OnHost' = OnHost
    BY <2>1, <2>2, OnHostExactly DEF OnHost
  <2>4. Wanted' = recorded'
    BY <1>4, <2>1, <2>2, EndsIdle DEF SoloInv, GiveUp
  <2>5. Abstract!Withdraw
    BY <2>2, <2>3, <2>4 DEF Abstract!Withdraw
  <2> QED
    BY <2>5 DEF Abstract!Next
<1> QED
  BY <1>1, <1>2, <1>3, <1>4 DEF Work

(* The step with which things cease to be sound changes nothing on the host. *)
LEMMA FailRefines ==
    ASSUME TypeOK, AddsInv, SoloInv, NEW s \in Session, Fault(s) \/ Strands(s),
           sound, sound' = FALSE
    PROVE  Abstract!Fail
<1>1. CASE Die(s) \/ Strands(s)
  <2>1. End(s) /\ UNCHANGED <<ctr, vol, recorded>> /\ cmd[s] # "none"
    BY <1>1 DEF Die, Strands, GiveUp, runtime
  <2>2. Wanted' = recorded' /\ OnHost' = OnHost
    BY <2>1, EndsIdle DEF SoloInv, OnHost
  <2> QED
    BY <2>1, <2>2 DEF Abstract!Fail
<1>2. CASE DieInSave(s)
  <2>1. End(s) /\ UNCHANGED <<ctr, vol>> /\ recorded' = {} /\ cmd[s] # "none"
    BY <1>2 DEF DieInSave, runtime, AddsInv, SessionInv, Shape
  <2>2. Wanted' = recorded' /\ OnHost' = OnHost
    BY <2>1, EndsIdle DEF SoloInv, OnHost
  <2> QED
    BY <2>1, <2>2 DEF Abstract!Fail
<1>3. CASE CollectOfList(s) \/ \E n \in Turn(s) : CollectOf(s, n)
  <2>1. UNCHANGED <<ctr, vol, recorded, cmd, plan>>
    BY <1>3 DEF CollectOfList, CollectOf, Collect, runtime, dir
  <2>2. Wanted' = Wanted /\ OnHost' = OnHost
    BY <2>1, WantedKept DEF OnHost
  <2> QED
    BY <2>1, <2>2 DEF Abstract!Fail
<1> QED
  BY <1>1, <1>2, <1>3 DEF Fault

(* The beginning is one of Membership's.                                    *)
LEMMA InitRefines == HistoryInit => Abstract!Init
<1> SUFFICES ASSUME HistoryInit PROVE Abstract!Init
  OBVIOUS
<1>1. recorded = {} /\ sound = TRUE /\ \A s \in Session : cmd[s] = "none"
  BY DEF HistoryInit, Init
<1>2. OnHost = {}
  BY DEF HistoryInit, Init, OnHost
<1>3. Wanted = {}
  BY <1>1, WantedOfNone
<1> QED
  BY <1>1, <1>2, <1>3 DEF Abstract!Init

(* Every step is a step of Membership or leaves its state as it is.         *)
LEMMA NextRefines ==
    ASSUME NoOverlap, OneShape, TypeOK, TypeOK', AddsInv, DestroyInv, SoloInv, SoloInv',
           SoundInv, [HistoryNext]_historyVars
    PROVE  [Abstract!Next]_(Abstract!membership)
<1>1. CASE UNCHANGED historyVars
  BY <1>1, SameHost DEF historyVars, vars, runtime, dir
<1>2. CASE HistoryNext /\ sound /\ sound' = FALSE
  <2>1. faults' # faults \/ \E t \in Session : Strands(t)
    BY <1>2 DEF HistoryNext
  <2>2. PICK s \in Session : Fault(s) \/ Strands(s)
    BY <1>2, <2>1 DEF HistoryNext, Next
  <2> QED
    BY <1>2, <2>2, FailRefines DEF Abstract!Next
<1>3. CASE HistoryNext /\ ~sound /\ sound' = FALSE
  <2>1. recorded' \subseteq Node /\ OnHost' \subseteq Node /\ Wanted' \subseteq Node
    <3>1. recorded' \subseteq Node /\ OnHost' \subseteq Node
      BY DEF TypeOK, OnHost
    <3>2. ASSUME NEW s \in Session PROVE Asked(s)' \subseteq Node
      BY <3>2 DEF TypeOK, Asked
    <3>3. Busy' # {} => (CHOOSE s \in Busy' : TRUE) \in Session
      BY DEF Busy
    <3> QED
      BY <3>1, <3>2, <3>3 DEF Wanted
  <2>2. sound' = sound
    BY <1>3 DEF SoundInv
  <2>3. Abstract!Drift
    BY <1>3, <2>1, <2>2 DEF Abstract!Drift
  <2> QED
    BY <2>3 DEF Abstract!Next
<1>4. CASE HistoryNext /\ sound /\ sound'
  <2>1. sound' = sound
    BY <1>4 DEF SoundInv, HistoryNext
  <2>2. faults' = faults /\ \A s \in Session : ~Strands(s)
    <3>1. ASSUME NEW t \in Session, DestroysCleanly(t), NEW s \in Session
          PROVE  ~Strands(s)
      <4>1. pc[t] = "removeDir" /\ cmd[t] # "none"
        BY <3>1 DEF DestroysCleanly, AddsInv, SessionInv, Shape
      <4>2. s # t => cmd[s] = "none" /\ pc[s] = "idle"
        BY <4>1 DEF SoloInv, Solo, AddsInv, SessionInv, Shape
      <4> QED
        BY <4>1, <4>2 DEF Strands, BadManifest, SameAddress
    <3> QED
      BY <1>4, <3>1 DEF HistoryNext, DestroysCleanly
  <2>3. PICK s \in Session : Fault(s) \/ ((Begin(s) \/ Work(s)) /\ UNCHANGED faults)
    BY <1>4 DEF HistoryNext, Next
  <2>4. Begin(s) \/ Work(s)
    BY <2>2, <2>3 DEF Fault, TypeOK
  <2> QED
    BY <1>4, <2>1, <2>2, <2>4, SoundRefines DEF SoundInv
<1>5. CASE HistoryNext /\ ~sound /\ sound'
  <2>1. PICK s \in Session : DestroysCleanly(s)
    BY <1>5 DEF HistoryNext
  <2>2. /\ \A n \in Node : Gone(n)'
        /\ recorded' = {} /\ \A t \in Session : cmd'[t] = "none"
    BY <1>5, <2>1, CleanLeaves, CleanMatches DEF HistoryNext, SoundInv
  <2>3. OnHost' = {}
    BY <2>2 DEF Gone, OnHost
  <2>4. Wanted' = {}
    BY <2>2, WantedOfNone
  <2>5. sound' = TRUE
    BY <1>5 DEF HistoryNext
  <2>6. Abstract!Reclaim
    BY <1>5, <2>2, <2>3, <2>4, <2>5 DEF Abstract!Reclaim
  <2> QED
    BY <2>6 DEF Abstract!Next
<1>6. HistoryNext => sound' \in BOOLEAN
  BY DEF HistoryNext
<1> QED
  BY <1>1, <1>2, <1>4, <1>5, <1>6, <1>3 DEF SoundInv

(* The five commands are the transactions of Membership: a refinement, by   *)
(* the mapping of ProvisioningHistory, for every number of runs of k3ac and *)
(* every set of clusters of one shape.                                      *)
THEOREM MembershipImplemented ==
    ASSUME NoOverlap, OneShape
    PROVE  HistorySpec => ImplementsMembership
<1>1. OnlyAddsOverlap
  BY DEF NoOverlap, OnlyAddsOverlap
<1>2. TypeOK /\ TypeOK' /\ AddsInv /\ DestroyInv /\ SoloInv /\ SoloInv' /\ SoundInv
        /\ [HistoryNext]_historyVars => [Abstract!Next]_(Abstract!membership)
  BY NextRefines
<1> QED
  BY <1>1, <1>2, InitRefines, HistoryOfSpec, AddsInvariant, DestroyInvariant,
     SoloInvariant, SoundInvariant, PTL
  DEF HistorySpec, ImplementsMembership, Abstract!Spec

-----------------------------------------------------------------------------
(* What Membership promises *)

(* Between a command's first call and its last, the record and what it asks *)
(* for are all there is to know of the host.                                *)
THEOREM MembershipAgrees == Abstract!Spec => []Abstract!Agreed
<1>1. Abstract!Init => Abstract!Agreed
  BY DEF Abstract!Init, Abstract!Agreed
<1>2. Abstract!Agreed /\ [Abstract!Next]_(Abstract!membership) => Abstract!Agreed'
  <2> SUFFICES ASSUME Abstract!Agreed, [Abstract!Next]_(Abstract!membership)
               PROVE  Abstract!Agreed'
    OBVIOUS
  <2> USE DEF Abstract!Agreed
  <2>1. CASE Abstract!Form
    BY <2>1 DEF Abstract!Form, Abstract!Ask
  <2>2. CASE Abstract!Grow
    BY <2>2 DEF Abstract!Grow, Abstract!Ask
  <2>3. CASE Abstract!Shrink
    BY <2>3 DEF Abstract!Shrink, Abstract!Ask
  <2>4. CASE Abstract!Clear
    BY <2>4 DEF Abstract!Clear, Abstract!Ask
  <2>5. ASSUME NEW n \in Node, Abstract!Raise(n) \/ Abstract!Drop(n)
        PROVE  Abstract!Agreed'
    BY <2>5 DEF Abstract!Raise, Abstract!Drop
  <2>6. CASE Abstract!Commit
    BY <2>6 DEF Abstract!Commit
  <2>7. CASE Abstract!Withdraw \/ Abstract!Fail \/ Abstract!Drift
    BY <2>7 DEF Abstract!Withdraw, Abstract!Fail, Abstract!Drift
  <2>8. CASE Abstract!Reclaim
    BY <2>8 DEF Abstract!Reclaim
  <2>9. CASE UNCHANGED Abstract!membership
    BY <2>9 DEF Abstract!membership
  <2> QED
    BY <2>1, <2>2, <2>3, <2>4, <2>5, <2>6, <2>7, <2>8, <2>9 DEF Abstract!Next
<1> QED
  BY <1>1, <1>2, PTL DEF Abstract!Spec

(* So it is of the five commands: in the middle of one that has not failed, *)
(* nothing recorded and to stay is missing, and nothing is on the host that *)
(* is neither recorded nor asked for.                                       *)
THEOREM NothingUnaskedFor ==
    ASSUME NoOverlap, OneShape
    PROVE  HistorySpec => []Abstract!Agreed
BY MembershipImplemented, MembershipAgrees, PTL DEF ImplementsMembership
=============================================================================
