------------------------------ MODULE AddsProofs ------------------------------
(***************************************************************************)
(* Commands that add nodes may run at the same time, in any number: none   *)
(* boots a node onto an old volume or takes a name another has taken, and  *)
(* what each records is up.  The commands that tear down run alone.        *)
(***************************************************************************)
EXTENDS ProvisioningInv, ProvisioningProofs

(* Session t takes no part in a step. *)
Same(t) ==
    /\ cmd'[t] = cmd[t] /\ pc'[t] = pc[t] /\ plan'[t] = plan[t]
    /\ todo'[t] = todo[t] /\ at'[t] = at[t] /\ mem'[t] = mem[t]

Step(s) == Begin(s) \/ Work(s) \/ Fault(s)

-----------------------------------------------------------------------------
(* Frames *)

(* What entering a step says, pointwise: only the one session moves. *)
LEMMA EnterFrame ==
    ASSUME TypeOK, NEW s \in Session, NEW p, NEW S, Enter(s, p, S)
    PROVE  /\ pc'[s] = p /\ todo'[s] = S /\ at'[s] = {}
           /\ \A t \in Session \ {s} :
                 pc'[t] = pc[t] /\ todo'[t] = todo[t] /\ at'[t] = at[t]
  BY DEF TypeOK, Enter

(* The same of the next call within a turn. *)
LEMMA StayFrame ==
    ASSUME TypeOK, NEW s \in Session, NEW p, NEW n, Stay(s, p, n)
    PROVE  /\ pc'[s] = p
           /\ \A t \in Session \ {s} :
                 pc'[t] = pc[t] /\ todo'[t] = todo[t] /\ at'[t] = at[t]
  BY DEF TypeOK, Stay

(* The same of the end of a run. *)
LEMMA EndFrame ==
    ASSUME TypeOK, NEW s \in Session, End(s)
    PROVE  /\ cmd'[s] = "none" /\ pc'[s] = "idle"
           /\ \A t \in Session \ {s} : Same(t)
  BY EnterFrame DEF TypeOK, End, Enter, Same

(* The same of the start of a command. *)
LEMMA StartFrame ==
    ASSUME TypeOK, NEW s \in Session, NEW c, NEW p, NEW work, NEW P, NEW known,
           Start(s, c, p, work, P, known)
    PROVE  /\ cmd'[s] = c /\ pc'[s] = p /\ todo'[s] = work /\ plan'[s] = P
           /\ mem'[s] = known
           /\ \A t \in Session \ {s} : Same(t)
  BY DEF TypeOK, Start, Enter, Same

(* A session that takes no part keeps what it claims, awaits and has done. *)
LEMMA SameSets ==
    ASSUME NEW t, Same(t)
    PROVE  Pending(t)' = Pending(t) /\ Claimed(t)' = Claimed(t) /\ Done(t)' = Done(t)
  <1>1. Turn(t)' = Turn(t)
    BY DEF Same, Turn
  <1> QED
    BY <1>1 DEF Same, Pending, Claimed, Done

(* What is pending is claimed, and so is what is done and has a volume.     *)
LEMMA PendingClaimed ==
    ASSUME NEW s \in Session, InPlan(s)
    PROVE  /\ Pending(s) \subseteq Claimed(s)
           /\ \A n \in Done(s) : HasVolume(n) => n \in Claimed(s)
  BY DEF InPlan, Pending, Done, Claimed, Members, K3sNodes, Servers, Agents,
         BringUp, HasVolume

-----------------------------------------------------------------------------
(* A step of s keeps the invariant if it keeps its own part of it and       *)
(* leaves alone what the others have claimed.                               *)
LEMMA Composed ==
    ASSUME TypeOK, AddsInv, NEW s \in Session,
           \A t \in Session \ {s} : Same(t),
           \A t \in Session \ {s} : cmd[t] \in Adding =>
               \A n \in Claimed(t) : ctr'[n] = ctr[n] /\ vol'[n] = vol[n],
           (\A t \in Session \ {s} : cmd[t] = "none")
               \/ (armed \subseteq armed' /\ (kubeconfig => kubeconfig')),
           Alone', Mounted', (disk = "ok" => kubeconfig)', SessionInv(s)',
           cmd'[s] \in Adding =>
               \A t \in Session \ {s} : cmd[t] \in Adding =>
                   Claimed(s)' \cap Claimed(t) = {}
    PROVE  AddsInv'
  <1>1. ASSUME NEW t \in Session \ {s}
        PROVE  SessionInv(t)'
    <2>1. SessionInv(t) /\ Same(t)
      BY DEF AddsInv
    <2>2. Pending(t)' = Pending(t) /\ Claimed(t)' = Claimed(t) /\ Done(t)' = Done(t)
      BY <2>1, SameSets
    <2>3. Shape(t)' /\ InPlan(t)'
      BY <2>1 DEF SessionInv, Shape, InPlan, Same
    <2>4. InPlan(t)
      BY <2>1 DEF SessionInv
    <2>5. CASE cmd[t] = "none"
      BY <2>1, <2>3, <2>5 DEF SessionInv, Same, Delivered, Adding
    <2>6. CASE cmd[t] # "none"
      <3>0. armed \subseteq armed' /\ (kubeconfig => kubeconfig')
        BY <2>6
      <3>1. Delivered(t)'
        BY <2>1, <2>2, <3>0 DEF SessionInv, Delivered, Same
      <3>2. ASSUME cmd[t] \in Adding
            PROVE  PendingFresh(t)' /\ ClaimsHeld(t)' /\ DoneUp(t)'
        <4>1. PendingFresh(t) /\ ClaimsHeld(t) /\ DoneUp(t)
          BY <2>1, <3>2 DEF SessionInv
        <4>2. \A n \in Claimed(t) : ctr'[n] = ctr[n] /\ vol'[n] = vol[n]
          BY <3>2
        <4>3. PendingFresh(t)' /\ ClaimsHeld(t)'
          BY <4>1, <4>2, <2>2, <2>4, PendingClaimed DEF PendingFresh, ClaimsHeld
        <4>4. DoneUp(t)'
          BY <4>1, <4>2, <2>1, <2>2, <2>4, <3>0, PendingClaimed DEF DoneUp, Same
        <4> QED
          BY <4>3, <4>4
      <3> QED
        BY <2>1, <2>3, <3>1, <3>2 DEF SessionInv, Same
    <2> QED
      BY <2>5, <2>6
  <1>2. ClaimsDisjoint'
    <2> SUFFICES ASSUME NEW a \in Session, NEW b \in Session, a # b,
                        cmd'[a] \in Adding, cmd'[b] \in Adding
                 PROVE  Claimed(a)' \cap Claimed(b)' = {}
      BY DEF ClaimsDisjoint
    <2>1. \A t \in Session \ {s} : cmd'[t] = cmd[t] /\ Claimed(t)' = Claimed(t)
      BY SameSets DEF Same
    <2>2. CASE a # s /\ b # s
      BY <2>1, <2>2 DEF AddsInv, ClaimsDisjoint
    <2>3. CASE a = s
      BY <2>1, <2>3
    <2>4. CASE b = s
      BY <2>1, <2>4
    <2> QED
      BY <2>2, <2>3, <2>4
  <1> QED
    BY <1>1, <1>2 DEF AddsInv

-----------------------------------------------------------------------------
(* Who is at a step *)

(* Which command a session executes can be read off the step it is at. *)
LEMMA ByPC ==
    ASSUME TypeOK, AddsInv, NEW s \in Session
    PROVE  /\ pc[s] \in AddingPC \ {"save"} => cmd[s] \in Adding
           /\ pc[s] \notin AddingPC \cup {"idle"} => cmd[s] \in Teardown
           /\ pc[s] = "save" => cmd[s] \in Adding \cup {"removeNode"}
           /\ cmd[s] \in Teardown => \A t \in Session \ {s} : cmd[t] = "none"
           /\ cmd[s] \in Adding => cmd[s] \notin Teardown
  BY DEF AddsInv, SessionInv, Shape, TypeOK, Command, Adding, Teardown, AddingPC, Alone

(* No step but the start of a command can end the privacy of a teardown. *)
LEMMA AloneKept ==
    ASSUME AddsInv, NEW s \in Session, \A t \in Session \ {s} : Same(t),
           cmd'[s] \in {cmd[s], "none"}
    PROVE  Alone'
  <1> SUFFICES ASSUME NEW a \in Session, NEW b \in Session, a # b, cmd'[a] \in Teardown
               PROVE  cmd'[b] = "none"
    BY DEF Alone
  <1>1. \A t \in Session : cmd'[t] \in {cmd[t], "none"}
    BY DEF Same
  <1>2. cmd[a] \in Teardown
    BY <1>1 DEF Teardown
  <1> QED
    BY <1>1, <1>2 DEF AddsInv, Alone

(* Nothing is asked of an idle session. *)
LEMMA IdleInv ==
    ASSUME NEW s \in Session, cmd'[s] = "none", pc'[s] = "idle"
    PROVE  SessionInv(s)'
  BY DEF SessionInv, Shape, InPlan, Delivered, Adding, Teardown

-----------------------------------------------------------------------------
(* The end of a command and the steps of a teardown *)

(* A run that ends leaves the invariant to the others. *)
LEMMA EndKeeps ==
    ASSUME TypeOK, AddsInv, NEW s \in Session, End(s),
           UNCHANGED <<ctr, vol, armed>>,
           (disk = "ok" => kubeconfig)',
           (kubeconfig => kubeconfig') \/ cmd[s] \in Teardown
    PROVE  AddsInv'
  <1>1. cmd'[s] = "none" /\ pc'[s] = "idle" /\ \A t \in Session \ {s} : Same(t)
    BY EndFrame
  <1>2. SessionInv(s)' /\ cmd'[s] \notin Adding
    BY <1>1, IdleInv DEF Adding
  <1>3. Alone'
    BY <1>1, AloneKept
  <1>4. Mounted'
    BY DEF AddsInv, Mounted
  <1> QED
    BY <1>1, <1>2, <1>3, <1>4, ByPC, Composed

(* A step of a teardown, which runs alone, may do what it likes with nodes. *)
LEMMA TeardownKeeps ==
    ASSUME TypeOK, AddsInv, NEW s \in Session, cmd[s] \in Teardown,
           \A t \in Session \ {s} : Same(t),
           cmd'[s] = cmd[s],
           pc'[s] \notin AddingPC \cup {"idle"}
               \/ (pc'[s] = "save" /\ cmd[s] = "removeNode"),
           Mounted', UNCHANGED <<disk, kubeconfig>>
    PROVE  AddsInv'
  <1>1. \A t \in Session \ {s} : cmd[t] = "none"
    BY ByPC
  <1>2. SessionInv(s)
    BY DEF AddsInv
  <1>3. SessionInv(s)'
    BY <1>2 DEF SessionInv, Shape, InPlan, Delivered, Adding, Teardown, AddingPC
  <1>4. Alone' /\ cmd'[s] \notin Adding
    BY AloneKept DEF Adding, Teardown
  <1>5. (disk = "ok" => kubeconfig)'
    BY DEF AddsInv
  <1>6. \A t \in Session \ {s} : cmd[t] \notin Adding
    BY <1>1 DEF Adding
  <1> QED
    BY <1>1, <1>3, <1>4, <1>5, <1>6, Composed

(* A teardown stays among its own steps from call to call. *)
LEMMA AfterCallFrame ==
    ASSUME TypeOK, NEW s \in Session, NEW n, AfterCall(s, n)
    PROVE  /\ \/ pc'[s] \notin AddingPC \cup {"idle"}
              \/ pc'[s] = "save" /\ cmd[s] = "removeNode"
           /\ pc[s] \notin AddingPC \cup {"idle"}
           /\ \A t \in Session \ {s} :
                 pc'[t] = pc[t] /\ todo'[t] = todo[t] /\ at'[t] = at[t]
  <1>1. PICK p \in {"remove", "volume", "stop", "save", "listContainers",
                    "sweepRemove", "sweepStop", "listVolumes", "sweepVolume",
                    "deleteNetwork"} :
            /\ Stay(s, p, n) \/ \E S : Enter(s, p, S)
            /\ p = "save" => cmd[s] = "removeNode"
    BY DEF AfterCall, NodeDone, NextInLoop
  <1>2. /\ pc'[s] = p
        /\ \A t \in Session \ {s} :
              pc'[t] = pc[t] /\ todo'[t] = todo[t] /\ at'[t] = at[t]
    BY <1>1, StayFrame, EnterFrame
  <1>3. pc[s] \in {"stop", "remove", "volume", "sweepStop", "sweepRemove", "sweepVolume"}
    BY DEF AfterCall
  <1> QED
    BY <1>1, <1>2, <1>3 DEF AddingPC

(* Every step of RemoveNode and Destroy keeps the invariant. *)
LEMMA TeardownAdds ==
    ASSUME TypeOK, AddsInv, NEW s \in Session, TeardownStep(s)
    PROVE  AddsInv'
  <1>t. \A n \in Turn(s) : n \in Node
    BY TurnSubset
  <1>m. Mounted
    BY DEF AddsInv
  <1>1. CASE StopNode(s)
    <2>1. PICK n \in Turn(s) :
            /\ ctr' = IF ctr[n] = "running" THEN [ctr EXCEPT ![n] = "stopped"] ELSE ctr
            /\ AfterCall(s, n)
      BY <1>1 DEF StopNode
    <2>2. Mounted'
      BY <1>1, <1>t, <1>m, <2>1 DEF StopNode, Mounted, TypeOK
    <2>3. \A t \in Session \ {s} : Same(t)
      BY <1>1, <2>1, AfterCallFrame DEF StopNode, Same
    <2> QED
      BY <1>1, <2>1, <2>2, <2>3, AfterCallFrame, ByPC, TeardownKeeps DEF StopNode, dir
  <1>2. CASE RemoveContainer(s)
    <2>1. PICK n \in Turn(s) :
            ctr' = [ctr EXCEPT ![n] = "absent"] /\ AfterCall(s, n)
      BY <1>2 DEF RemoveContainer
    <2>2. Mounted'
      BY <1>2, <1>t, <1>m, <2>1 DEF RemoveContainer, Mounted, TypeOK
    <2>3. \A t \in Session \ {s} : Same(t)
      BY <1>2, <2>1, AfterCallFrame DEF RemoveContainer, Same
    <2> QED
      BY <1>2, <2>1, <2>2, <2>3, AfterCallFrame, ByPC, TeardownKeeps
         DEF RemoveContainer, dir
  <1>3. CASE DeleteVolume(s)
    <2>1. PICK n \in Turn(s) :
            /\ ctr[n] = "absent" \/ vol[n] = "absent"
            /\ vol' = [vol EXCEPT ![n] = "absent"]
            /\ AfterCall(s, n)
      BY <1>3 DEF DeleteVolume
    <2>2. Mounted'
      BY <1>3, <1>t, <1>m, <2>1 DEF DeleteVolume, Mounted, TypeOK
    <2>3. \A t \in Session \ {s} : Same(t)
      BY <1>3, <2>1, AfterCallFrame DEF DeleteVolume, Same
    <2> QED
      BY <1>3, <2>1, <2>2, <2>3, AfterCallFrame, ByPC, TeardownKeeps DEF DeleteVolume, dir
  <1>4. ASSUME NEW p \in {"listVolumes", "sweepStop", "deleteNetwork", "sweepVolume",
                          "removeDir"},
               NEW S, Enter(s, p, S), cmd' = cmd, plan' = plan, mem' = mem,
               pc[s] \notin AddingPC \cup {"idle"},
               UNCHANGED <<ctr, vol, dir>>
        PROVE  AddsInv'
    <2>1. pc'[s] = p /\ \A t \in Session \ {s} : Same(t)
      BY <1>4, EnterFrame DEF Same
    <2>2. Mounted'
      BY <1>4, <1>m DEF Mounted
    <2>3. p \notin AddingPC \cup {"idle"}
      BY DEF AddingPC
    <2> QED
      BY <1>4, <2>1, <2>2, <2>3, ByPC, TeardownKeeps DEF dir
  <1>5. CASE ListContainers(s)
    BY <1>4, <1>5 DEF ListContainers, runtime, AddingPC
  <1>6. CASE ListVolumes(s)
    BY <1>4, <1>6 DEF ListVolumes, runtime, AddingPC
  <1>7. CASE DeleteNetwork(s)
    BY <1>4, <1>7 DEF DeleteNetwork, AddingPC
  <1>8. CASE RemoveDir(s)
    <2>1. pc[s] \notin AddingPC \cup {"idle"} /\ End(s)
      BY <1>8 DEF RemoveDir, AddingPC
    <2> QED
      BY <1>8, <2>1, ByPC, EndKeeps DEF RemoveDir, runtime
  <1> QED
    BY <1>1, <1>2, <1>3, <1>5, <1>6, <1>7, <1>8 DEF TeardownStep

-----------------------------------------------------------------------------
(* The start of a command *)

(* A command that starts with no claim keeps the invariant, because          *)
(* MayOverlap lets it in only beside commands that add nodes.               *)
LEMMA StartKeeps ==
    ASSUME TypeOK, AddsInv, OnlyAddsOverlap, NEW s \in Session,
           NEW c, NEW p, NEW work, NEW P, NEW known,
           Start(s, c, p, work, P, known),
           SessionInv(s)', c \in Command,
           c \in Adding => Claimed(s)' = {}
    PROVE  AddsInv'
  <1>1. cmd'[s] = c /\ \A t \in Session \ {s} : Same(t)
    BY StartFrame
  <1>2. Alone'
    <2> SUFFICES ASSUME NEW a \in Session, NEW b \in Session, a # b, cmd'[a] \in Teardown
                 PROVE  cmd'[b] = "none"
      BY DEF Alone
    <2>1. \A t \in Session \ {s} : cmd'[t] = cmd[t]
      BY <1>1 DEF Same
    <2>2. \A t \in Session \ {s} :
              cmd[t] # "none" => c \in Adding /\ cmd[t] \in Adding
      BY DEF Start, OnlyAddsOverlap
    <2>3. \A x \in Teardown : x \notin Adding /\ x # "none"
      BY DEF Teardown, Adding
    <2>4. CASE a = s
      BY <1>1, <2>1, <2>2, <2>3, <2>4
    <2>5. CASE b = s
      BY <1>1, <2>1, <2>2, <2>3, <2>5
    <2>6. CASE a # s /\ b # s
      BY <2>1, <2>6 DEF AddsInv, Alone
    <2> QED
      BY <2>4, <2>5, <2>6
  <1>3. Mounted' /\ (disk = "ok" => kubeconfig)'
    BY DEF AddsInv, Mounted, Start, runtime, dir
  <1>4. UNCHANGED <<ctr, vol, armed, kubeconfig>>
    BY DEF Start, runtime, dir
  <1> QED
    BY <1>1, <1>2, <1>3, <1>4, Composed

(* AddAgents and AddServer start with nothing claimed. *)
LEMMA StartAddInv ==
    ASSUME TypeOK, AddsInv, disk = "ok", NEW s \in Session,
           NEW c \in {"addAgents", "addServer"}, NEW new \in SUBSET Node,
           \A n \in new : n.role \in {"agent", "server"},
           NEW known, Start(s, c, "volumes", new, new, known)
    PROVE  SessionInv(s)' /\ Claimed(s)' = {}
  <1>1. cmd'[s] = c /\ pc'[s] = "volumes" /\ todo'[s] = new /\ plan'[s] = new
    BY StartFrame
  <1>2. Members(new) = {} /\ K3sNodes(new) = new
    BY DEF Members, K3sNodes, Servers, Agents
  <1>3. kubeconfig'
    BY DEF AddsInv, Start, dir
  <1>4. Pending(s)' = {} /\ Claimed(s)' = {} /\ Done(s)' = {}
    BY <1>1, <1>2 DEF Pending, Claimed, Done
  <1> QED
    BY <1>1, <1>2, <1>3, <1>4
       DEF SessionInv, Shape, InPlan, Delivered, PendingFresh, ClaimsHeld, DoneUp,
           Adding, Teardown, AddingPC, LBPC

(* RemoveNode and Destroy start on steps of their own. *)
LEMMA StartTeardownInv ==
    ASSUME TypeOK, AddsInv, NEW s \in Session, NEW c \in Teardown,
           c = "removeNode" => disk = "ok",
           NEW p \in {"stop", "listContainers"}, NEW work, NEW P, NEW known,
           Start(s, c, p, work, P, known)
    PROVE  SessionInv(s)' /\ c \in Command \ Adding
  <1>1. cmd'[s] = c /\ pc'[s] = p
    BY StartFrame
  <1>2. c = "removeNode" => kubeconfig'
    BY DEF AddsInv, Start, dir
  <1> QED
    BY <1>1, <1>2
       DEF SessionInv, Shape, InPlan, Delivered, Adding, Teardown, AddingPC, Command

(* The start of each of the five commands keeps the invariant. *)
LEMMA BeginAdds ==
    ASSUME TypeOK, AddsInv, OnlyAddsOverlap, NEW s \in Session, Begin(s)
    PROVE  AddsInv'
  <1>1. CASE StartCreate(s)
    <2>1. PICK c \in Clusters : Start(s, "create", "network", {}, c, {})
      BY <1>1 DEF StartCreate
    <2>2. cmd'[s] = "create" /\ pc'[s] = "network" /\ plan'[s] = c
      BY <2>1, StartFrame
    <2>3. Pending(s)' = {} /\ Claimed(s)' = {} /\ Done(s)' = {}
      BY <2>2 DEF Pending, Claimed, Done
    <2>4. SessionInv(s)'
      BY <2>2, <2>3, ConstantsAssumption
         DEF SessionInv, Shape, InPlan, Delivered, PendingFresh, ClaimsHeld, DoneUp,
             Adding, Teardown, AddingPC, LBPC
    <2>5. "create" \in Command
      BY DEF Command
    <2> QED
      BY <2>1, <2>3, <2>4, <2>5, StartKeeps
  <1>2. CASE StartAddAgents(s)
    <2>1. PICK i \in 1..MaxIndex, count \in 1..MaxIndex :
              /\ i + count - 1 <= MaxIndex
              /\ Start(s, "addAgents", "volumes",
                       [role : {"agent"}, idx : i..(i + count - 1)],
                       [role : {"agent"}, idx : i..(i + count - 1)], recorded)
      BY <1>2 DEF StartAddAgents
    <2> DEFINE new == [role : {"agent"}, idx : i..(i + count - 1)]
    <2>2. new \in SUBSET Node
      BY <2>1, ConstantsAssumption DEF Node, Role
    <2>3. \A n \in new : n.role \in {"agent", "server"}
      OBVIOUS
    <2>4. Start(s, "addAgents", "volumes", new, new, recorded) /\ disk = "ok"
      BY <1>2, <2>1 DEF StartAddAgents
    <2> HIDE DEF new
    <2>5. SessionInv(s)' /\ Claimed(s)' = {}
      BY <2>2, <2>3, <2>4, StartAddInv
    <2>6. "addAgents" \in Command
      BY DEF Command
    <2> QED
      BY <2>4, <2>5, <2>6, StartKeeps
  <1>3. CASE StartAddServer(s)
    <2>1. PICK i \in 1..MaxIndex :
              Start(s, "addServer", "volumes", [role : {"server"}, idx : {i}],
                    [role : {"server"}, idx : {i}], recorded)
      BY <1>3 DEF StartAddServer
    <2> DEFINE new == [role : {"server"}, idx : {i}]
    <2>2. new \in SUBSET Node
      BY ConstantsAssumption DEF Node, Role
    <2>3. \A n \in new : n.role \in {"agent", "server"}
      OBVIOUS
    <2>4. Start(s, "addServer", "volumes", new, new, recorded) /\ disk = "ok"
      BY <1>3, <2>1 DEF StartAddServer
    <2> HIDE DEF new
    <2>5. SessionInv(s)' /\ Claimed(s)' = {}
      BY <2>2, <2>3, <2>4, StartAddInv
    <2>6. "addServer" \in Command
      BY DEF Command
    <2> QED
      BY <2>4, <2>5, <2>6, StartKeeps
  <1>4. CASE StartRemoveNode(s)
    <2>1. PICK n \in recorded : Start(s, "removeNode", "stop", {n}, {n}, recorded)
      BY <1>4 DEF StartRemoveNode
    <2>2. disk = "ok" /\ "removeNode" \in Teardown
      BY <1>4 DEF StartRemoveNode, Teardown
    <2>3. SessionInv(s)' /\ "removeNode" \in Command \ Adding
      BY <2>1, <2>2, StartTeardownInv
    <2> QED
      BY <2>1, <2>3, StartKeeps
  <1>5. CASE StartDestroy(s)
    <2>1. PICK p \in {"stop", "listContainers"} :
              Start(s, "destroy", p, recorded, recorded, recorded)
      BY <1>5 DEF StartDestroy
    <2>2. "destroy" \in Teardown
      BY DEF Teardown
    <2>3. SessionInv(s)' /\ "destroy" \in Command \ Adding
      BY <2>1, <2>2, StartTeardownInv
    <2> QED
      BY <2>1, <2>3, StartKeeps
  <1> QED
    BY <1>1, <1>2, <1>3, <1>4, <1>5 DEF Begin

-----------------------------------------------------------------------------
(* The steps of a bring-up *)

(* Only nodes that have a volume are claimed. *)
LEMMA ClaimedNodes ==
    ASSUME TypeOK, NEW t \in Session
    PROVE  Claimed(t) \subseteq Node /\ \A n \in Claimed(t) : HasVolume(n)
  BY DEF TypeOK, Claimed, Members, HasVolume

(* N are the nodes whose container or volume the step changes.              *)
LEMMA BringUpKeeps ==
    ASSUME TypeOK, AddsInv, NEW s \in Session, cmd[s] \in Adding, cmd' = cmd,
           \A t \in Session \ {s} : Same(t),
           NEW N, Claimed(s)' \subseteq Claimed(s) \cup N,
           \A t \in Session \ {s} : cmd[t] \in Adding => N \cap Claimed(t) = {},
           \A n \in Node \ N : ctr'[n] = ctr[n] /\ vol'[n] = vol[n],
           armed \subseteq armed', kubeconfig => kubeconfig', disk' = disk,
           Mounted', SessionInv(s)'
    PROVE  AddsInv'
  <1>1. Alone'
    BY AloneKept
  <1>2. (disk = "ok" => kubeconfig)'
    BY DEF AddsInv
  <1>3. \A t \in Session \ {s} : cmd[t] \in Adding =>
            /\ Claimed(s) \cap Claimed(t) = {}
            /\ Claimed(s)' \cap Claimed(t) = {}
    BY DEF AddsInv, ClaimsDisjoint
  <1>4. \A t \in Session \ {s} : cmd[t] \in Adding =>
            \A n \in Claimed(t) : ctr'[n] = ctr[n] /\ vol'[n] = vol[n]
    BY ClaimedNodes
  <1> QED
    BY <1>1, <1>2, <1>3, <1>4, Composed

(* A step that changes no container and no volume. *)
LEMMA QuietKeeps ==
    ASSUME TypeOK, AddsInv, NEW s \in Session, cmd[s] \in Adding, cmd' = cmd,
           plan' = plan, mem' = mem,
           NEW p, NEW S, Enter(s, p, S),
           Claimed(s)' \subseteq Claimed(s),
           UNCHANGED <<ctr, vol, armed, kubeconfig, disk>>, SessionInv(s)'
    PROVE  AddsInv'
  <1>1. \A t \in Session \ {s} : Same(t)
    BY EnterFrame DEF Same
  <1>2. Mounted'
    BY DEF AddsInv, Mounted
  <1> QED
    BY <1>1, <1>2, BringUpKeeps

(* The first index of a loop is one index. *)
LEMMA IsNextUnique ==
    ASSUME NEW S \in SUBSET Node, NEW m \in S, NEW n \in S,
           IsNext(m, S), IsNext(n, S)
    PROVE  m = n
  <1>1. \A x \in Node : Rank[x.role] \in Nat /\ x.idx \in Nat
    BY ConstantsAssumption DEF Node, Role, Rank
  <1>2. ASSUME m # n PROVE FALSE
    <2>1. Before(m, n) /\ Before(n, m)
      BY <1>2 DEF IsNext
    <2>2. \A x, y \in Node : x.role = y.role => Rank[x.role] = Rank[y.role]
      OBVIOUS
    <2>3. /\ Rank[m.role] \in Nat /\ m.idx \in Nat
          /\ Rank[n.role] \in Nat /\ n.idx \in Nat
      BY <1>1
    <2> QED
      BY <2>1, <2>2, <2>3 DEF Before
  <1> QED
    BY <1>2

(* Create goes from its network to its volumes with nothing claimed. *)
LEMMA EnsureNetworkAdds ==
    ASSUME TypeOK, AddsInv, NEW s \in Session, EnsureNetwork(s)
    PROVE  AddsInv'
  <1>1. cmd[s] \in Adding /\ pc[s] = "network"
    BY ByPC DEF EnsureNetwork, AddingPC
  <1>2. SessionInv(s) /\ plan[s] \subseteq Node
    BY DEF AddsInv, TypeOK
  <1>3. CASE Members(plan[s]) # {}
    <2>1. Enter(s, "etcdTLS", {})
      BY <1>3 DEF EnsureNetwork
    <2>2. pc'[s] = "etcdTLS"
      BY <2>1, EnterFrame
    <2>3. Pending(s)' = {} /\ Claimed(s)' = {} /\ Done(s)' = {}
      BY <2>2 DEF Pending, Claimed, Done
    <2>4. SessionInv(s)'
      BY <1>1, <1>2, <2>2, <2>3
         DEF EnsureNetwork, SessionInv, Shape, InPlan, Delivered, PendingFresh,
             ClaimsHeld, DoneUp, Adding, Teardown, AddingPC, LBPC, dir
    <2> QED
      BY <1>1, <2>1, <2>3, <2>4, QuietKeeps DEF EnsureNetwork, dir
  <1>4. CASE Members(plan[s]) = {}
    <2>1. Enter(s, "volumes", K3sNodes(plan[s]))
      BY <1>4 DEF EnsureNetwork
    <2>2. pc'[s] = "volumes" /\ todo'[s] = K3sNodes(plan[s]) /\ plan' = plan
      BY <2>1, EnterFrame DEF EnsureNetwork
    <2>3. \A n \in plan[s] : HasVolume(n) => n \in K3sNodes(plan[s])
      BY <1>2, <1>4 DEF Node, Role, HasVolume, K3sNodes, Servers, Agents, Members
    <2>4. Pending(s)' = {} /\ Claimed(s)' = {} /\ Done(s)' = {}
      BY <1>4, <2>2, <2>3 DEF Pending, Claimed, Done
    <2>5. SessionInv(s)'
      BY <1>1, <1>2, <2>2, <2>4
         DEF EnsureNetwork, SessionInv, Shape, InPlan, Delivered, PendingFresh,
             ClaimsHeld, DoneUp, Adding, Teardown, AddingPC, LBPC, dir
    <2> QED
      BY <1>1, <2>1, <2>4, <2>5, QuietKeeps DEF EnsureNetwork, dir
  <1> QED
    BY <1>3, <1>4

(* Writing the etcd bundle claims nothing. *)
LEMMA DeliverEtcdTLSAdds ==
    ASSUME TypeOK, AddsInv, NEW s \in Session, DeliverEtcdTLS(s)
    PROVE  AddsInv'
  <1>1. cmd[s] \in Adding /\ pc[s] = "etcdTLS" /\ Enter(s, "etcdVolumes", Members(plan[s]))
    BY ByPC DEF DeliverEtcdTLS, AddingPC
  <1>2. /\ pc'[s] = "etcdVolumes" /\ todo'[s] = Members(plan[s])
        /\ plan' = plan /\ cmd' = cmd /\ kubeconfig' = kubeconfig
    BY <1>1, EnterFrame DEF DeliverEtcdTLS
  <1>3. Pending(s)' = {} /\ Claimed(s)' = {} /\ Done(s)' = {}
    BY <1>2 DEF Pending, Claimed, Done
  <1>4. SessionInv(s)
    BY DEF AddsInv
  <1>5. SessionInv(s)'
    BY <1>1, <1>2, <1>3, <1>4
       DEF SessionInv, Shape, InPlan, Delivered, PendingFresh, ClaimsHeld, DoneUp,
           Adding, Teardown, AddingPC, LBPC
  <1> QED
    BY <1>1, <1>2, <1>3, <1>5, QuietKeeps DEF DeliverEtcdTLS

(* The etcd members are up and claimed when the k3s volumes begin. *)
LEMMA EtcdReadyAdds ==
    ASSUME TypeOK, AddsInv, NEW s \in Session, EtcdReady(s)
    PROVE  AddsInv'
  <1>1. /\ cmd[s] \in Adding /\ pc[s] = "etcdReady"
        /\ Enter(s, "volumes", K3sNodes(plan[s]))
    BY ByPC DEF EtcdReady, AddingPC
  <1>2. /\ pc'[s] = "volumes" /\ todo'[s] = K3sNodes(plan[s]) /\ plan' = plan
        /\ cmd' = cmd /\ mem' = mem
        /\ UNCHANGED <<ctr, vol, armed, kubeconfig, disk>>
    BY <1>1, EnterFrame DEF EtcdReady, runtime, dir
  <1>3. SessionInv(s) /\ plan[s] \subseteq Node
    BY DEF AddsInv, TypeOK
  <1>4. \A n \in plan[s] \ K3sNodes(plan[s]) : HasVolume(n) => n \in Members(plan[s])
    BY <1>3 DEF Node, Role, HasVolume, K3sNodes, Servers, Agents, Members
  <1>5. Pending(s)' = {} /\ Claimed(s)' \subseteq Claimed(s) /\ Done(s)' = Done(s)
    BY <1>1, <1>2, <1>4 DEF Pending, Claimed, Done
  <1>6. PendingFresh(s)' /\ ClaimsHeld(s)' /\ DoneUp(s)'
    BY <1>1, <1>2, <1>3, <1>5 DEF SessionInv, PendingFresh, ClaimsHeld, DoneUp
  <1>7. SessionInv(s)'
    BY <1>1, <1>2, <1>3, <1>5, <1>6
       DEF SessionInv, Shape, InPlan, Delivered, Adding, Teardown, AddingPC, LBPC
  <1> QED
    BY <1>1, <1>2, <1>5, <1>7, QuietKeeps

(* A created volume was absent, so that no other run claimed it. *)
LEMMA CreateVolumeAdds ==
    ASSUME TypeOK, AddsInv, NEW s \in Session, CreateVolume(s)
    PROVE  AddsInv'
  <1>1. cmd[s] \in Adding /\ pc[s] \in {"etcdVolumes", "volumes"} /\ SessionInv(s)
    BY ByPC DEF CreateVolume, AddingPC, AddsInv
  <1>2. PICK n \in Turn(s) :
          /\ vol[n] = "absent"
          /\ vol' = [vol EXCEPT ![n] = "blank"]
          /\ \/ todo[s] # {n} /\ Enter(s, pc[s], todo[s] \ {n})
             \/ /\ todo[s] = {n} /\ pc[s] = "etcdVolumes"
                /\ Enter(s, "etcdLaunch", Members(plan[s]))
             \/ /\ todo[s] = {n} /\ pc[s] = "volumes"
                /\ Enter(s, "launch", BringUp(plan[s]))
    BY DEF CreateVolume
  <1>3. n \in Node /\ n \in todo[s] /\ plan[s] \subseteq Node
    BY <1>1, TurnSubset DEF Turn, TypeOK
  <1>4. /\ ctr' = ctr /\ armed' = armed /\ kubeconfig' = kubeconfig /\ disk' = disk
        /\ cmd' = cmd /\ plan' = plan /\ mem' = mem
    BY DEF CreateVolume, dir
  <1>5. \A t \in Session \ {s} : Same(t)
    BY <1>2, <1>4, EnterFrame DEF Same
  <1>6. /\ vol'[n] = "blank" /\ \A m \in Node \ {n} : vol'[m] = vol[m]
    BY <1>2, <1>3 DEF TypeOK
  <1>7. HasVolume(n) /\ (pc[s] = "etcdVolumes" => n \in Members(plan[s]))
                    /\ (pc[s] = "volumes" => n \in K3sNodes(plan[s]))
    BY <1>1, <1>3 DEF SessionInv, InPlan, Members, K3sNodes, Servers, Agents, HasVolume
  <1>8. ctr[n] = "absent"
    BY <1>2, <1>3, <1>7 DEF AddsInv, Mounted
  <1>9. \A t \in Session \ {s} : cmd[t] \in Adding => {n} \cap Claimed(t) = {}
    BY <1>2 DEF AddsInv, SessionInv, ClaimsHeld
  <1>10. Mounted'
    BY <1>4, <1>6 DEF AddsInv, Mounted
  <1>11. /\ Pending(s)' \subseteq Pending(s) \cup {n}
         /\ Claimed(s)' \subseteq Claimed(s) \cup {n}
         /\ Done(s)' \subseteq Done(s)
         /\ Shape(s)' /\ InPlan(s)'
    <2>1. CASE todo[s] # {n} /\ Enter(s, pc[s], todo[s] \ {n})
      <3>1. pc'[s] = pc[s] /\ todo'[s] = todo[s] \ {n}
        BY <2>1, EnterFrame
      <3>2. Shape(s)' /\ InPlan(s)'
        BY <1>1, <1>4, <3>1 DEF SessionInv, Shape, InPlan
      <3> QED
        BY <1>1, <1>4, <3>1, <3>2, <1>7 DEF Pending, Claimed, Done
    <2>2. CASE /\ todo[s] = {n} /\ pc[s] = "etcdVolumes"
               /\ Enter(s, "etcdLaunch", Members(plan[s]))
      <3>1. pc'[s] = "etcdLaunch" /\ todo'[s] = Members(plan[s])
        BY <2>2, EnterFrame
      <3>2. Shape(s)' /\ InPlan(s)'
        BY <1>1, <1>4, <3>1
           DEF SessionInv, Shape, InPlan, Adding, Teardown, AddingPC, LBPC
      <3> QED
        BY <1>4, <2>2, <3>1, <3>2 DEF Pending, Claimed, Done
    <2>3. CASE /\ todo[s] = {n} /\ pc[s] = "volumes"
               /\ Enter(s, "launch", BringUp(plan[s]))
      <3>1. pc'[s] = "launch" /\ todo'[s] = BringUp(plan[s])
        BY <2>3, EnterFrame
      <3>2. Shape(s)' /\ InPlan(s)'
        BY <1>1, <1>4, <3>1
           DEF SessionInv, Shape, InPlan, Adding, Teardown, AddingPC, LBPC
      <3>3. \A m \in BringUp(plan[s]) : HasVolume(m) => m \in K3sNodes(plan[s])
        BY <1>3 DEF Node, Role, HasVolume, K3sNodes, Servers, Agents, Members, BringUp
      <3>4. plan[s] \ BringUp(plan[s]) = Members(plan[s])
        BY DEF BringUp, Members
      <3>5. Pending(s)' \subseteq Pending(s) \cup {n}
        BY <1>4, <2>3, <3>1, <3>3 DEF Pending
      <3>6. Claimed(s)' \subseteq Claimed(s) \cup {n}
        BY <1>4, <2>3, <3>1 DEF Claimed
      <3>7. Done(s)' \subseteq Done(s)
        BY <1>4, <2>3, <3>1, <3>4 DEF Done
      <3> QED
        BY <3>2, <3>5, <3>6, <3>7
    <2> QED
      BY <1>2, <2>1, <2>2, <2>3
  <1>12. Pending(s) \subseteq Node /\ Claimed(s) \subseteq Node
    BY <1>1, ClaimedNodes, PendingClaimed DEF SessionInv
  <1>13. PendingFresh(s)' /\ ClaimsHeld(s)' /\ DoneUp(s)' /\ Delivered(s)'
    <2>1. PendingFresh(s) /\ ClaimsHeld(s) /\ DoneUp(s) /\ Delivered(s)
      BY <1>1 DEF SessionInv
    <2>2. PendingFresh(s)'
      BY <2>1, <1>4, <1>6, <1>8, <1>11, <1>12 DEF PendingFresh
    <2>3. ClaimsHeld(s)'
      BY <2>1, <1>6, <1>11, <1>12 DEF ClaimsHeld
    <2>4. DoneUp(s)' /\ Delivered(s)'
      BY <2>1, <1>4, <1>11 DEF DoneUp, Delivered
    <2> QED
      BY <2>2, <2>3, <2>4
  <1>14. SessionInv(s)'
    BY <1>11, <1>13 DEF SessionInv
  <1> QED
    BY <1>1, <1>4, <1>5, <1>6, <1>9, <1>10, <1>11, <1>14, BringUpKeeps

(* An etcd member is launched from what is pending. *)
LEMMA LaunchMemberAdds ==
    ASSUME TypeOK, AddsInv, NEW s \in Session, LaunchMember(s)
    PROVE  AddsInv'
  <1>1. cmd[s] \in Adding /\ pc[s] = "etcdLaunch" /\ SessionInv(s)
    BY ByPC DEF LaunchMember, AddingPC, AddsInv
  <1>2. PICK n \in Turn(s) :
          /\ ctr' = [ctr EXCEPT ![n] = "running"]
          /\ vol' = [vol EXCEPT ![n] = "used"]
          /\ mem' = [mem EXCEPT ![s] = @ \cup {n}]
          /\ IF todo[s] = {n} THEN Enter(s, "etcdReady", {})
                             ELSE Enter(s, "etcdLaunch", todo[s] \ {n})
    BY DEF LaunchMember
  <1>3. n \in Node /\ n \in todo[s] /\ n \in Members(plan[s])
    BY <1>1, TurnSubset DEF Turn, SessionInv, InPlan
  <1>4. /\ armed' = armed /\ kubeconfig' = kubeconfig /\ disk' = disk
        /\ cmd' = cmd /\ plan' = plan /\ mem'[s] = mem[s] \cup {n}
        /\ \A t \in Session \ {s} : mem'[t] = mem[t]
    BY <1>2 DEF LaunchMember, dir, TypeOK
  <1>5. \A t \in Session \ {s} : Same(t)
    BY <1>2, <1>4, EnterFrame DEF Same
  <1>6. /\ vol'[n] = "used" /\ ctr'[n] = "running"
        /\ \A m \in Node \ {n} : vol'[m] = vol[m] /\ ctr'[m] = ctr[m]
    BY <1>2, <1>3 DEF TypeOK
  <1>7. n \in Claimed(s)
    BY <1>1, <1>3 DEF Claimed
  <1>8. Mounted'
    BY <1>6 DEF AddsInv, Mounted
  <1>9. /\ Pending(s)' = Pending(s) \ {n} /\ Claimed(s)' = Claimed(s)
        /\ Done(s)' \subseteq Done(s) \cup {n}
        /\ Shape(s)' /\ InPlan(s)'
    <2>1. CASE todo[s] = {n}
      <3>1. pc'[s] = "etcdReady" /\ todo'[s] = {}
        BY <1>2, <2>1, EnterFrame
      <3> QED
        BY <1>1, <1>4, <2>1, <3>1
           DEF Pending, Claimed, Done, SessionInv, Shape, InPlan, Adding, Teardown,
               AddingPC, LBPC
    <2>2. CASE todo[s] # {n}
      <3>1. pc'[s] = "etcdLaunch" /\ todo'[s] = todo[s] \ {n}
        BY <1>2, <2>2, EnterFrame
      <3>2. Shape(s)' /\ InPlan(s)'
        BY <1>1, <1>4, <3>1 DEF SessionInv, Shape, InPlan
      <3> QED
        BY <1>1, <1>4, <3>1, <3>2 DEF Pending, Claimed, Done
    <2> QED
      BY <2>1, <2>2
  <1>10. Pending(s) \subseteq Node /\ Claimed(s) \subseteq Node /\ Done(s) \subseteq Node
    BY <1>1, ClaimedNodes, PendingClaimed DEF SessionInv, TypeOK, Done, Members
  <1>11. n.role = "datastore" /\ n # Bootstrap
    BY <1>3 DEF Members, Bootstrap
  <1>12. PendingFresh(s)' /\ ClaimsHeld(s)' /\ DoneUp(s)' /\ Delivered(s)'
    <2>1. PendingFresh(s) /\ ClaimsHeld(s) /\ DoneUp(s) /\ Delivered(s)
      BY <1>1 DEF SessionInv
    <2>2. PendingFresh(s)' /\ ClaimsHeld(s)'
      BY <2>1, <1>6, <1>9, <1>10 DEF PendingFresh, ClaimsHeld
    <2>3. DoneUp(s)'
      BY <2>1, <1>4, <1>6, <1>9, <1>10, <1>11 DEF DoneUp
    <2>4. Delivered(s)'
      BY <2>1, <1>4, <1>9, <1>11 DEF Delivered
    <2> QED
      BY <2>2, <2>3, <2>4
  <1>13. SessionInv(s)'
    BY <1>9, <1>12 DEF SessionInv
  <1>14. \A t \in Session \ {s} : cmd[t] \in Adding => {n} \cap Claimed(t) = {}
    BY <1>1, <1>7 DEF AddsInv, ClaimsDisjoint
  <1> QED
    BY <1>1, <1>4, <1>5, <1>6, <1>8, <1>9, <1>13, <1>14, BringUpKeeps

(* A server, the load balancer or an agent is launched from what is pending. *)
LEMMA LaunchNodeAdds ==
    ASSUME TypeOK, AddsInv, NEW s \in Session, LaunchNode(s)
    PROVE  AddsInv'
  <1>1. cmd[s] \in Adding /\ pc[s] = "launch" /\ SessionInv(s)
    BY ByPC DEF LaunchNode, AddingPC, AddsInv
  <1>2. PICK n \in Turn(s) :
          /\ ctr' = [ctr EXCEPT ![n] = "running"]
          /\ vol' = IF HasVolume(n) THEN [vol EXCEPT ![n] = "used"] ELSE vol
    BY DEF LaunchNode
  <1>3. n \in Node /\ n \in todo[s] /\ n \in BringUp(plan[s])
    BY <1>1, TurnSubset DEF Turn, SessionInv, InPlan
  <1>4. /\ armed' = armed /\ kubeconfig' = kubeconfig /\ disk' = disk
        /\ cmd' = cmd /\ plan' = plan /\ mem' = mem /\ Enter(s, "arm", todo[s])
    BY DEF LaunchNode
  <1>5. /\ pc'[s] = "arm" /\ todo'[s] = todo[s]
        /\ \A t \in Session \ {s} : Same(t)
    BY <1>4, EnterFrame DEF Same
  <1>6. /\ ctr'[n] = "running" /\ (HasVolume(n) => vol'[n] = "used")
        /\ \A m \in Node \ {n} : vol'[m] = vol[m] /\ ctr'[m] = ctr[m]
        /\ ~HasVolume(n) => vol' = vol
    BY <1>2, <1>3 DEF TypeOK
  <1>7. HasVolume(n) => n \in Claimed(s)
    BY <1>1, <1>3 DEF Claimed, BringUp
  <1>8. Mounted'
    BY <1>6 DEF AddsInv, Mounted
  <1>9. Turn(s)' = Turn(s)
    BY <1>1, <1>5 DEF Turn
  <1>10. /\ Pending(s)' \subseteq Pending(s) \ {n} /\ Claimed(s)' = Claimed(s)
         /\ Done(s)' = Done(s)
    BY <1>1, <1>2, <1>4, <1>5, <1>9 DEF Pending, Claimed, Done
  <1>11. Shape(s)' /\ InPlan(s)'
    BY <1>1, <1>4, <1>5 DEF SessionInv, Shape, InPlan, Adding, Teardown, AddingPC, LBPC
  <1>12. Pending(s) \subseteq Node /\ Claimed(s) \subseteq Node /\ Done(s) \subseteq Node
    BY <1>1, ClaimedNodes, PendingClaimed DEF SessionInv, TypeOK, Done
  <1>13. n \notin Done(s)
    BY <1>1, <1>3 DEF Done
  <1>14. PendingFresh(s)' /\ ClaimsHeld(s)' /\ DoneUp(s)' /\ Delivered(s)'
    <2>1. PendingFresh(s) /\ ClaimsHeld(s) /\ DoneUp(s) /\ Delivered(s)
      BY <1>1 DEF SessionInv
    <2>2. PendingFresh(s)'
      BY <2>1, <1>6, <1>10, <1>12 DEF PendingFresh
    <2>3. ClaimsHeld(s)'
      BY <2>1, <1>6, <1>10, <1>12 DEF ClaimsHeld
    <2>4. DoneUp(s)'
      BY <2>1, <1>4, <1>6, <1>10, <1>12, <1>13 DEF DoneUp
    <2>5. Delivered(s)'
      BY <2>1, <1>4, <1>10 DEF Delivered
    <2> QED
      BY <2>2, <2>3, <2>4, <2>5
  <1>15. SessionInv(s)'
    BY <1>11, <1>14 DEF SessionInv
  <1>16. \A t \in Session \ {s} : cmd[t] \in Adding => {n} \cap Claimed(t) = {}
    BY <1>1, <1>7, ClaimedNodes DEF AddsInv, ClaimsDisjoint
  <1> QED
    BY <1>1, <1>4, <1>5, <1>6, <1>8, <1>10, <1>15, <1>16, BringUpKeeps

(* A node that is armed is done with. *)
LEMMA ArmNodeAdds ==
    ASSUME TypeOK, AddsInv, NEW s \in Session, ArmNode(s)
    PROVE  AddsInv'
  <1>1. cmd[s] \in Adding /\ pc[s] = "arm" /\ SessionInv(s)
    BY ByPC DEF ArmNode, AddingPC, AddsInv
  <1>2. PICK n \in Turn(s) :
          /\ ctr[n] = "running"
          /\ armed' = IF n.role = "lb" THEN armed ELSE armed \cup {n}
          /\ kubeconfig' = (kubeconfig \/ (cmd[s] = "create" /\ n = Bootstrap))
          /\ mem' = [mem EXCEPT ![s] = @ \cup {n}]
          /\ IF todo[s] # {n} THEN Enter(s, "launch", todo[s] \ {n})
             ELSE Enter(s, IF cmd[s] = "addServer" THEN "lbConfig" ELSE "save", {})
    BY DEF ArmNode
  <1>3. n \in Node /\ n \in todo[s] /\ IsNext(n, todo[s]) /\ todo[s] \subseteq Node
    BY <1>1, TurnSubset DEF Turn, TypeOK
  <1>4. /\ ctr' = ctr /\ vol' = vol /\ disk' = disk /\ cmd' = cmd /\ plan' = plan
        /\ mem'[s] = mem[s] \cup {n}
        /\ \A t \in Session \ {s} : mem'[t] = mem[t]
    BY <1>2 DEF ArmNode, TypeOK
  <1>5. \A t \in Session \ {s} : Same(t)
    BY <1>2, <1>4, EnterFrame DEF Same
  <1>6. Mounted'
    BY <1>4 DEF AddsInv, Mounted
  <1>7. Turn(s) = {n}
    BY <1>1, <1>3, IsNextUnique DEF Turn
  <1>8. /\ Pending(s)' \subseteq Pending(s) /\ Claimed(s)' = Claimed(s)
        /\ Done(s)' \subseteq Done(s) \cup {n}
        /\ Shape(s)' /\ InPlan(s)'
    <2>1. CASE todo[s] # {n}
      <3>1. pc'[s] = "launch" /\ todo'[s] = todo[s] \ {n}
        BY <1>2, <2>1, EnterFrame
      <3>2. Shape(s)' /\ InPlan(s)'
        BY <1>1, <1>4, <3>1
           DEF SessionInv, Shape, InPlan, Adding, Teardown, AddingPC, LBPC
      <3> QED
        BY <1>1, <1>4, <1>7, <3>1, <3>2 DEF Pending, Claimed, Done
    <2>2. CASE todo[s] = {n}
      <3>1. pc'[s] \in {"lbConfig", "save"} /\ (cmd[s] = "create" => pc'[s] = "save")
        BY <1>2, <2>2, EnterFrame
      <3>2. Shape(s)' /\ InPlan(s)'
        BY <1>1, <1>4, <3>1
           DEF SessionInv, Shape, InPlan, Adding, Teardown, AddingPC, LBPC
      <3> QED
        BY <1>1, <1>4, <2>2, <3>1, <3>2 DEF Pending, Claimed, Done
    <2> QED
      BY <2>1, <2>2
  <1>9. /\ armed \subseteq armed' /\ (n.role # "lb" => n \in armed')
        /\ kubeconfig => kubeconfig'
        /\ cmd[s] = "create" /\ n = Bootstrap => kubeconfig'
    BY <1>2
  <1>10. PendingFresh(s)' /\ ClaimsHeld(s)' /\ DoneUp(s)' /\ Delivered(s)'
    <2>1. PendingFresh(s) /\ ClaimsHeld(s) /\ DoneUp(s) /\ Delivered(s)
      BY <1>1 DEF SessionInv
    <2>2. PendingFresh(s)' /\ ClaimsHeld(s)'
      BY <2>1, <1>4, <1>8 DEF PendingFresh, ClaimsHeld
    <2>3. DoneUp(s)'
      BY <2>1, <1>2, <1>4, <1>8, <1>9 DEF DoneUp
    <2>4. Delivered(s)'
      BY <2>1, <1>4, <1>8, <1>9 DEF Delivered
    <2> QED
      BY <2>2, <2>3, <2>4
  <1>11. SessionInv(s)'
    BY <1>8, <1>10 DEF SessionInv
  <1>12. /\ Claimed(s)' \subseteq Claimed(s) \cup {}
         /\ \A t \in Session \ {s} : cmd[t] \in Adding => {} \cap Claimed(t) = {}
         /\ \A m \in Node \ {} : ctr'[m] = ctr[m] /\ vol'[m] = vol[m]
    BY <1>4, <1>8
  <1> QED
    BY <1>1, <1>4, <1>5, <1>6, <1>9, <1>11, <1>12, BringUpKeeps

(* The three steps of refreshAPILB touch at most the load balancer.         *)
LEMMA RefreshLBAdds ==
    ASSUME TypeOK, AddsInv, NEW s \in Session,
           ConfigureLB(s) \/ StopLB(s) \/ StartLB(s)
    PROVE  AddsInv'
  <1>1. cmd[s] \in Adding /\ pc[s] \in LBPC /\ SessionInv(s) /\ cmd[s] # "create"
    BY ByPC DEF ConfigureLB, StopLB, StartLB, AddingPC, AddsInv, LBPC, SessionInv, Shape
  <1>2. PICK p \in {"lbStop", "lbStart", "save"} : Enter(s, p, {})
    BY DEF ConfigureLB, StopLB, StartLB
  <1>3. /\ vol' = vol /\ armed' = armed /\ kubeconfig' = kubeconfig /\ disk' = disk
        /\ cmd' = cmd /\ plan' = plan /\ mem' = mem
    BY DEF ConfigureLB, StopLB, StartLB, runtime, dir
  <1>4. \A n \in Node \ {TheLB} : ctr'[n] = ctr[n] /\ vol'[n] = vol[n]
    BY <1>3, TheLBIsNode DEF ConfigureLB, StopLB, StartLB, runtime, TypeOK
  <1>5. ~HasVolume(TheLB)
    BY DEF HasVolume, TheLB
  <1>6. pc'[s] = p /\ \A t \in Session \ {s} : Same(t)
    BY <1>2, <1>3, EnterFrame DEF Same
  <1>7. Mounted'
    BY <1>4, <1>5 DEF AddsInv, Mounted
  <1>8. Pending(s)' = {} /\ Claimed(s)' = Claimed(s) /\ Done(s)' = Done(s)
    BY <1>1, <1>3, <1>6 DEF Pending, Claimed, Done, LBPC
  <1>9. Done(s) \subseteq Node
    BY <1>1 DEF Done, LBPC, TypeOK
  <1>10. SessionInv(s)'
    <2>1. Shape(s)' /\ InPlan(s)' /\ Delivered(s)'
      BY <1>1, <1>3, <1>6, <1>8
         DEF SessionInv, Shape, InPlan, Delivered, Adding, Teardown, AddingPC, LBPC
    <2>2. PendingFresh(s)' /\ ClaimsHeld(s)'
      BY <1>1, <1>3, <1>8 DEF SessionInv, PendingFresh, ClaimsHeld
    <2>3. DoneUp(s)'
      BY <1>1, <1>3, <1>4, <1>5, <1>8, <1>9 DEF SessionInv, DoneUp
    <2> QED
      BY <2>1, <2>2, <2>3 DEF SessionInv
  <1>11. \A t \in Session \ {s} : cmd[t] \in Adding => {TheLB} \cap Claimed(t) = {}
    BY <1>5, ClaimedNodes
  <1> QED
    BY <1>1, <1>3, <1>4, <1>6, <1>7, <1>8, <1>10, <1>11, BringUpKeeps

(* A run that saves has a kubeconfig on disk. *)
LEMMA SavedDelivered ==
    ASSUME TypeOK, AddsInv, NEW s \in Session, pc[s] = "save"
    PROVE  kubeconfig
  <1>1. SessionInv(s) /\ cmd[s] \in Adding \cup {"removeNode"}
    BY ByPC DEF AddsInv
  <1>2. cmd[s] = "create" => Bootstrap \in Done(s)
    BY <1>1 DEF SessionInv, InPlan, Done
  <1> QED
    BY <1>1, <1>2 DEF SessionInv, Delivered, Adding

(* Every step of Create, AddAgents and AddServer keeps the invariant. *)
LEMMA BringUpAdds ==
    ASSUME TypeOK, AddsInv, NEW s \in Session, BringUpStep(s)
    PROVE  AddsInv'
  <1>1. CASE SaveState(s)
    <2>1. pc[s] = "save" /\ End(s) /\ UNCHANGED <<ctr, vol, armed, kubeconfig>>
      BY <1>1 DEF SaveState, runtime
    <2> QED
      BY <2>1, SavedDelivered, EndKeeps
  <1> QED
    BY <1>1, EnsureNetworkAdds, DeliverEtcdTLSAdds, CreateVolumeAdds, LaunchMemberAdds,
       EtcdReadyAdds, LaunchNodeAdds, ArmNodeAdds, RefreshLBAdds DEF BringUpStep

-----------------------------------------------------------------------------
(* Errors *)

(* A Destroy that collects an error and goes on keeps the invariant. *)
LEMMA CollectAdds ==
    ASSUME TypeOK, AddsInv, NEW s \in Session,
           CollectOfList(s) \/ \E n \in Turn(s) : CollectOf(s, n)
    PROVE  AddsInv'
  <1>1. /\ cmd[s] \in Teardown /\ cmd' = cmd /\ plan' = plan /\ mem' = mem
        /\ UNCHANGED <<ctr, vol, disk, kubeconfig>>
    BY DEF CollectOfList, CollectOf, Collect, Teardown, runtime, dir
  <1>2. Mounted'
    BY <1>1 DEF AddsInv, Mounted
  <1>3. CASE CollectOfList(s)
    <2>1. PICK p \in {"listVolumes", "deleteNetwork", "removeDir"} : Enter(s, p, {})
      BY <1>3 DEF CollectOfList
    <2>2. pc'[s] \notin AddingPC \cup {"idle"} /\ \A t \in Session \ {s} : Same(t)
      BY <1>1, <2>1, EnterFrame DEF Same, AddingPC
    <2> QED
      BY <1>1, <1>2, <2>2, TeardownKeeps
  <1>4. ASSUME NEW n \in Turn(s), CollectOf(s, n) PROVE AddsInv'
    <2>1. AfterCall(s, n)
      BY <1>4 DEF CollectOf
    <2>2. \A t \in Session \ {s} : Same(t)
      BY <1>1, <2>1, AfterCallFrame DEF Same
    <2> QED
      BY <1>1, <1>2, <2>1, <2>2, AfterCallFrame, TeardownKeeps
  <1> QED
    BY <1>3, <1>4

(* A run that gives up or dies keeps the invariant. *)
LEMMA GiveUpAdds ==
    ASSUME TypeOK, AddsInv, NEW s \in Session, End(s),
           UNCHANGED <<runtime, kubeconfig, disk>>
    PROVE  AddsInv'
  <1>1. UNCHANGED <<ctr, vol, armed, kubeconfig, disk>>
    BY DEF runtime
  <1>2. (disk = "ok" => kubeconfig)'
    BY <1>1 DEF AddsInv
  <1> QED
    BY <1>1, <1>2, EndKeeps

(* Every step of a session keeps the invariant. *)
LEMMA StepAdds ==
    ASSUME TypeOK, AddsInv, OnlyAddsOverlap, NEW s \in Session, Step(s)
    PROVE  AddsInv'
  <1>1. CASE RefusedCall(s)
    BY <1>1, CollectAdds, GiveUpAdds DEF RefusedCall, GiveUp
  <1>2. CASE Fault(s)
    <2>1. CASE Die(s)
      BY <2>1, GiveUpAdds DEF Die
    <2>2. CASE DieInSave(s)
      <3>1. /\ End(s) /\ disk' = "torn" /\ UNCHANGED <<ctr, vol, armed, kubeconfig>>
        BY <2>2 DEF DieInSave, runtime
      <3> QED
        BY <3>1, EndKeeps
    <2> QED
      BY <1>2, <2>1, <2>2, CollectAdds DEF Fault
  <1> QED
    BY <1>1, <1>2, BeginAdds, BringUpAdds, TeardownAdds DEF Step, Work

(* The invariant is inductive, relative to the types. *)
LEMMA NextAdds ==
    ASSUME OnlyAddsOverlap
    PROVE  TypeOK /\ AddsInv /\ [Next]_vars => AddsInv'
  <1> SUFFICES ASSUME TypeOK, AddsInv, [Next]_vars PROVE AddsInv'
    OBVIOUS
  <1>1. CASE UNCHANGED vars
    <2>1. /\ UNCHANGED <<ctr, vol, armed, kubeconfig, disk, cmd>>
          /\ \A t \in Session : Same(t)
      BY <1>1 DEF vars, runtime, dir, Same
    <2>2. \A t \in Session :
              /\ Pending(t)' = Pending(t) /\ Claimed(t)' = Claimed(t)
              /\ Done(t)' = Done(t)
      BY <2>1, SameSets
    <2>3. \A t \in Session : SessionInv(t)'
      <3> SUFFICES ASSUME NEW t \in Session PROVE SessionInv(t)'
        OBVIOUS
      <3>1. SessionInv(t) /\ Same(t)
        BY <2>1 DEF AddsInv
      <3>2. Shape(t)' /\ InPlan(t)' /\ Delivered(t)'
        BY <3>1, <2>1, <2>2 DEF SessionInv, Shape, InPlan, Delivered, Same
      <3>3. cmd[t] \in Adding => PendingFresh(t)' /\ ClaimsHeld(t)' /\ DoneUp(t)'
        BY <3>1, <2>1, <2>2 DEF SessionInv, PendingFresh, ClaimsHeld, DoneUp, Same
      <3> QED
        BY <3>2, <3>3, <2>1 DEF SessionInv
    <2>4. Alone' /\ Mounted' /\ ClaimsDisjoint' /\ (disk = "ok" => kubeconfig)'
      BY <2>1, <2>2 DEF AddsInv, Alone, Mounted, ClaimsDisjoint
    <2> QED
      BY <2>3, <2>4 DEF AddsInv
  <1>2. CASE Next
    BY <1>2, StepAdds DEF Next, Step
  <1> QED
    BY <1>1, <1>2

(* The invariant holds of an empty host. *)
LEMMA InitAdds == Init => AddsInv
  <1> SUFFICES ASSUME Init PROVE AddsInv
    OBVIOUS
  <1>1. \A s \in Session : cmd[s] = "none" /\ pc[s] = "idle"
    BY DEF Init
  <1>2. \A s \in Session : SessionInv(s)
    BY <1>1 DEF SessionInv, Shape, InPlan, Delivered, Adding, Teardown
  <1>3. Alone /\ ClaimsDisjoint
    BY <1>1 DEF Alone, ClaimsDisjoint, Adding
  <1>4. Mounted /\ disk = "absent"
    BY DEF Init, Mounted
  <1> QED
    BY <1>2, <1>3, <1>4 DEF AddsInv

(* The inductive invariant: every run of AddAgents, AddServer and Create    *)
(* holds the volumes it counts on, alone, and what it has launched is up.   *)
THEOREM AddsInvariant ==
    ASSUME OnlyAddsOverlap
    PROVE  Spec => [](TypeOK /\ AddsInv)
  <1>1. Init => TypeOK /\ AddsInv
    BY InitTypeOK, InitAdds
  <1>2. TypeOK /\ AddsInv /\ [Next]_vars => (TypeOK /\ AddsInv)'
    BY NextTypeOK, NextAdds
  <1> QED
    BY <1>1, <1>2, PTL DEF Spec

(* Of overlapping Create, AddAgents and AddServer, no two hold the volume   *)
(* of the same node name (nextIndexForPrefix may give it to both).          *)
THEOREM NamesAreClaimedOnce ==
    ASSUME OnlyAddsOverlap
    PROVE  Spec => []ClaimsDisjoint
  <1>1. TypeOK /\ AddsInv => ClaimsDisjoint
    BY DEF AddsInv
  <1> QED
    BY <1>1, AddsInvariant, PTL

(* The volume guard of prepareNodeVolumes is enough: past it launchNode is  *)
(* refused for no node that has a volume.                                   *)
THEOREM GuardCoversLaunches ==
    ASSUME OnlyAddsOverlap
    PROVE  Spec => []RefusesBeforeLaunching
  <1>1. ASSUME TypeOK, AddsInv PROVE RefusesBeforeLaunching
    <2> SUFFICES ASSUME NEW s \in Session, pc[s] \in {"etcdLaunch", "launch"},
                        NEW n \in Turn(s), HasVolume(n)
                 PROVE  Launchable(n)
      BY DEF RefusesBeforeLaunching
    <2>1. cmd[s] \in Adding /\ SessionInv(s)
      BY <1>1, ByPC DEF AddingPC, AddsInv
    <2>2. n \in Pending(s)
      BY DEF Turn, Pending
    <2> QED
      BY <2>1, <2>2 DEF SessionInv, PendingFresh, Launchable
  <1> QED
    BY <1>1, AddsInvariant, PTL

(* launchNode and provisionEtcdCluster never boot a node on a volume that   *)
(* an earlier node of its name has used.                                    *)
THEOREM NoStaleBoot ==
    ASSUME OnlyAddsOverlap
    PROVE  Spec => LaunchesFresh
  <1>1. ASSUME TypeOK, AddsInv, [Next]_vars, NEW n \in Node,
               ctr[n] = "absent", ctr'[n] = "running", HasVolume(n)
        PROVE  vol[n] = "blank"
    <2>1. PICK s \in Session : LaunchMember(s) \/ LaunchNode(s)
      <3>1. CASE UNCHANGED vars
        BY <1>1, <3>1 DEF vars, runtime
      <3>2. ASSUME NEW s \in Session, Step(s)
            PROVE  LaunchMember(s) \/ LaunchNode(s)
        <4>1. ASSUME ctr' = ctr PROVE FALSE
          BY <1>1, <4>1
        <4>2. ~Begin(s) /\ ~RefusedCall(s) /\ ~Fault(s)
          BY <4>1 DEF Begin, StartCreate, StartAddAgents, StartAddServer, StartRemoveNode,
             StartDestroy, Start, RefusedCall, GiveUp, CollectOf, CollectOfList, Collect,
             Fault, Die, DieInSave, runtime
        <4>3. TheLB \in Node /\ n # TheLB
          BY <1>1, TheLBIsNode DEF HasVolume, TheLB
        <4>4. ~StopLB(s) /\ ~StartLB(s)
          BY <1>1, <4>3 DEF StopLB, StartLB, TypeOK
        <4>5. ~StopNode(s) /\ ~RemoveContainer(s)
          BY <1>1 DEF StopNode, RemoveContainer, TypeOK
        <4>6. ~DeleteVolume(s) /\ ~ListContainers(s) /\ ~ListVolumes(s)
              /\ ~DeleteNetwork(s) /\ ~RemoveDir(s)
          BY <4>1 DEF DeleteVolume, ListContainers, ListVolumes, DeleteNetwork, RemoveDir,
             runtime
        <4>7. ~EnsureNetwork(s) /\ ~DeliverEtcdTLS(s) /\ ~CreateVolume(s) /\ ~EtcdReady(s)
              /\ ~ArmNode(s) /\ ~ConfigureLB(s) /\ ~SaveState(s)
          BY <4>1 DEF EnsureNetwork, DeliverEtcdTLS, CreateVolume, EtcdReady, ArmNode,
             ConfigureLB, SaveState, runtime
        <4> QED
          BY <3>2, <4>2, <4>4, <4>5, <4>6, <4>7 DEF Step, Work, BringUpStep, TeardownStep
      <3> QED
        BY <1>1, <3>1, <3>2 DEF Next, Step
    <2>2. cmd[s] \in Adding /\ SessionInv(s) /\ pc[s] \in {"etcdLaunch", "launch"}
      BY <1>1, <2>1, ByPC DEF LaunchMember, LaunchNode, AddingPC, AddsInv
    <2>3. PICK m \in Turn(s) : ctr' = [ctr EXCEPT ![m] = "running"]
      BY <2>1 DEF LaunchMember, LaunchNode
    <2>4. m = n
      BY <1>1, <2>3 DEF TypeOK
    <2>5. n \in Pending(s)
      BY <1>1, <2>2, <2>3, <2>4 DEF Turn, Pending
    <2> QED
      BY <2>2, <2>5 DEF SessionInv, PendingFresh
  <1>2. TypeOK /\ AddsInv /\ [Next]_vars =>
            [\A n \in Node :
                ctr[n] = "absent" /\ ctr'[n] = "running" /\ HasVolume(n)
                    => vol[n] = "blank"]_vars
    BY <1>1
  <1> QED
    BY <1>2, AddsInvariant, PTL DEF Spec, LaunchesFresh

(* A step of r moves the program counter of r only. *)
LEMMA StepFrame ==
    ASSUME TypeOK, NEW r \in Session, Step(r)
    PROVE  \A t \in Session \ {r} : pc'[t] = pc[t]
  <1>1. ASSUME \/ \E p, S : Enter(r, p, S)
               \/ End(r)
               \/ \E n : AfterCall(r, n)
               \/ \E c, p, work, P, known : Start(r, c, p, work, P, known)
        PROVE  \A t \in Session \ {r} : pc'[t] = pc[t]
    BY <1>1, EnterFrame, EndFrame, AfterCallFrame, StartFrame DEF Same
  <1>2. CASE Begin(r)
    BY <1>1, <1>2 DEF Begin, StartCreate, StartAddAgents, StartAddServer,
       StartRemoveNode, StartDestroy
  <1>3. CASE BringUpStep(r)
    BY <1>1, <1>3 DEF BringUpStep, EnsureNetwork, DeliverEtcdTLS, CreateVolume,
       LaunchMember, EtcdReady, LaunchNode, ArmNode, ConfigureLB, StopLB, StartLB, SaveState
  <1>4. CASE TeardownStep(r)
    BY <1>1, <1>4 DEF TeardownStep, StopNode, RemoveContainer, DeleteVolume,
       ListContainers, ListVolumes, DeleteNetwork, RemoveDir
  <1>5. CASE RefusedCall(r) \/ Fault(r)
    BY <1>1, <1>5 DEF RefusedCall, Fault, GiveUp, CollectOf, CollectOfList, Die, DieInSave
  <1> QED
    BY <1>2, <1>3, <1>4, <1>5 DEF Step, Work

(* What Create, AddAgents and AddServer give saveState is up, with its IP   *)
(* forwarding on, and the kubeconfig is delivered.                          *)
THEOREM CommitsAreLive ==
    ASSUME OnlyAddsOverlap
    PROVE  Spec => CommitsLive
  <1>1. ASSUME TypeOK, AddsInv, [Next]_vars, NEW s \in Session, SaveState(s),
               cmd[s] \in Adding
        PROVE  /\ plan[s] \subseteq recorded'
               /\ \A n \in plan[s] : HasVolume(n) => ctr[n] = "running"
               /\ K3sNodes(plan[s]) \subseteq armed
               /\ kubeconfig
    <2>1. pc[s] = "save"
      BY <1>1 DEF SaveState
    <2>2. SessionInv(s) /\ Done(s) = plan[s]
      BY <1>1, <2>1 DEF AddsInv, Done
    <2>3. kubeconfig
      BY <1>1, <2>1, SavedDelivered
    <2>4. /\ plan[s] \subseteq mem[s]
          /\ \A n \in plan[s] : HasVolume(n) => ctr[n] = "running"
          /\ K3sNodes(plan[s]) \subseteq armed
      BY <1>1, <2>2 DEF SessionInv, DoneUp, K3sNodes, Servers, Agents
    <2>5. recorded' = mem[s]
      BY <1>1 DEF SaveState, Adding
    <2> QED
      BY <2>3, <2>4, <2>5
  <1>2. TypeOK /\ AddsInv /\ [Next]_vars =>
            [\A s \in Session : SaveState(s) /\ cmd[s] \in Adding =>
                /\ plan[s] \subseteq recorded'
                /\ \A n \in plan[s] : HasVolume(n) => ctr[n] = "running"
                /\ K3sNodes(plan[s]) \subseteq armed
                /\ kubeconfig]_vars
    BY <1>1
  <1> QED
    BY <1>2, AddsInvariant, PTL DEF Spec, CommitsLive
=============================================================================
