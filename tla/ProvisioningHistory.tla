------------------------ MODULE ProvisioningHistory --------------------------
(***************************************************************************)
(* Provisioning with a memory of whether a call has failed by itself, or a *)
(* command was rejected with nodes on the host, since the beginning or     *)
(* since the last Destroy that reported no error; and how it implements    *)
(* Membership.                                                             *)
(***************************************************************************)
EXTENDS RecordInv

VARIABLE sound

historyVars == <<vars, sound>>

(* A Destroy returns with no error.                                         *)
DestroysCleanly(s) ==
    pc[s] = "removeDir" /\ ~errs[s] /\ pc'[s] = "idle" /\ faults' = faults

HistoryInit == Init /\ sound = TRUE

HistoryNext ==
    /\ Next
    /\ sound' = (\/ \E s \in Session : DestroysCleanly(s)
                 \/ sound /\ faults' = faults /\ \A s \in Session : ~Strands(s))

HistorySpec == HistoryInit /\ [][HistoryNext]_historyVars

FairHistorySpec == HistorySpec /\ Fairness

(* While things are sound, whatever happened before they last were not,     *)
(* state.json names exactly the containers, all running, and exactly the    *)
(* volumes that there are, whenever no command runs.  So no refusal that    *)
(* the state of the host is the reason for leaves a node or a volume        *)
(* behind, and nothing that failed is remembered by what a clean Destroy    *)
(* leaves.                                                                  *)
RecordHolds ==
    sound /\ (\A s \in Session : cmd[s] = "none") => Exactly(recorded)

(* The inductive invariant: only Destroy has errors to report, and the      *)
(* record and the host differ by what the command at work has done.         *)
Calm == \A s \in Session : cmd[s] # "destroy" => ~errs[s]

SoundInv == sound \in BOOLEAN /\ Calm /\ (sound => Matched)

-----------------------------------------------------------------------------
(* The nodes a command asks for; a Create over a cluster asks for nothing.  *)
Asked(s) ==
    CASE cmd[s] = "create"     -> IF recorded = {} THEN plan[s] ELSE recorded
      [] cmd[s] \in {"addAgents", "addServer"} -> recorded \cup plan[s]
      [] cmd[s] = "removeNode" -> recorded \ plan[s]
      [] cmd[s] = "destroy"    -> {}
      [] OTHER                 -> recorded

Busy == {s \in Session : cmd[s] # "none"}

Wanted == IF Busy = {} THEN recorded ELSE Asked(CHOOSE s \in Busy : TRUE)

OnHost == {n \in Node : ctr[n] # "absent" \/ vol[n] # "absent"}

Abstract ==
    INSTANCE Membership WITH
        Shapes <- Clusters, book <- recorded, host <- OnHost, goal <- Wanted

(* The five commands are transactions on the nodes of the cluster, one at a *)
(* time: each does all that it was asked for before state.json says so, and *)
(* makes or takes away nothing else.  One that is given up has changed      *)
(* nothing, unless a call failed by itself or it was rejected for a         *)
(* manifest or an address (create.go, node_ops.go, destroy.go).             *)
ImplementsMembership == Abstract!Spec
=============================================================================
