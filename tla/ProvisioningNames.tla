-------------------------- MODULE ProvisioningNames --------------------------
(***************************************************************************)
(* Provisioning with a memory of the names -remove-node has freed, which   *)
(* state.json does not keep.                                               *)
(***************************************************************************)
EXTENDS ProvisioningProps

VARIABLE freed      \* nodes removed since the cluster's state dir was made

namesVars == <<vars, freed>>

NamesInit == Init /\ freed = {}

Removes(s) == cmd[s] = "removeNode" /\ cmd'[s] = "none"

NamesNext ==
    /\ Next
    /\ freed' = IF disk' = "absent" THEN {}
                ELSE IF \E s \in Session : Removes(s)
                     THEN freed \cup (recorded \ recorded')
                     ELSE freed

NamesSpec == NamesInit /\ [][NamesNext]_namesVars

(* "re-running AddAgents never collides with current nodes or with names    *)
(* freed by a prior remove" and "new agents always get a fresh, unused      *)
(* index" (node_ops.go, AddAgents and nextAgentIndex).                      *)
FreedNamesStayFree ==
    [][\A s \in Session :
          cmd[s] = "none" /\ cmd'[s] = "addAgents" => plan'[s] \cap freed = {}]_namesVars
=============================================================================
