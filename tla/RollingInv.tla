----------------------------- MODULE RollingInv ------------------------------
(***************************************************************************)
(* The inductive invariant behind what RollingProofs proves: what each     *)
(* call of a command knows of the nodes its loop is done with, and of the  *)
(* node it is at.                                                          *)
(***************************************************************************)
EXTENDS RollingProps

Done == Nodes \ todo

(* Which calls a command makes, and where its loop begins and ends.         *)
Control ==
    /\ cmd = "none" <=> pc = "idle"
    /\ cmd = "rotateToken" =>
         pc \in {"rotate", "clearCerts", "stop", "remove", "launch", "arm", "save"}
    /\ cmd \in Rolling => pc # "rotate"
    /\ pc = "rotate" => todo = Nodes
    /\ pc \in {"resolve", "save"} => todo = {}

(* A rotation has given the new token to all the nodes it is done with.     *)
Tokens ==
    /\ TokensInPlay
    /\ cmd # "rotateToken" \/ pc = "rotate" => newToken = "recorded"
    /\ cmd = "rotateToken" /\ pc # "rotate" =>
         /\ newToken = "rotated" /\ secret = "rotated"
         /\ \A n \in Done : tok[n] = "rotated"
         /\ pc = "arm" => \A n \in Turn : tok[n] = "rotated"

(* A roll has given the new image to all the nodes it is done with.         *)
Images ==
    cmd \in Rolling =>
        /\ \A n \in Done : img[n] = target
        /\ pc \in {"arm", "wait", "uncordon"} => \A n \in Turn : img[n] = target

(* What serves runs, and what is being replaced does not; the Node object   *)
(* of a node that runs has its address only if its kubelet put it there.    *)
Machines ==
    /\ \A n \in api \cup up : ctr[n] = "running"
    /\ \A n \in up : obj[n] # "old"
    /\ \A n \in Nodes : ctr[n] = "running" /\ obj[n] = "current" => n \in up
    /\ pc \in {"arm", "wait", "uncordon"} =>
         \A n \in Turn : obj[n] = "current" => n \in up
    /\ pc \in {"remove", "launch"} => \A n \in Turn : ctr[n] # "running"

(* The nodes a roll is done with are back or their old Node objects stand   *)
(* in for them; the others are as it found them.                            *)
Downs ==
    cmd \in Rolling =>
        /\ \A n \in Down : n \in Turn \/ n \in Stale \/ n \in downAtStart \cap todo
        /\ pc = "uncordon" => \A n \in Turn : Ready(n) \/ n \in Stale

Arming ==
    cmd # "none" =>
        /\ \A n \in Done : ctr[n] = "running" => n \in armed
        /\ pc \in {"wait", "uncordon"} =>
             \A n \in Turn : ctr[n] = "running" => n \in armed

(* No old Node object misleads an unhindered roll: each is deleted while    *)
(* there is an API server to ask.                                           *)
Smooth ==
    cmd \in Rolling /\ Unhindered =>
        /\ Stale = {}
        /\ pc \in {"clearCerts", "stop", "remove", "launch"} =>
             \A n \in Turn : obj[n] = "none"
        /\ pc = "uncordon" => ApiUp
        /\ Done \cap cordoned = {}
        /\ pc = "save" => mem = Nodes

(* A node that served when the command began serves until it is stopped, so *)
(* that nothing makes its certificates anew once they are cleared.          *)
Untouched ==
    cmd # "none" =>
        /\ \A n \in todo \ downAtStart :
             \/ n \in up
             \/ n \in Turn /\ pc \in {"remove", "launch", "arm", "wait", "uncordon"}
        /\ pc \in {"stop", "remove", "launch"} =>
             \A n \in Turn \ downAtStart : cert[n] = "none"

(* What an undisturbed roll has done for the node it replaces.              *)
Replaced ==
    Undisturbed => \A n \in Turn :
        /\ pc = "launch" => ctr[n] = "absent"
        /\ pc \in {"arm", "wait"} =>
             ctr[n] = "running" /\ tok[n] = secret /\ cert[n] # "old"

RollInv ==
    /\ TypeOK /\ Control /\ Tokens /\ Images /\ Machines
    /\ Downs /\ Arming /\ Smooth /\ Untouched /\ Replaced
=============================================================================
