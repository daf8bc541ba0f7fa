---------------------------- MODULE RollingProps -----------------------------
(***************************************************************************)
(* What the rolling replace and the token rotation promise.                *)
(***************************************************************************)
EXTENDS RollingReplace

PC == {"idle", "cordon", "deleteNode", "rotate", "clearCerts", "stop", "remove",
       "launch", "arm", "wait", "uncordon", "resolve", "save"}

(* The type invariant; a command at work knows which image it launches.     *)
TypeOK ==
    /\ ctr \in [Nodes -> {"running", "stopped", "absent"}]
    /\ img \in [Nodes -> Image \cup {Unset}]
    /\ tok \in [Nodes -> Token]
    /\ cert \in [Nodes -> {"none", "current", "old"}]
    /\ obj \in [Nodes -> {"none", "current", "old"}]
    /\ armed \subseteq Nodes /\ up \subseteq Nodes
    /\ api \subseteq Server /\ up \cap Server \subseteq api
    /\ torn \in BOOLEAN /\ cordoned \subseteq Nodes
    /\ secret \in Token /\ newToken \in Token
    /\ image \in Image \cup {Unset} /\ previous \in Image \cup {Unset}
    /\ target \in IF cmd = "none" THEN {Unset} ELSE Image
    /\ known \subseteq Nodes /\ mem \subseteq Nodes
    /\ cmd \in Command \cup {"none"} /\ pc \in PC
    /\ todo \subseteq Nodes /\ downAtStart \subseteq Nodes
    /\ smooth \in BOOLEAN /\ faults \in 0..MaxFaults

(* The command met no fault, and no node that was down when it began.       *)
Unhindered == smooth /\ downAtStart = {}

(* What "so only ever one node is down at a time" (rollOneNode) comes to: a *)
(* roll takes a node down only when those it has replaced before are back,  *)
(* or their old Node object stands in for them, because a best-effort       *)
(* delete of it failed or k3s wrote it again before it was stopped.  The    *)
(* others that are down it found down, as a retry does.  And when no call   *)
(* failed and it found every node up, no old object does stand in.          *)
OneDownAtATime ==
    cmd \in Rolling =>
        /\ Down \subseteq downAtStart \cup Turn \cup Stale
        /\ Unhindered => Down \subseteq Turn

(* A node that served when a command began is not relaunched over serving   *)
(* certificates made for the address it had, whichever of its calls failed  *)
(* (recreateK3sNode clears them while it can).  Not so for a node that was  *)
(* still coming up: k3s may make them anew between the `rm` and the stop.   *)
NoStaleCert ==
    [][\A n \in Nodes :
         ctr[n] = "absent" /\ ctr'[n] = "running" /\ n \notin downAtStart
             => cert'[n] # "old"]_vars

(* However rotations, rolls and their failures follow one another, no node  *)
(* is left with a token that is neither recorded nor the datastore's; a     *)
(* rotation that died leaves two tokens about, and a repeated one does not  *)
(* make it three.                                                           *)
TokensInPlay ==
    /\ secret # "lost"
    /\ \A n \in Nodes : ctr[n] # "absent" => tok[n] \in {"recorded", secret}

Saves == pc = "save" /\ pc' = "idle" /\ faults' = faults

(* A command that reports success has repaired what earlier ones left: all  *)
(* nodes run the recorded image (after a roll) or hold the recorded token,  *)
(* which is the datastore's (after a rotation), with their kernel settings  *)
(* made where they run.  After a roll a node is back, or else its old Node  *)
(* object was taken for it; after one that met no fault and no node down    *)
(* all are back, none is cordoned and every recorded address is right.  A   *)
(* rotation waits for nobody, and so promises no node that serves.          *)
SuccessConverges ==
    [][Saves =>
        /\ \A n \in Nodes : ctr[n] = "running" => n \in armed
        /\ cmd \in Rolling =>
             /\ Down \subseteq Stale
             /\ \A n \in Nodes : img[n] = image'
             /\ Unhindered => Down = {} /\ cordoned = {} /\ known' = Nodes
        /\ cmd = "rotateToken" => /\ secret' = "recorded"
                                  /\ \A n \in Nodes : tok'[n] = "recorded"
      ]_vars

(* The recorded and the previous image change as ImagePins says, in         *)
(* particular only when every node runs the new one (PreviousImage,         *)
(* types.go: "the k3s image the cluster ran BEFORE the most recent          *)
(* -upgrade").                                                              *)
Abstract ==
    INSTANCE ImagePins WITH
        image <- Resolved(image),
        goal <- IF cmd = "none" THEN Resolved(image) ELSE target,
        runs <- img

ImplementsPins == Abstract!Spec

(* A roll of a sound cluster, when no call of it fails, is never refused    *)
(* and never waits in vain: each node it recreates finds what it needs to   *)
(* come up (the comments of kubectlDeleteNodeArgs and recreateK3sNode).     *)
Undisturbed == cmd \in Rolling /\ Unhindered /\ secret = "recorded"

UndisturbedRollsSucceed ==
    Undisturbed => /\ ~Refused
                   /\ pc = "wait" => \A n \in Turn : CanServe(n)

-----------------------------------------------------------------------------
(* "a retry after a partial recreate is safe" (rmStaleServingCertsArgs):    *)
(* the command that clears the certificates finds the container it is to    *)
(* run in.                                                                  *)
RetryFindsContainer ==
    pc = "clearCerts" => \A n \in Turn : ctr[n] = "running"

(* "Confirm the node is back on the new image before moving to the next, so *)
(* only ever one node is down at a time" (rollOneNode), of a roll that      *)
(* found every node up.                                                     *)
OnlyOneDown ==
    cmd \in Rolling /\ downAtStart = {} => \A m, n \in Down : m = n
=============================================================================
