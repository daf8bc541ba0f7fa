--------------------------- MODULE RollingReplace ---------------------------
(***************************************************************************)
(* -upgrade, -rollback and -rotate-token: each k3s node of a cluster is    *)
(* recreated, its container replaced and its named volume kept, servers    *)
(* first.  A command is a sequence of `container` and kubectl calls;       *)
(* between any two it may fail or be killed, which leaves all as it is,    *)
(* and the operator may run a command again.  state.json is written once,  *)
(* at the end; a death in the write leaves a file that no command reads.   *)
(*                                                                         *)
(* A container has a new address every time it is launched.  Addresses are *)
(* not counted: what holds one (a serving certificate on the volume, the   *)
(* Kubernetes Node object, state.json) is said to hold the current one or  *)
(* not.  Nor are tokens: one is the token on record, one that a rotation    *)
(* made and has not recorded, or lost, which is any other.                 *)
(* How k3s boots is modelled from what the comments rely on.               *)
(***************************************************************************)
EXTENDS NodeOrder

CONSTANTS
    Nodes,          \* the k3s nodes of the cluster
    Image,          \* k3s images
    Asked,          \* those an -upgrade asks for
    DefaultImage,   \* defaultK3sImage
    Unset,          \* the empty string, where an image may be missing
    FirstImage,     \* the image recorded at first: none before v0.2.0
    MaxFaults       \* bound on failing calls and deaths

Command == {"upgrade", "rollback", "rotateToken"}
Rolling == {"upgrade", "rollback"}
Server  == {n \in Nodes : n.role = "server"}
Token   == {"recorded", "rotated", "lost"}

ASSUME ConstantsAssumption ==
    /\ Nodes \subseteq [role : {"server", "agent"}, idx : Nat]
    /\ [role |-> "server", idx |-> 1] \in Nodes
    /\ IsFiniteSet(Nodes)
    /\ DefaultImage \in Image /\ Asked \subseteq Image /\ Unset \notin Image
    /\ FirstImage \in {DefaultImage, Unset}
    /\ MaxFaults \in Nat

VARIABLES
    \* the containers, the volumes and what runs
    ctr,          \* each node's container
    img, tok,     \* the image and the K3S_TOKEN it was launched with
    armed,        \* nodes whose kernel settings were set after their launch
    cert,         \* the serving certificates on each node's volume
    api,          \* servers whose k3s answers API calls
    up,           \* nodes whose kubelet has registered since their launch
    obj,          \* each node's address in its Kubernetes Node object
    cordoned,     \* nodes whose Node object is cordoned
    secret,       \* the token the datastore's bootstrap data is encrypted with
    \* state.json, as it was last written whole
    image, previous,
    known,        \* nodes whose recorded address is the current one
    torn,         \* a later write of it was cut short
    \* the run of k3ac
    cmd, pc,
    todo,         \* the nodes the loop is not done with
    target,       \* the image it launches nodes with
    newToken,     \* the token it launches nodes with
    mem,          \* known, of its copy of the state
    downAtStart,  \* the nodes that were down when it began
    smooth,       \* no fault has hit it
    faults

machines == <<ctr, img, tok, armed, cert, api, up, obj, cordoned, secret>>
disk     == <<image, previous, known, torn>>
run      == <<cmd, todo, target, newToken, mem, downAtStart>>
vars     == <<machines, disk, run, pc, smooth, faults>>

(* Back, with a Node object that its own kubelet keeps.                     *)
Ready(n) == n \in up /\ obj[n] = "current"
Down     == {n \in Nodes : ~Ready(n)}
Stale    == {n \in Nodes : obj[n] = "old"}
ApiUp    == api # {}
Turn     == FirstToRoll(todo)

(* Mutant: no default for a state that records no image.                    *)
ResolvedNever(i) == i

Resolved(i) == IF i = Unset THEN DefaultImage ELSE i

-----------------------------------------------------------------------------
Goto(p) == pc' = p /\ UNCHANGED run

(* To the next node, or past the loop.                                      *)
NextNode(n, head, tail) ==
    /\ todo' = todo \ {n}
    /\ pc' = IF todo = {n} THEN tail ELSE head
    /\ UNCHANGED <<cmd, target, newToken, downAtStart>>

Begin(c, p, i) ==
    /\ cmd = "none" /\ ~torn
    /\ cmd' = c /\ pc' = p /\ todo' = Nodes
    /\ target' = i
    /\ newToken' = "recorded"
    /\ mem' = known
    /\ downAtStart' = Down
    /\ smooth' = TRUE
    /\ UNCHANGED <<machines, disk>>

End ==
    /\ cmd' = "none" /\ pc' = "idle" /\ todo' = {}
    /\ target' = Unset /\ newToken' = "recorded" /\ mem' = {} /\ downAtStart' = {}

Upgrade == \E i \in Asked : Begin("upgrade", "cordon", i)

Rollback ==
    /\ previous # Unset
    /\ Begin("rollback", "cordon", previous)

RotateToken == Begin("rotateToken", "rotate", Resolved(image))

(* A file that does not parse ends every command.                           *)
LoadFails == cmd = "none" /\ torn /\ UNCHANGED vars

-----------------------------------------------------------------------------
(* kubectl calls are best-effort: without an API server they do nothing.    *)

Cordon(n) ==
    /\ pc = "cordon"
    /\ cordoned' = IF ApiUp /\ obj[n] # "none" THEN cordoned \cup {n} ELSE cordoned
    /\ Goto("deleteNode")
    /\ UNCHANGED <<ctr, img, tok, armed, cert, api, up, obj, secret, disk>>

(* Mutant: the Node object is left for the recreated kubelet to update.     *)
DeleteNodeObjectNever(n) ==
    /\ pc = "deleteNode"
    /\ obj' = obj
    /\ cordoned' = cordoned
    /\ Goto("clearCerts")
    /\ UNCHANGED <<ctr, img, tok, armed, cert, api, up, secret, disk>>

DeleteNodeObject(n) ==
    /\ pc = "deleteNode"
    /\ obj' = IF ApiUp THEN [obj EXCEPT ![n] = "none"] ELSE obj
    /\ cordoned' = IF ApiUp THEN cordoned \ {n} ELSE cordoned
    /\ Goto("clearCerts")
    /\ UNCHANGED <<ctr, img, tok, armed, cert, api, up, secret, disk>>

(* `k3s token rotate` on the first server: it must serve, and the token it  *)
(* is told to replace must be the one in use.                               *)
FirstServer == FirstToRoll(Server)

(* Mutant: the rotation is not told which token it replaces.                *)
RotatableUnchecked == FirstServer \subseteq api

Rotatable == FirstServer \subseteq api /\ secret = "recorded"

(* A second one would leave the first to the containers that hold it.       *)
RotateSecret ==
    /\ pc = "rotate"
    /\ Rotatable
    /\ secret' = "rotated"
    /\ newToken' = "rotated"
    /\ tok' = [n \in Nodes |-> IF tok[n] = "rotated" THEN "lost" ELSE tok[n]]
    /\ pc' = "clearCerts"
    /\ UNCHANGED <<ctr, img, armed, cert, api, up, obj, cordoned, disk,
                   cmd, todo, target, mem, downAtStart>>

-----------------------------------------------------------------------------
(* recreateK3sNode *)

(* Mutant: only a server's certificates are cleared.                        *)
ClearCertsServersOnly(n) ==
    /\ pc = "clearCerts"
    /\ ctr[n] = "running"
    /\ cert' = IF n \in Server THEN [cert EXCEPT ![n] = "none"] ELSE cert
    /\ Goto("stop")
    /\ UNCHANGED <<ctr, img, tok, armed, api, up, obj, cordoned, secret, disk>>

(* `rm -f` in the old container, which must be there and run.               *)
ClearCerts(n) ==
    /\ pc = "clearCerts"
    /\ ctr[n] = "running"
    /\ cert' = [cert EXCEPT ![n] = "none"]
    /\ Goto("stop")
    /\ UNCHANGED <<ctr, img, tok, armed, api, up, obj, cordoned, secret, disk>>

StopContainer(n) ==
    /\ pc = "stop"
    /\ ctr' = IF ctr[n] = "running" THEN [ctr EXCEPT ![n] = "stopped"] ELSE ctr
    /\ api' = api \ {n} /\ up' = up \ {n}
    /\ armed' = armed \ {n}
    /\ Goto("remove")
    /\ UNCHANGED <<img, tok, cert, obj, cordoned, secret, disk>>

RemoveContainer(n) ==
    /\ pc = "remove"
    /\ ctr' = [ctr EXCEPT ![n] = "absent"]
    /\ img' = [img EXCEPT ![n] = Unset]
    /\ Goto("launch")
    /\ UNCHANGED <<tok, armed, cert, api, up, obj, cordoned, secret, disk>>

Outdated(f, n) == [f EXCEPT ![n] = IF @ = "current" THEN "old" ELSE @]

(* `container run` on the same volume, then the new address.                *)
Launch(n) ==
    /\ pc = "launch"
    /\ ctr[n] = "absent"
    /\ ctr' = [ctr EXCEPT ![n] = "running"]
    /\ img' = [img EXCEPT ![n] = target]
    /\ tok' = [tok EXCEPT ![n] = newToken]
    /\ cert' = Outdated(cert, n)
    /\ obj' = Outdated(obj, n)
    /\ known' = known \ {n}
    /\ mem' = mem \ {n}
    /\ pc' = "arm"
    /\ UNCHANGED <<armed, api, up, cordoned, secret, image, previous,
                   torn, cmd, todo, target, newToken, downAtStart>>

(* enableIPForward.  A token rotation records the node and goes on to the   *)
(* next one; a rolling replace waits for it first.                          *)
Arm(n) ==
    /\ pc = "arm"
    /\ ctr[n] = "running"
    /\ armed' = armed \cup {n}
    /\ \/ cmd \in Rolling /\ Goto("wait")
       \/ /\ cmd = "rotateToken"
          /\ mem' = mem \cup {n}
          /\ NextNode(n, "clearCerts", "save")
    /\ UNCHANGED <<ctr, img, tok, cert, api, up, obj, cordoned, secret, disk>>

-----------------------------------------------------------------------------
(* What the poll may take for Ready: a server answers on its own API, and   *)
(* an API server returns a Node object of this name that says so.  One that *)
(* was not deleted keeps saying so for a while, whoever wrote it.           *)
SeenReady(n) == ApiUp /\ obj[n] # "none" /\ (n \in Server => n \in api)

(* Mutant: agents, which have no API server to dial, are not waited for.    *)
WaitReadyServersOnly(n) ==
    /\ pc = "wait"
    /\ n \in Server => SeenReady(n)
    /\ Goto("uncordon")
    /\ UNCHANGED <<machines, disk>>

WaitReady(n) ==
    /\ pc = "wait"
    /\ SeenReady(n)
    /\ Goto("uncordon")
    /\ UNCHANGED <<machines, disk>>

Uncordon(n) ==
    /\ pc = "uncordon"
    /\ cordoned' = IF ApiUp THEN cordoned \ {n} ELSE cordoned
    /\ NextNode(n, "cordon", "resolve")
    /\ UNCHANGED <<ctr, img, tok, armed, cert, api, up, obj, secret, disk, mem>>

(* Mutant: the addresses are left as they were read from state.json.        *)
ResolveNothing(missed) ==
    /\ pc = "resolve"
    /\ pc' = "save"
    /\ UNCHANGED <<machines, disk, run>>

(* The addresses of the recreated nodes; one that cannot be read stays as   *)
(* it was recorded.                                                         *)
ResolveBut(missed) ==
    /\ pc = "resolve"
    /\ mem' = mem \cup {n \in Nodes \ missed : ctr[n] = "running"}
    /\ pc' = "save"
    /\ UNCHANGED <<machines, disk, cmd, todo, target, newToken, downAtStart>>

Resolve == ResolveBut({})

(* Mutant: the image in use is pinned before it is resolved.                *)
PinsUnresolved ==
    /\ image' = target
    /\ previous' = image

Pins ==
    /\ image' = target
    /\ previous' = Resolved(image)

(* What is called the token on record, once another has been recorded.      *)
OnRecord(t) == IF t = "rotated" THEN "recorded" ELSE "lost"

SaveState ==
    /\ pc = "save"
    /\ \/ cmd \in Rolling /\ Pins /\ UNCHANGED <<tok, secret>>
       \/ /\ cmd = "rotateToken"
          /\ tok' = [n \in Nodes |-> OnRecord(tok[n])]
          /\ secret' = OnRecord(secret)
          /\ UNCHANGED <<image, previous>>
    /\ known' = mem /\ torn' = torn
    /\ End
    /\ UNCHANGED <<ctr, img, armed, cert, api, up, obj, cordoned>>

-----------------------------------------------------------------------------
(* Errors: the command ends where it is.                                    *)

(* k3s cannot come up on the node, however long the wait.                   *)
Unable(n) == ctr[n] # "running" \/ tok[n] # secret \/ cert[n] = "old"

Hopeless(n) == Unable(n) \/ (~ApiUp /\ \A s \in Server : Unable(s))

Refused ==
    \/ pc = "rotate" /\ ~Rotatable
    \/ \E n \in Turn :
        \/ pc \in {"clearCerts", "arm"} /\ ctr[n] # "running"
        \/ pc = "launch" /\ ctr[n] # "absent"
        \/ pc = "wait" /\ Hopeless(n)

GiveUp == Refused /\ End /\ UNCHANGED <<machines, disk>>

(* A call fails, a wait times out or the process is killed.                 *)
Die ==
    /\ cmd # "none"
    /\ End
    /\ UNCHANGED <<machines, disk>>

(* os.WriteFile truncates state.json before it writes.                      *)
DieInSave ==
    /\ pc = "save"
    /\ torn' = TRUE
    /\ End
    /\ UNCHANGED <<machines, image, previous, known>>

(* A kubectl call fails: a warning, and on to the next call.                *)
KubectlFails(n) ==
    /\ \/ pc = "cordon" /\ Goto("deleteNode")
       \/ pc = "deleteNode" /\ Goto("clearCerts")
       \/ pc = "uncordon" /\ NextNode(n, "cordon", "resolve") /\ UNCHANGED mem
    /\ UNCHANGED <<machines, disk>>

InspectFails == \E n \in Nodes : ResolveBut({n})

-----------------------------------------------------------------------------
(* k3s comes up: with the datastore's token and no certificate for another  *)
(* address; it makes the certificates that are missing.  An agent needs an  *)
(* API server to join.                                                      *)
CanServe(n) ==
    /\ ctr[n] = "running"
    /\ tok[n] = secret /\ cert[n] # "old"
    /\ n \in Server \/ ApiUp

Boot(n) ==
    /\ n \in Server \ api /\ CanServe(n)
    /\ api' = api \cup {n}
    /\ cert' = [cert EXCEPT ![n] = "current"]
    /\ UNCHANGED <<ctr, img, tok, armed, up, obj, cordoned, secret, disk, run, pc>>

(* The kubelet registers, once: it makes its Node object, or writes its     *)
(* address into the one it finds.                                           *)
Join(n) ==
    /\ n \notin up /\ ApiUp
    /\ \/ n \in api /\ cert' = cert
       \/ /\ n \notin Server /\ CanServe(n)
          /\ cert' = [cert EXCEPT ![n] = "current"]
    /\ up' = up \cup {n}
    /\ obj' = [obj EXCEPT ![n] = "current"]
    /\ UNCHANGED <<ctr, img, tok, armed, api, cordoned, secret, disk, run, pc>>

(* Unless k3s reads the address it had before from that object first, and   *)
(* exits.                                                                   *)
Crash(n) ==
    /\ ctr[n] = "running" /\ n \notin up /\ obj[n] = "old"
    /\ ctr' = [ctr EXCEPT ![n] = "stopped"]
    /\ api' = api \ {n}
    /\ armed' = armed \ {n}
    /\ UNCHANGED <<img, tok, cert, up, obj, cordoned, secret, disk, run, pc>>

-----------------------------------------------------------------------------
(* A cluster as Create leaves it.                                           *)
Init ==
    /\ ctr = [n \in Nodes |-> "running"]
    /\ img = [n \in Nodes |-> DefaultImage]
    /\ tok = [n \in Nodes |-> "recorded"]
    /\ armed = Nodes /\ api = Server /\ up = Nodes
    /\ known = Nodes /\ cordoned = {} /\ torn = FALSE
    /\ cert = [n \in Nodes |-> "current"]
    /\ obj = [n \in Nodes |-> "current"]
    /\ secret = "recorded"
    /\ image = FirstImage
    /\ previous = Unset
    /\ cmd = "none" /\ pc = "idle" /\ todo = {}
    /\ target = Unset /\ newToken = "recorded" /\ mem = {} /\ downAtStart = {}
    /\ smooth = TRUE
    /\ faults = 0

Start == Upgrade \/ Rollback \/ RotateToken

NodeStep(n) ==
    \/ Cordon(n) \/ DeleteNodeObject(n)
    \/ ClearCerts(n) \/ StopContainer(n) \/ RemoveContainer(n)
    \/ Launch(n) \/ Arm(n) \/ WaitReady(n) \/ Uncordon(n)

K3sStep(n) == Boot(n) \/ Join(n) \/ Crash(n)

Work == RotateSecret \/ (\E n \in Turn : NodeStep(n)) \/ Resolve \/ SaveState \/ GiveUp

Fault ==
    /\ faults < MaxFaults
    /\ faults' = faults + 1
    /\ smooth' = FALSE
    /\ \/ Die
       \/ DieInSave
       \/ \E n \in Turn : KubectlFails(n)
       \/ InspectFails

Next ==
    \/ Start /\ UNCHANGED faults
    \/ (Work \/ \E n \in Nodes : K3sStep(n)) /\ UNCHANGED <<smooth, faults>>
    \/ LoadFails
    \/ Fault

Spec == Init /\ [][Next]_vars
=============================================================================
