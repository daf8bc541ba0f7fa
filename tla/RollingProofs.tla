---------------------------- MODULE RollingProofs ----------------------------
(***************************************************************************)
(* Proofs about the rolling replace and the token rotation, for any set of *)
(* servers and agents, any images and any number of faults.                *)
(***************************************************************************)
EXTENDS RollingInv, TLAPS

(* The loop is at one node at most, one of those it is not done with.       *)
LEMMA TurnIsOne ==
    ASSUME TypeOK
    PROVE  /\ todo \subseteq Nodes /\ Turn \subseteq todo
           /\ \A m, n \in Turn : m = n
<1>1. todo \subseteq Nodes /\ Turn \subseteq todo
  BY DEF TypeOK, Turn, FirstToRoll
<1>2. ASSUME NEW m \in Turn, NEW n \in Turn, m # n PROVE FALSE
  <2>1. /\ m \in Nodes /\ n \in Nodes
        /\ m.role \in {"server", "agent"} /\ n.role \in {"server", "agent"}
        /\ m.idx \in Nat /\ n.idx \in Nat
    BY <1>1, ConstantsAssumption
  <2>2. m.role = n.role /\ m.idx < n.idx /\ n.idx < m.idx
    BY <1>2, <2>1 DEF Turn, FirstToRoll
  <2> QED
    BY <2>1, <2>2
<1> QED
  BY <1>1, <1>2

(* An unhindered roll keeps the servers up: at every call there is an API   *)
(* server to ask, but for those that replace the one there is.              *)
LEMMA OthersAnswer ==
    ASSUME RollInv, cmd \in Rolling, Unhindered, NEW s \in Server,
           \/ s \notin Turn
           \/ pc \notin {"remove", "launch", "arm", "wait", "uncordon"}
    PROVE  s \in api
<1>1. s \in Nodes /\ cmd # "none" /\ downAtStart = {} /\ Stale = {}
  BY DEF Server, Rolling, Unhindered, RollInv, Smooth
<1>2. CASE s \in todo
  BY <1>1, <1>2 DEF RollInv, TypeOK, Untouched
<1>3. CASE s \notin todo
  BY <1>1, <1>3, TurnIsOne DEF RollInv, TypeOK, Downs, Down, Ready
<1> QED
  BY <1>2, <1>3

(* There is a server.                                                       *)
LEMMA SomeServer == Server # {}
BY ConstantsAssumption DEF Server

-----------------------------------------------------------------------------
(* Each action keeps the invariant.                                         *)

(* A kubectl call: nothing of a node changes but that it is cordoned.       *)
LEMMA CordonKeeps ==
    ASSUME RollInv, NEW n \in Turn, Cordon(n),
           UNCHANGED <<smooth, faults>>
    PROVE  RollInv'
<1> USE DEF RollInv, Unhindered, Stale
<1>1. TypeOK'
  BY TurnIsOne DEF TypeOK, PC, Cordon, Goto, disk, run
<1>2. Control'
  BY DEF Control, Cordon, Goto, run
<1>3. Tokens'
  BY DEF Tokens, TokensInPlay, Done, Cordon, Goto, run
<1>4. Images'
  BY DEF Images, Done, Cordon, Goto, run
<1>5. Machines'
  BY DEF Machines, Cordon, Goto
<1>6. Downs'
  BY DEF Downs, Down, Ready, Turn, Cordon, Goto, run
<1>7. Arming'
  BY DEF Arming, Done, Cordon, Goto, run
<1>8. Smooth'
  BY TurnIsOne DEF Smooth, Done, Cordon, Goto, run
<1>9. Untouched'
  BY DEF Untouched, Cordon, Goto, run
<1>10. Replaced'
  BY DEF Replaced, Cordon, Goto
<1> QED
  BY <1>1, <1>2, <1>3, <1>4, <1>5, <1>6, <1>7, <1>8, <1>9, <1>10

(* The Node object of the node at hand is gone, if an API server was there. *)
LEMMA DeleteNodeObjectKeeps ==
    ASSUME RollInv, NEW n \in Turn, DeleteNodeObject(n),
           UNCHANGED <<smooth, faults>>
    PROVE  RollInv'
<1> USE DEF RollInv, Unhindered, Stale
<1>1. TypeOK'
  BY DEF TypeOK, PC, DeleteNodeObject, Goto, disk, run
<1>2. Control'
  BY DEF Control, DeleteNodeObject, Goto, run
<1>3. Tokens'
  BY DEF Tokens, TokensInPlay, Done, DeleteNodeObject, Goto, run
<1>4. Images'
  BY DEF Images, Done, DeleteNodeObject, Goto, run
<1>5. Machines'
  BY DEF Machines, DeleteNodeObject, Goto
<1>6. Downs'
  BY DEF Downs, Down, Ready, Turn, DeleteNodeObject, Goto, run
<1>7. Arming'
  BY DEF Arming, Done, DeleteNodeObject, Goto, run
<1>8. Smooth'
  <2>1. cmd \in Rolling /\ Unhindered => ApiUp
    BY OthersAnswer, SomeServer DEF ApiUp, DeleteNodeObject
  <2> QED
    BY <2>1, TurnIsOne
    DEF TypeOK, Smooth, Done, Turn, DeleteNodeObject, Goto, run
<1>9. Untouched'
  BY DEF Untouched, DeleteNodeObject, Goto, run
<1>10. Replaced'
  BY DEF Replaced, Undisturbed, DeleteNodeObject, Goto, run
<1> QED
  BY <1>1, <1>2, <1>3, <1>4, <1>5, <1>6, <1>7, <1>8, <1>9, <1>10

(* From here on a rotation holds the datastore's token.                     *)
LEMMA RotateSecretKeeps ==
    ASSUME RollInv, RotateSecret,
           UNCHANGED <<smooth, faults>>
    PROVE  RollInv'
<1> USE DEF RollInv, Unhindered, Stale
<1>1. TypeOK'
  BY DEF TypeOK, PC, Token, RotateSecret, disk
<1>2. Control'
  BY DEF Control, RotateSecret
<1>3. Tokens'
  BY DEF Rolling, Command, TypeOK, Control, Tokens, TokensInPlay, Done,
         RotateSecret, Rotatable
<1>4. Images'
  BY DEF Images, Done, RotateSecret
<1>5. Machines'
  BY DEF Machines, RotateSecret
<1>6. Downs'
  BY DEF Downs, Down, Ready, Turn, RotateSecret
<1>7. Arming'
  BY DEF Arming, Done, RotateSecret
<1>8. Smooth'
  BY DEF Control, Rolling, Smooth, RotateSecret
<1>9. Untouched'
  BY DEF Untouched, RotateSecret
<1>10. Replaced'
  BY DEF Replaced, Undisturbed, RotateSecret
<1> QED
  BY <1>1, <1>2, <1>3, <1>4, <1>5, <1>6, <1>7, <1>8, <1>9, <1>10

(* The node at hand serves still, so the certificates stay cleared.         *)
LEMMA ClearCertsKeeps ==
    ASSUME RollInv, NEW n \in Turn, ClearCerts(n),
           UNCHANGED <<smooth, faults>>
    PROVE  RollInv'
<1> USE DEF RollInv, Unhindered, Stale
<1>1. TypeOK'
  BY DEF TypeOK, PC, ClearCerts, Goto, disk, run
<1>2. Control'
  BY DEF Control, ClearCerts, Goto, run
<1>3. Tokens'
  BY DEF Tokens, TokensInPlay, Done, ClearCerts, Goto, run
<1>4. Images'
  BY DEF Images, Done, ClearCerts, Goto, run
<1>5. Machines'
  BY DEF Machines, ClearCerts, Goto
<1>6. Downs'
  BY DEF Downs, Down, Ready, Turn, ClearCerts, Goto, run
<1>7. Arming'
  BY DEF Arming, Done, ClearCerts, Goto, run
<1>8. Smooth'
  BY DEF Smooth, Done, Turn, ClearCerts, Goto, run
<1>9. Untouched'
  BY TurnIsOne DEF TypeOK, Untouched, Turn, ClearCerts, Goto, run
<1>10. Replaced'
  BY DEF Replaced, Undisturbed, Turn, ClearCerts, Goto, run
<1> QED
  BY <1>1, <1>2, <1>3, <1>4, <1>5, <1>6, <1>7, <1>8, <1>9, <1>10

(* The node at hand is down; it is the only one the roll has taken down.    *)
LEMMA StopContainerKeeps ==
    ASSUME RollInv, NEW n \in Turn, StopContainer(n),
           UNCHANGED <<smooth, faults>>
    PROVE  RollInv'
<1> USE DEF RollInv, Unhindered, Stale
<1>1. TypeOK'
  BY DEF TypeOK, PC, StopContainer, Goto, disk, run
<1>2. Control'
  BY DEF Control, StopContainer, Goto, run
<1>3. Tokens'
  BY DEF Tokens, TokensInPlay, Done, StopContainer, Goto, run
<1>4. Images'
  BY DEF Images, Done, StopContainer, Goto, run
<1>5. Machines'
  BY TurnIsOne DEF TypeOK, Machines, Turn, StopContainer, Goto, run
<1>6. Downs'
  BY DEF Downs, Down, Ready, Turn, StopContainer, Goto, run
<1>7. Arming'
  BY DEF TypeOK, Arming, Done, StopContainer, Goto, run
<1>8. Smooth'
  BY DEF Smooth, Done, Turn, StopContainer, Goto, run
<1>9. Untouched'
  BY DEF Untouched, Turn, StopContainer, Goto, run
<1>10. Replaced'
  BY DEF Replaced, Undisturbed, Turn, StopContainer, Goto, run
<1> QED
  BY <1>1, <1>2, <1>3, <1>4, <1>5, <1>6, <1>7, <1>8, <1>9, <1>10

(* A stopped container is gone.                                             *)
LEMMA RemoveContainerKeeps ==
    ASSUME RollInv, NEW n \in Turn, RemoveContainer(n),
           UNCHANGED <<smooth, faults>>
    PROVE  RollInv'
<1> USE DEF RollInv, Unhindered, Stale
<1>1. TypeOK'
  BY DEF TypeOK, PC, RemoveContainer, Goto, disk, run
<1>2. Control'
  BY DEF Control, RemoveContainer, Goto, run
<1>3. Tokens'
  BY DEF Tokens, TokensInPlay, Done, RemoveContainer, Goto, run
<1>4. Images'
  BY TurnIsOne DEF Images, Done, RemoveContainer, Goto, run
<1>5. Machines'
  BY DEF Machines, Turn, RemoveContainer, Goto, run
<1>6. Downs'
  BY DEF Downs, Down, Ready, Turn, RemoveContainer, Goto, run
<1>7. Arming'
  BY DEF Arming, Done, RemoveContainer, Goto, run
<1>8. Smooth'
  BY DEF Smooth, Done, Turn, RemoveContainer, Goto, run
<1>9. Untouched'
  BY DEF Untouched, Turn, RemoveContainer, Goto, run
<1>10. Replaced'
  BY TurnIsOne
  DEF TypeOK, Replaced, Undisturbed, Turn, RemoveContainer, Goto, run
<1> QED
  BY <1>1, <1>2, <1>3, <1>4, <1>5, <1>6, <1>7, <1>8, <1>9, <1>10

(* The node at hand has the image and the token the command launches with.  *)
LEMMA LaunchKeeps ==
    ASSUME RollInv, NEW n \in Turn, Launch(n),
           UNCHANGED <<smooth, faults>>
    PROVE  RollInv'
<1> USE DEF RollInv, Unhindered, Stale
<1>1. TypeOK'
  BY DEF TypeOK, PC, Launch, Outdated
<1>2. Control'
  BY DEF Control, Launch
<1>3. Tokens'
  BY TurnIsOne DEF TypeOK, Tokens, TokensInPlay, Done, Turn, Launch
<1>4. Images'
  BY TurnIsOne DEF TypeOK, Images, Done, Turn, Launch
<1>5. Machines'
  BY TurnIsOne DEF TypeOK, Machines, Turn, Launch, Outdated
<1>6. Downs'
  BY DEF Downs, Down, Ready, Turn, Launch, Outdated
<1>7. Arming'
  BY TurnIsOne DEF Arming, Done, Launch
<1>8. Smooth'
  BY TurnIsOne DEF TypeOK, Smooth, Done, Turn, Launch, Outdated
<1>9. Untouched'
  BY DEF Untouched, Turn, Launch
<1>10. Replaced'
  BY TurnIsOne
  DEF TypeOK, Tokens, Untouched, Replaced, Undisturbed, Turn, Rolling, Launch,
      Outdated
<1> QED
  BY <1>1, <1>2, <1>3, <1>4, <1>5, <1>6, <1>7, <1>8, <1>9, <1>10

(* A rotation is done with the node; a roll waits for it first.             *)
LEMMA ArmKeeps ==
    ASSUME RollInv, NEW n \in Turn, Arm(n),
           UNCHANGED <<smooth, faults>>
    PROVE  RollInv'
<1> USE DEF RollInv, Unhindered, Stale
<1>1. TypeOK'
  BY TurnIsOne DEF TypeOK, PC, Arm, Goto, NextNode, disk, run
<1>2. Control'
  BY DEF Control, Rolling, Arm, Goto, NextNode, run
<1>3. Tokens'
  BY DEF Tokens, TokensInPlay, Done, Arm, Goto, NextNode, run
<1>4. Images'
  BY DEF Images, Done, Turn, Arm, Goto, NextNode, run
<1>5. Machines'
  BY TurnIsOne DEF TypeOK, Machines, Turn, Arm, Goto, NextNode, run
<1>6. Downs'
  BY DEF Downs, Down, Ready, Turn, Rolling, Arm, Goto, NextNode, run
<1>7. Arming'
  BY TurnIsOne DEF Arming, Done, Turn, Arm, Goto, NextNode, run
<1>8. Smooth'
  BY DEF Smooth, Done, Rolling, Arm, Goto, NextNode, run
<1>9. Untouched'
  BY TurnIsOne DEF Untouched, Turn, Arm, Goto, NextNode, run
<1>10. Replaced'
  BY DEF Replaced, Undisturbed, Turn, Rolling, Arm, Goto, NextNode, run
<1> QED
  BY <1>1, <1>2, <1>3, <1>4, <1>5, <1>6, <1>7, <1>8, <1>9, <1>10

(* The node at hand is back.                                                *)
LEMMA WaitReadyKeeps ==
    ASSUME RollInv, NEW n \in Turn, WaitReady(n),
           UNCHANGED <<smooth, faults>>
    PROVE  RollInv'
<1> USE DEF RollInv, Unhindered, Stale
<1>1. TypeOK'
  BY DEF TypeOK, PC, WaitReady, Goto, machines, disk, run
<1>2. Control'
  BY DEF Control, WaitReady, Goto, run
<1>3. Tokens'
  BY DEF Tokens, TokensInPlay, Done, WaitReady, Goto, machines, run
<1>4. Images'
  BY DEF Images, Done, Turn, WaitReady, Goto, machines, run
<1>5. Machines'
  BY DEF Machines, Turn, WaitReady, Goto, machines, run
<1>6. Downs'
  BY TurnIsOne
  DEF TypeOK, Machines, Downs, Down, Ready, SeenReady, Turn, WaitReady, Goto,
      machines, run
<1>7. Arming'
  BY DEF Arming, Done, Turn, WaitReady, Goto, machines, run
<1>8. Smooth'
  BY DEF Smooth, SeenReady, ApiUp, Done, WaitReady, Goto, machines, run
<1>9. Untouched'
  BY DEF Untouched, Turn, WaitReady, Goto, machines, run
<1>10. Replaced'
  BY DEF Replaced, WaitReady, Goto
<1> QED
  BY <1>1, <1>2, <1>3, <1>4, <1>5, <1>6, <1>7, <1>8, <1>9, <1>10

(* A roll is done with a node that is back.                                 *)
LEMMA UncordonKeeps ==
    ASSUME RollInv, NEW n \in Turn, Uncordon(n),
           UNCHANGED <<smooth, faults>>
    PROVE  RollInv'
<1> USE DEF RollInv, Unhindered, Stale
<1>1. TypeOK'
  BY DEF TypeOK, PC, Uncordon, NextNode, disk
<1>2. Control'
  BY DEF Control, Uncordon, NextNode
<1>3. Tokens'
  BY DEF Control, Tokens, TokensInPlay, Uncordon, NextNode
<1>4. Images'
  BY DEF Images, Done, Uncordon, NextNode
<1>5. Machines'
  BY DEF Machines, Uncordon, NextNode
<1>6. Downs'
  BY DEF Downs, Down, Ready, Uncordon, NextNode
<1>7. Arming'
  BY DEF Arming, Done, Uncordon, NextNode
<1>8. Smooth'
  BY DEF Downs, Smooth, Done, Uncordon, NextNode
<1>9. Untouched'
  BY TurnIsOne DEF Untouched, Uncordon, NextNode
<1>10. Replaced'
  BY DEF Replaced, Uncordon, NextNode
<1> QED
  BY <1>1, <1>2, <1>3, <1>4, <1>5, <1>6, <1>7, <1>8, <1>9, <1>10

(* At the end of a roll every node runs, so every address can be read.      *)
LEMMA ResolveButKeeps ==
    ASSUME RollInv, NEW missed \in SUBSET Nodes, ResolveBut(missed),
           faults' \in 0..MaxFaults,
           \/ missed = {} /\ smooth' = smooth
           \/ smooth' = FALSE
    PROVE  RollInv'
<1> USE DEF RollInv, Unhindered, Stale
<1>1. TypeOK'
  BY DEF TypeOK, PC, ResolveBut, machines, disk
<1>2. Control'
  BY DEF Control, ResolveBut
<1>3. Tokens'
  BY DEF Tokens, TokensInPlay, Done, ResolveBut, machines
<1>4. Images'
  BY DEF Images, Done, ResolveBut, machines
<1>5. Machines'
  BY DEF Machines, ResolveBut, machines
<1>6. Downs'
  BY DEF Downs, Down, Ready, Turn, ResolveBut, machines
<1>7. Arming'
  BY DEF Arming, Done, ResolveBut, machines
<1>8. Smooth'
  <2>1. Turn = {} /\ todo = {} /\ mem \subseteq Nodes
    BY TurnIsOne DEF RollInv, TypeOK, Control, ResolveBut
  <2>2. ASSUME cmd \in Rolling, Unhindered, NEW n \in Nodes PROVE ctr[n] = "running"
    BY <2>1, <2>2 DEF RollInv, Machines, Downs, Down, Ready, Smooth
  <2>3. smooth' => smooth /\ missed = {}
    BY ConstantsAssumption DEF RollInv, TypeOK
  <2> QED
    BY <2>1, <2>2, <2>3 DEF RollInv, Smooth, Done, ResolveBut, machines
<1>9. Untouched'
  BY DEF Untouched, ResolveBut, machines
<1>10. Replaced'
  BY DEF Replaced, ResolveBut
<1> QED
  BY <1>1, <1>2, <1>3, <1>4, <1>5, <1>6, <1>7, <1>8, <1>9, <1>10

(* The command ends; the token it holds is the recorded one from now on.    *)
LEMMA SaveStateKeeps ==
    ASSUME RollInv, SaveState,
           UNCHANGED <<smooth, faults>>
    PROVE  RollInv'
<1> USE DEF RollInv, Unhindered, Stale
<1>1. TypeOK'
  BY ConstantsAssumption
  DEF TypeOK, PC, Token, SaveState, Pins, OnRecord, End, Resolved
<1>2. Control'
  BY DEF Control, SaveState, End
<1>3. Tokens'
  BY DEF Control, Tokens, TokensInPlay, Done, SaveState, OnRecord, End
<1>4. Images'
  BY DEF Images, Rolling, SaveState, End
<1>5. Machines'
  BY DEF Machines, SaveState, End
<1>6. Downs'
  BY DEF Downs, Rolling, SaveState, End
<1>7. Arming'
  BY DEF Arming, SaveState, End
<1>8. Smooth'
  BY DEF Smooth, Rolling, SaveState, End
<1>9. Untouched'
  BY DEF Untouched, SaveState, End
<1>10. Replaced'
  BY DEF Replaced, SaveState, End
<1> QED
  BY <1>1, <1>2, <1>3, <1>4, <1>5, <1>6, <1>7, <1>8, <1>9, <1>10

(* A command that ends where it is leaves all the rest as it is.            *)
LEMMA StopsKeeps ==
    ASSUME RollInv, End, UNCHANGED <<machines, image, previous, known>>,
           torn' \in BOOLEAN, smooth' \in BOOLEAN, faults' \in 0..MaxFaults
    PROVE  RollInv'
<1> USE DEF RollInv, Unhindered, Stale
<1>1. TypeOK'
  BY DEF TypeOK, PC, Token, End, machines
<1>2. Control'
  BY DEF Control, End
<1>3. Tokens'
  BY DEF Tokens, TokensInPlay, End, machines
<1>4. Images'
  BY DEF Images, Rolling, End
<1>5. Machines'
  BY DEF Machines, End, machines
<1>6. Downs'
  BY DEF Downs, Rolling, End
<1>7. Arming'
  BY DEF Arming, End
<1>8. Smooth'
  BY DEF Smooth, Rolling, End
<1>9. Untouched'
  BY DEF Untouched, End
<1>10. Replaced'
  BY DEF Replaced, End
<1> QED
  BY <1>1, <1>2, <1>3, <1>4, <1>5, <1>6, <1>7, <1>8, <1>9, <1>10

(* A command that has met a fault promises less.                            *)
LEMMA KubectlFailsKeeps ==
    ASSUME RollInv, NEW n \in Turn, KubectlFails(n),
           faults' \in 0..MaxFaults, smooth' = FALSE
    PROVE  RollInv'
<1> USE DEF RollInv, Unhindered, Stale
<1>1. TypeOK'
  BY TurnIsOne, ConstantsAssumption
  DEF TypeOK, PC, KubectlFails, NextNode, Goto, machines, disk, run
<1>2. Control'
  BY DEF Control, KubectlFails, NextNode, Goto, run
<1>3. Tokens'
  BY DEF Control, Tokens, TokensInPlay, KubectlFails, NextNode, Goto,
         machines, run
<1>4. Images'
  BY DEF Images, Done, KubectlFails, NextNode, Goto, machines, run
<1>5. Machines'
  BY DEF Machines, KubectlFails, NextNode, Goto, machines
<1>6. Downs'
  BY DEF Downs, Down, Ready, Turn, KubectlFails, NextNode, Goto, machines, run
<1>7. Arming'
  BY DEF Arming, Done, KubectlFails, NextNode, Goto, machines, run
<1>8. Smooth'
  BY DEF Smooth
<1>9. Untouched'
  BY TurnIsOne DEF Untouched, KubectlFails, NextNode, Goto, machines, run
<1>10. Replaced'
  BY DEF Replaced, Undisturbed
<1> QED
  BY <1>1, <1>2, <1>3, <1>4, <1>5, <1>6, <1>7, <1>8, <1>9, <1>10

(* A server that comes up takes nothing from the others.                    *)
LEMMA BootKeeps ==
    ASSUME RollInv, NEW n \in Nodes, Boot(n),
           UNCHANGED <<smooth, faults>>
    PROVE  RollInv'
<1> USE DEF RollInv, Unhindered, Stale
<1>1. TypeOK'
  BY DEF TypeOK, Boot, disk, run
<1>2. Control'
  BY DEF Control, Boot, run
<1>3. Tokens'
  BY DEF Tokens, TokensInPlay, Done, Turn, Boot, run
<1>4. Images'
  BY DEF Images, Done, Turn, Boot, run
<1>5. Machines'
  BY DEF Machines, Turn, Boot, run, CanServe
<1>6. Downs'
  BY DEF Downs, Down, Ready, Turn, Boot, run
<1>7. Arming'
  BY DEF Arming, Done, Turn, Boot, run
<1>8. Smooth'
  BY DEF Smooth, ApiUp, Done, Turn, Boot, run
<1>9. Untouched'
  BY TurnIsOne
  DEF TypeOK, Machines, Untouched, Turn, Boot, run, CanServe
<1>10. Replaced'
  BY TurnIsOne
  DEF TypeOK, Machines, Untouched, Replaced, Undisturbed, Turn, Rolling, Boot,
      run, CanServe
<1> QED
  BY <1>1, <1>2, <1>3, <1>4, <1>5, <1>6, <1>7, <1>8, <1>9, <1>10

(* A node that registers is back.                                           *)
LEMMA JoinKeeps ==
    ASSUME RollInv, NEW n \in Nodes, Join(n),
           UNCHANGED <<smooth, faults>>
    PROVE  RollInv'
<1> USE DEF RollInv, Unhindered, Stale
<1>0. ctr[n] = "running"
  BY DEF Machines, Join, CanServe
<1>1. TypeOK'
  BY DEF TypeOK, Join, disk, run
<1>2. Control'
  BY DEF Control, Join, run
<1>3. Tokens'
  BY DEF Tokens, TokensInPlay, Done, Turn, Join, run
<1>4. Images'
  BY DEF Images, Done, Turn, Join, run
<1>5. Machines'
  BY <1>0 DEF TypeOK, Machines, Turn, Join, run
<1>6. Downs'
  BY DEF TypeOK, Downs, Down, Ready, Turn, Join, run
<1>7. Arming'
  BY DEF Arming, Done, Turn, Join, run
<1>8. Smooth'
  BY <1>0, TurnIsOne
  DEF TypeOK, Smooth, Machines, Untouched, ApiUp, Done, Turn, Rolling, Join, run
<1>9. Untouched'
  BY <1>0, TurnIsOne DEF TypeOK, Machines, Untouched, Turn, Join, run
<1>10. Replaced'
  BY <1>0, TurnIsOne
  DEF TypeOK, Machines, Untouched, Replaced, Undisturbed, Turn, Rolling, Join, run
<1> QED
  BY <1>1, <1>2, <1>3, <1>4, <1>5, <1>6, <1>7, <1>8, <1>9, <1>10

(* Only a node that is down already crashes.                                *)
LEMMA CrashKeeps ==
    ASSUME RollInv, NEW n \in Nodes, Crash(n),
           UNCHANGED <<smooth, faults>>
    PROVE  RollInv'
<1> USE DEF RollInv, Unhindered, Stale
<1>1. TypeOK'
  BY DEF TypeOK, Crash, disk, run
<1>2. Control'
  BY DEF Control, Crash, run
<1>3. Tokens'
  BY DEF Tokens, TokensInPlay, Done, Turn, Crash, run
<1>4. Images'
  BY DEF Images, Done, Turn, Crash, run
<1>5. Machines'
  BY DEF Machines, Turn, Crash, run
<1>6. Downs'
  BY DEF Downs, Down, Ready, ApiUp, Turn, Crash, run
<1>7. Arming'
  BY DEF TypeOK, Arming, Done, Turn, Crash, run
<1>8. Smooth'
  BY DEF Smooth, Done, Crash, run
<1>9. Untouched'
  BY DEF Untouched, Turn, Crash, run
<1>10. Replaced'
  BY DEF Smooth, Replaced, Undisturbed, Turn, Crash, run
<1> QED
  BY <1>1, <1>2, <1>3, <1>4, <1>5, <1>6, <1>7, <1>8, <1>9, <1>10

(* Every node is to do, and none is taken down.                             *)
LEMMA BeginKeeps ==
    ASSUME RollInv, NEW c \in Command, NEW p \in PC, NEW i \in Image,
           p = IF c = "rotateToken" THEN "rotate" ELSE "cordon", Begin(c, p, i),
           UNCHANGED faults
    PROVE  RollInv'
<1> USE DEF RollInv, Unhindered, Stale
<1>1. TypeOK'
  BY DEF Down, TypeOK, Token, Command, Begin, machines, disk
<1>2. Control'
  BY DEF Command, Control, Rolling, Begin
<1>3. Tokens'
  BY DEF Tokens, TokensInPlay, Begin, machines
<1>4. Images'
  BY DEF Images, Done, Begin
<1>5. Machines'
  BY DEF Machines, Begin, machines
<1>6. Downs'
  BY DEF Downs, Down, Ready, Begin, machines
<1>7. Arming'
  BY DEF Arming, Done, Begin
<1>8. Smooth'
  BY DEF Smooth, Done, Down, Ready, Machines, TypeOK, Begin, machines
<1>9. Untouched'
  BY DEF Untouched, Down, Ready, Begin, machines
<1>10. Replaced'
  BY DEF Replaced, Begin
<1> QED
  BY <1>1, <1>2, <1>3, <1>4, <1>5, <1>6, <1>7, <1>8, <1>9, <1>10

-----------------------------------------------------------------------------
(* A cluster as Create leaves it.                                           *)
LEMMA RollInvInit == Init => RollInv
<1> SUFFICES ASSUME Init PROVE RollInv
  OBVIOUS
<1>1. TypeOK
  <2>1. api \subseteq Server /\ up \cap Server \subseteq api
    BY DEF Init
  <2>2. /\ ctr \in [Nodes -> {"running", "stopped", "absent"}]
        /\ tok \in [Nodes -> Token]
        /\ cert \in [Nodes -> {"none", "current", "old"}]
        /\ obj \in [Nodes -> {"none", "current", "old"}]
    BY DEF Init, Token
  <2>3. /\ img \in [Nodes -> Image \cup {Unset}]
        /\ image \in Image \cup {Unset} /\ previous \in Image \cup {Unset}
        /\ faults \in 0..MaxFaults
    BY ConstantsAssumption DEF Init
  <2> QED
    BY <2>1, <2>2, <2>3 DEF Init, TypeOK, PC, Token
<1>2. Control /\ Tokens /\ Images /\ Machines /\ Downs /\ Arming /\ Smooth
     /\ Untouched /\ Replaced
  BY ConstantsAssumption
     DEF Init, Control, Tokens, TokensInPlay, Images, Machines, Downs, Arming,
         Smooth, Unhindered, Stale, Untouched, Replaced, Undisturbed, Rolling,
         Server
<1> QED
  BY <1>1, <1>2 DEF RollInv

(* A step is one of the actions above, or changes nothing.                  *)
LEMMA RollInvNext == RollInv /\ [Next]_vars => RollInv'
<1> SUFFICES ASSUME RollInv, [Next]_vars PROVE RollInv'
  OBVIOUS
<1>0. /\ MaxFaults \in Nat /\ faults \in 0..MaxFaults
      /\ smooth \in BOOLEAN /\ torn \in BOOLEAN
  BY ConstantsAssumption DEF RollInv, TypeOK
<1>1. CASE Start /\ UNCHANGED faults
  <2>1. CASE Upgrade
    BY <1>1, <2>1, BeginKeeps, ConstantsAssumption DEF Upgrade, Command, PC
  <2>2. CASE Rollback
    <3>1. previous \in Image
      BY <2>2 DEF Rollback, RollInv, TypeOK
    <3> QED
      BY <1>1, <2>2, <3>1, BeginKeeps DEF Rollback, Command, PC
  <2>3. CASE RotateToken
    <3>1. Resolved(image) \in Image
      BY ConstantsAssumption DEF Resolved, RollInv, TypeOK
    <3> QED
      BY <1>1, <2>3, <3>1, BeginKeeps DEF RotateToken, Command, PC
  <2> QED
    BY <1>1, <2>1, <2>2, <2>3 DEF Start
<1>2. ASSUME Work, UNCHANGED <<smooth, faults>> PROVE RollInv'
  <2>1. ASSUME NEW n \in Turn, NodeStep(n) PROVE RollInv'
    BY <1>2, <2>1, CordonKeeps, DeleteNodeObjectKeeps, ClearCertsKeeps,
       StopContainerKeeps, RemoveContainerKeeps, LaunchKeeps, ArmKeeps,
       WaitReadyKeeps, UncordonKeeps
    DEF NodeStep
  <2>2. CASE Resolve
    BY <1>0, <1>2, <2>2, ResolveButKeeps DEF Resolve
  <2>3. CASE GiveUp
    BY <1>0, <1>2, <2>3, StopsKeeps DEF GiveUp, disk
  <2> QED
    BY <1>2, <2>1, <2>2, <2>3, RotateSecretKeeps, SaveStateKeeps DEF Work
<1>3. ASSUME NEW n \in Nodes, K3sStep(n), UNCHANGED <<smooth, faults>>
      PROVE  RollInv'
  BY <1>3, BootKeeps, JoinKeeps, CrashKeeps DEF K3sStep
<1>4. CASE Fault
  <2>1. faults' \in 0..MaxFaults /\ smooth' = FALSE
    BY <1>0, <1>4 DEF Fault
  <2>2. CASE Die
    BY <1>0, <2>1, <2>2, StopsKeeps DEF Die, disk
  <2>3. ASSUME NEW n \in Turn, KubectlFails(n) PROVE RollInv'
    BY <2>1, <2>3, KubectlFailsKeeps
  <2>4. CASE InspectFails
    BY <2>1, <2>4, ResolveButKeeps DEF InspectFails
  <2>5. CASE DieInSave
    BY <2>1, <2>5, StopsKeeps DEF DieInSave
  <2> QED
    BY <1>4, <2>2, <2>3, <2>4, <2>5 DEF Fault
<1>5. CASE UNCHANGED vars
  BY <1>5
  DEF vars, machines, disk, run, RollInv, TypeOK, Control, Tokens, TokensInPlay,
      Images, Machines, Downs, Down, Ready, Stale, ApiUp, Arming, Smooth,
      Unhindered, Untouched, Replaced, Undisturbed, Done, Turn
<1> QED
  BY <1>1, <1>2, <1>3, <1>4, <1>5 DEF Next, LoadFails

(* What each call of rollOneNode, recreateK3sNode and RotateToken knows of  *)
(* the nodes holds whatever was run, and failed, before.                    *)
THEOREM RollInvariant == Spec => []RollInv
<1> QED
  BY RollInvInit, RollInvNext, PTL DEF Spec

-----------------------------------------------------------------------------
(* -upgrade, -rollback and -rotate-token keep to the shape of the state: a  *)
(* command at work has an image to launch, also from a state that records   *)
(* none, and a rollback one to return to.                                   *)
THEOREM RollTypeCorrect == Spec => []TypeOK
<1>1. RollInv => TypeOK
  BY DEF RollInv
<1> QED
  BY <1>1, RollInvariant, PTL

(* No node is left with a token that neither state.json nor the datastore   *)
(* knows, however often RotateToken dies before it saves: `k3s token        *)
(* rotate` refuses a second rotation.                                       *)
THEOREM NoTokenUnknown == Spec => []TokensInPlay
<1>1. RollInv => TokensInPlay
  BY DEF RollInv, Tokens
<1> QED
  BY <1>1, RollInvariant, PTL

(* rollOneNode takes a node down only when those before it are Ready, in    *)
(* clusters of any size.                                                    *)
THEOREM OneNodeDown == Spec => []OneDownAtATime
<1>1. RollInv => OneDownAtATime
  BY DEF RollInv, Downs, Smooth, Unhindered, OneDownAtATime
<1> QED
  BY <1>1, RollInvariant, PTL

(* recreateK3sNode launches a node that served over no certificate made for *)
(* its old address: it serves until it is stopped, so that k3s does not     *)
(* make anew what rmStaleServingCertsArgs has removed.                      *)
THEOREM CertsAreCleared == Spec => NoStaleCert
<1>1. ASSUME RollInv, [Next]_vars, NEW n \in Nodes,
             ctr[n] = "absent", ctr'[n] = "running", n \notin downAtStart
      PROVE  cert'[n] # "old"
  <2>1. n \in Turn /\ Launch(n)
    <3>1. ~Start /\ ~SaveState
      BY <1>1 DEF Start, Upgrade, Rollback, RotateToken, Begin, machines, SaveState
    <3>2. ~Fault
      BY <1>1 DEF Fault, Die, KubectlFails, DieInSave, InspectFails, ResolveBut, machines
    <3>3. ~\E m \in Nodes : K3sStep(m)
      BY <1>1 DEF K3sStep, Boot, Join, Crash, RollInv, TypeOK
    <3>4. ~RotateSecret /\ ~Resolve /\ ~GiveUp
      BY <1>1 DEF RotateSecret, Resolve, ResolveBut, GiveUp, machines
    <3>5. ASSUME NEW m \in Turn, NodeStep(m) PROVE m = n /\ Launch(m)
      BY <1>1, <3>5, TurnIsOne
      DEF RollInv, TypeOK, NodeStep, Cordon, DeleteNodeObject, ClearCerts,
          StopContainer, RemoveContainer, Launch, Arm, WaitReady, Uncordon, machines
    <3> QED
      BY <1>1, <3>1, <3>2, <3>3, <3>4, <3>5
      DEF Next, Work, LoadFails, vars, machines
  <2>2. cert[n] = "none"
    BY <1>1, <2>1 DEF RollInv, Control, Untouched, Launch
  <2> QED
    BY <2>1, <2>2 DEF Launch, Outdated, RollInv, TypeOK
<1>2. RollInv /\ [Next]_vars =>
        \A n \in Nodes : ctr[n] = "absent" /\ ctr'[n] = "running"
                             /\ n \notin downAtStart => cert'[n] # "old"
  BY <1>1
<1> QED
  BY <1>2, RollInvariant, PTL DEF Spec, NoStaleCert

(* A roll of a sound cluster goes through: no call of rollOneNode is        *)
(* refused, and the node it waits for can come up.                          *)
THEOREM UndisturbedSucceeds == Spec => []UndisturbedRollsSucceed
<1>1. ASSUME RollInv, Undisturbed PROVE ~Refused
  <2>1. \A n \in Turn : pc = "clearCerts" => ctr[n] = "running"
    BY <1>1, TurnIsOne
    DEF RollInv, Control, Untouched, Machines, Undisturbed, Unhindered, Rolling
  <2>2. pc # "rotate"
    BY <1>1 DEF RollInv, Control, Undisturbed
  <2>3. ApiUp \/ \E s \in Server \cap Turn : TRUE
    BY <1>1, OthersAnswer, SomeServer DEF ApiUp, Undisturbed
  <2> QED
    BY <1>1, <2>1, <2>2, <2>3
    DEF Refused, Hopeless, Unable, RollInv, Replaced
<1>2. ASSUME RollInv, Undisturbed, pc = "wait", NEW n \in Turn PROVE CanServe(n)
  <2>1. ASSUME n \notin Server PROVE ApiUp
    <3>1. PICK s \in Server : TRUE
      BY SomeServer
    <3>2. s \notin Turn
      BY <1>2, <2>1, <3>1, TurnIsOne DEF RollInv
    <3> QED
      BY <1>2, <3>1, <3>2, OthersAnswer DEF ApiUp, Undisturbed
  <2> QED
    BY <1>2, <2>1 DEF CanServe, RollInv, Replaced
<1>3. RollInv => UndisturbedRollsSucceed
  BY <1>1, <1>2 DEF UndisturbedRollsSucceed
<1> QED
  BY <1>3, RollInvariant, PTL

-----------------------------------------------------------------------------
(* What a command that reports success has repaired.                        *)
LEMMA SavedIsWhole ==
    ASSUME RollInv, [Next]_vars, Saves
    PROVE  /\ \A n \in Nodes : ctr[n] = "running" => n \in armed
           /\ cmd \in Rolling =>
                /\ Down \subseteq Stale
                /\ \A n \in Nodes : img[n] = image'
                /\ Unhindered => Down = {} /\ cordoned = {} /\ known' = Nodes
           /\ cmd = "rotateToken" => /\ secret' = "recorded"
                                     /\ \A n \in Nodes : tok'[n] = "recorded"
<1>1. SaveState
  <2>1. ~Start
    BY DEF Start, Upgrade, Rollback, RotateToken, Begin, Saves, RollInv, Control
  <2>2. ~Fault
    BY ConstantsAssumption DEF Fault, Saves, RollInv, TypeOK
  <2>3. ~\E n \in Nodes : K3sStep(n)
    BY DEF K3sStep, Boot, Join, Crash, Saves
  <2>4. ~\E n \in Turn : NodeStep(n)
    BY DEF NodeStep, Cordon, DeleteNodeObject, ClearCerts, StopContainer,
           RemoveContainer, Launch, Arm, WaitReady, Uncordon, Saves
  <2>5. ~RotateSecret /\ ~Resolve /\ ~GiveUp
    BY DEF RotateSecret, Resolve, ResolveBut, GiveUp, Refused, Saves
  <2> QED
    BY <2>1, <2>2, <2>3, <2>4, <2>5 DEF Next, Work, LoadFails, vars, Saves
<1>2. todo = {} /\ Turn = {} /\ cmd # "none"
  BY TurnIsOne DEF RollInv, Control, Saves
<1>3. \A n \in Nodes : ctr[n] = "running" => n \in armed
  BY <1>2 DEF RollInv, Arming, Done
<1>4. ASSUME cmd \in Rolling
      PROVE  /\ Down \subseteq Stale
             /\ \A n \in Nodes : img[n] = image'
             /\ Unhindered => Down = {} /\ cordoned = {} /\ known' = Nodes
  <2>1. Down \subseteq Stale
    BY <1>2, <1>4 DEF RollInv, Downs, Down
  <2>2. image' = target /\ known' = mem
    BY <1>1, <1>4 DEF SaveState, Pins, Rolling
  <2> QED
    BY <1>2, <1>4, <2>1, <2>2
    DEF RollInv, TypeOK, Images, Smooth, Done, Saves
<1>5. ASSUME cmd = "rotateToken"
      PROVE  secret' = "recorded" /\ \A n \in Nodes : tok'[n] = "recorded"
  BY <1>1, <1>2, <1>5
  DEF RollInv, Tokens, Done, SaveState, OnRecord, Rolling, Saves
<1> QED
  BY <1>3, <1>4, <1>5

(* When Upgrade, Rollback or RotateToken has saved its state, every node is *)
(* what it records, whatever earlier runs had left.                         *)
THEOREM SuccessRepairs == Spec => SuccessConverges
<1> USE DEF SuccessConverges
<1> QED
  BY SavedIsWhole, RollInvariant, PTL DEF Spec

-----------------------------------------------------------------------------
(* The images on record, as ImagePins has them.                             *)
LEMMA PinsInit == Init => Abstract!Init
BY ConstantsAssumption DEF Init, Abstract!Init, Resolved

(* Every step of the rolling commands is a step of ImagePins, or leaves the *)
(* pins and what the nodes run as they are.                                 *)
LEMMA PinsNext ==
    ASSUME RollInv, [Next]_vars
    PROVE  [Abstract!Next]_(Abstract!pins)
<1> USE DEF Abstract!pins
<1>1. Resolved(image) \in Image /\ Unset \notin Image
  BY ConstantsAssumption DEF RollInv, TypeOK, Resolved
<1>2. ASSUME UNCHANGED <<image, previous, cmd, target, img>>
      PROVE  UNCHANGED Abstract!pins
  BY <1>2 DEF Resolved
<1>3. ASSUME End, UNCHANGED <<image, previous, img>>
      PROVE  Abstract!Abandon
  BY <1>3 DEF End, Abstract!Abandon, Resolved
<1>4. ASSUME NEW c \in Command, NEW p \in PC, NEW i \in Image, Begin(c, p, i)
      PROVE  Abstract!Ask
  BY <1>4 DEF Begin, Abstract!Ask, Resolved, machines, disk, Command
<1>5. CASE Start
  <2>1. ASSUME Rollback PROVE previous \in Image
    BY <2>1 DEF Rollback, RollInv, TypeOK
  <2> QED
    BY <1>1, <1>4, <1>5, <2>1, ConstantsAssumption
    DEF Start, Upgrade, Rollback, RotateToken, Command, PC, Abstract!Next
<1>6. ASSUME NEW n \in Turn, NodeStep(n)
      PROVE  [Abstract!Next]_(Abstract!pins)
  <2>0. n \in Nodes /\ cmd # "none"
    BY <1>6, TurnIsOne
    DEF RollInv, Control, NodeStep, Cordon, DeleteNodeObject, ClearCerts,
        StopContainer, RemoveContainer, Launch, Arm, WaitReady, Uncordon
  <2>1. CASE Launch(n) \/ RemoveContainer(n)
    <3>1. Abstract!Move(n)
      BY <2>0, <2>1
      DEF Launch, RemoveContainer, Goto, run, disk, Abstract!Move, Resolved
    <3> QED
      BY <2>0, <3>1 DEF Abstract!Next
  <2>2. CASE ~(Launch(n) \/ RemoveContainer(n))
    BY <1>2, <1>6, <2>2
    DEF NodeStep, Cordon, DeleteNodeObject, ClearCerts, StopContainer, Arm,
        WaitReady, Uncordon, NextNode, Goto, run, machines, disk
  <2> QED
    BY <2>1, <2>2
<1>7. CASE SaveState
  <2>1. CASE cmd \in Rolling
    <3>1. Abstract!Commit
      BY <1>1, <1>7, <2>1, TurnIsOne
      DEF SaveState, End, Pins, Rolling, Resolved, RollInv, TypeOK, Control,
          Images, Done, Abstract!Commit
    <3> QED
      BY <3>1 DEF Abstract!Next
  <2>2. CASE cmd = "rotateToken"
    BY <1>3, <1>7, <2>2 DEF SaveState, Rolling, Abstract!Next
  <2> QED
    BY <1>7, <2>1, <2>2 DEF SaveState
<1>8. CASE RotateSecret \/ (\E missed \in SUBSET Nodes : ResolveBut(missed))
  BY <1>2, <1>8 DEF RotateSecret, ResolveBut, machines, disk
<1>9. CASE GiveUp \/ Die \/ DieInSave
  BY <1>3, <1>9 DEF GiveUp, Die, DieInSave, machines, disk, Abstract!Next
<1>10. ASSUME NEW n \in Nodes, K3sStep(n)
       PROVE  UNCHANGED Abstract!pins
  BY <1>2, <1>10 DEF K3sStep, Boot, Join, Crash, disk, run
<1>11. ASSUME NEW n \in Turn, KubectlFails(n)
       PROVE  UNCHANGED Abstract!pins
  BY <1>2, <1>11 DEF KubectlFails, NextNode, Goto, machines, disk, run
<1>12. CASE UNCHANGED vars
  BY <1>2, <1>12 DEF vars, machines, disk, run
<1> QED
  BY <1>5, <1>6, <1>7, <1>8, <1>9, <1>10, <1>11, <1>12
  DEF Next, Work, Fault, Resolve, InspectFails, LoadFails

(* The image pins that rollingReplace writes, and the images it launches,   *)
(* behave as ImagePins says: a refinement, by the mapping of RollingProps.  *)
THEOREM PinsRefined == Spec => ImplementsPins
<1> QED
  BY PinsInit, PinsNext, RollInvariant, PTL DEF Spec, ImplementsPins, Abstract!Spec
=============================================================================
