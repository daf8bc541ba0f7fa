------------------------------ MODULE ImagePins ------------------------------
(***************************************************************************)
(* What -upgrade and -rollback promise about images, however they go about *)
(* it: a cluster has a current and a previous image; a replace moves its   *)
(* nodes, one by one and perhaps not all of them, to the image it was      *)
(* asked for; and the two images on record change together, at an instant  *)
(* when every node runs the new one.                                       *)
(***************************************************************************)
CONSTANTS Nodes, Image, Unset

VARIABLES
    image,      \* the image on record
    previous,   \* the image -rollback returns to, or Unset
    goal,       \* the image nodes are launched with
    runs        \* the image each node runs, or Unset when it is down

pins == <<image, previous, goal, runs>>

Init ==
    /\ image \in Image
    /\ previous = Unset
    /\ goal = image
    /\ runs = [n \in Nodes |-> image]

(* -upgrade asks for an image, -rollback for the previous one.              *)
Ask ==
    /\ goal' \in Image
    /\ UNCHANGED <<image, previous, runs>>

Move(n) ==
    /\ runs' \in {[runs EXCEPT ![n] = goal], [runs EXCEPT ![n] = Unset]}
    /\ UNCHANGED <<image, previous, goal>>

Commit ==
    /\ \A n \in Nodes : runs[n] = goal
    /\ image' = goal
    /\ previous' = image
    /\ UNCHANGED <<goal, runs>>

Abandon ==
    /\ goal' = image
    /\ UNCHANGED <<image, previous, runs>>

Next == Ask \/ (\E n \in Nodes : Move(n)) \/ Commit \/ Abandon

Spec == Init /\ [][Next]_pins
=============================================================================
