----------------------------- MODULE Membership ------------------------------
(***************************************************************************)
(* What the membership commands promise an operator who runs them one at a *)
(* time, however they go about it.  A cluster is the nodes on record and   *)
(* what is on the host.  A command asks for other nodes; the host is moved *)
(* there node by node, and the record follows when it is there.  What is   *)
(* asked for is given up before the first node is made or not at all,      *)
(* nothing that stays is touched, and nothing is made that is there        *)
(* already.  All this is so while things are sound.  Once a call has       *)
(* failed by itself, or a command that had made nodes was rejected,        *)
(* nothing is promised but that a Destroy without an error brings back the *)
(* beginning.                                                              *)
(***************************************************************************)
CONSTANTS
    Node,
    Shapes      \* the clusters -create may be asked for

VARIABLES
    book,       \* the nodes on record
    host,       \* the nodes of which there is anything on the host
    goal,       \* the nodes asked for; those on record when nothing is
    sound       \* no failure since the beginning, or since a clean Destroy

membership == <<book, host, goal, sound>>

Init == book = {} /\ host = {} /\ goal = {} /\ sound = TRUE

Ask == sound /\ goal = book /\ UNCHANGED <<book, host, sound>>

(* -create, where there is no cluster; where there is one it does nothing.  *)
Form == Ask /\ book = {} /\ goal' \in Shapes

(* -add-agents and -add-server.                                             *)
Grow ==
    /\ Ask /\ book # {}
    /\ book \subseteq goal' /\ goal' \subseteq Node
    /\ \A n \in goal' \ book : n.role \in {"server", "agent"}

(* -remove-node.                                                            *)
Shrink == Ask /\ \E n \in book : n.role = "agent" /\ goal' = book \ {n}

(* -destroy.                                                                *)
Clear == Ask /\ goal' = {}

Raise(n) ==
    /\ sound /\ n \in goal \ host
    /\ host' = host \cup {n}
    /\ UNCHANGED <<book, goal, sound>>

Drop(n) ==
    /\ sound /\ n \in host \ goal
    /\ host' = host \ {n}
    /\ UNCHANGED <<book, goal, sound>>

Commit ==
    /\ sound /\ host = goal
    /\ book' = goal
    /\ UNCHANGED <<host, goal, sound>>

(* What is asked for is refused.                                            *)
Withdraw ==
    /\ sound /\ host = book
    /\ goal' = book
    /\ UNCHANGED <<book, host, sound>>

(* A call fails by itself, or what is asked for is rejected late: at that   *)
(* moment the nodes stay as they are.  The record does, or it is lost.      *)
Fail ==
    /\ sound /\ sound' = FALSE
    /\ book' \in {book, {}} /\ goal' \in {goal, book'}
    /\ UNCHANGED host

(* All that may come of it.                                                 *)
Drift ==
    /\ ~sound /\ UNCHANGED sound
    /\ book' \subseteq Node /\ host' \subseteq Node /\ goal' \subseteq Node

(* A Destroy has no error to report.                                        *)
Reclaim == ~sound /\ sound' = TRUE /\ book' = {} /\ host' = {} /\ goal' = {}

Next ==
    \/ Form \/ Grow \/ Shrink \/ Clear
    \/ \E n \in Node : Raise(n) \/ Drop(n)
    \/ Commit \/ Withdraw \/ Fail \/ Drift \/ Reclaim

Spec == Init /\ [][Next]_membership

-----------------------------------------------------------------------------
(* What is on the host is on record or asked for, what is both is on it,    *)
(* and when nothing is asked for the two are one.                           *)
Agreed ==
    sound => book \cap goal \subseteq host /\ host \subseteq book \cup goal
=============================================================================
