---------------------------- MODULE MCMaintenance ----------------------------
(***************************************************************************)
(* Values for the constants of Maintenance, for TLC.                       *)
(***************************************************************************)
EXTENDS MaintenanceInv

Nth(r, i) == [role |-> r, idx |-> i]

Etcd == <<Nth("datastore", 1), Nth("datastore", 2), Nth("datastore", 3)>>

(* As Create records them, and with the second server added later.          *)
Created == Etcd \o <<Nth("server", 1), Nth("server", 2), Nth("lb", 1), Nth("agent", 1)>>
Grown   == Etcd \o <<Nth("server", 1), Nth("lb", 1), Nth("agent", 1), Nth("server", 2)>>

TheNodes    == Range(Created)
TheListings == {Created, Grown}

-----------------------------------------------------------------------------
(* The sort and the set form of the orders, on the lists above and on every *)
(* list that a few roles make: what OrderByRole returns is the list,        *)
(* rearranged by rank and otherwise in its order; FirstToRoll takes nodes   *)
(* in the order of UpgradeOrder.                                            *)
RoleLists == [1..4 -> Roles]
Numbered(f) == [i \in 1..4 |-> Nth(f[i], Cardinality({j \in 1..i : f[j] = f[i]}))]

SortedBy(nodes, reversed) ==
    LET s == OrderByRole(nodes, reversed)
        At(n) == CHOOSE i \in DOMAIN nodes : nodes[i] = n
    IN  /\ Range(s) = Range(nodes)
        /\ \A i, j \in DOMAIN s : i < j =>
              \/ Less(s[i], s[j], reversed)
              \/ ~Less(s[j], s[i], reversed) /\ At(s[i]) < At(s[j])

RollsInOrder(nodes) ==
    LET order == UpgradeOrder(nodes)
        From(i) == {order[j] : j \in i..Len(order)}
    IN  \A i \in DOMAIN order : FirstToRoll(From(i)) = {order[i]}

ASSUME OrdersAreRight ==
    \A l \in TheListings \cup {Numbered(f) : f \in RoleLists} :
        SortedBy(l, FALSE) /\ SortedBy(l, TRUE) /\ RollsInOrder(l)
=============================================================================
