------------------------------ MODULE NodeOrder ------------------------------
(***************************************************************************)
(* The orders in which commands visit the nodes of state.json.  A list of  *)
(* recorded nodes is a sequence; within a role it is ordered by index,     *)
(* since nodes are appended under the next index of their role.            *)
(***************************************************************************)
EXTENDS Naturals, Sequences, FiniteSets, Functions

Roles == {"datastore", "server", "lb", "agent"}

StopRank == [agent |-> 0, lb |-> 1, server |-> 2, datastore |-> 3]

(* Mutant: the datastore shares the rank of the servers, which was so       *)
(* before it had a cluster of its own.                                      *)
LessFlat(m, n, reversed) ==
    LET rank(r) == IF r = "datastore" THEN 2 ELSE StopRank[r]
    IN  IF reversed THEN rank(m.role) > rank(n.role)
                    ELSE rank(m.role) < rank(n.role)

(* The comparison sort.SliceStable is given.                                *)
Less(m, n, reversed) ==
    IF reversed THEN StopRank[m.role] > StopRank[n.role]
                ELSE StopRank[m.role] < StopRank[n.role]

(* The elements of a list at some of its positions: each position goes      *)
(* behind those of before[i].                                               *)
Arrange(nodes, before) ==
    [k \in 1..Cardinality(DOMAIN before) |->
        nodes[CHOOSE i \in DOMAIN before : Cardinality(before[i]) = k - 1]]

(* A stable sort: each element goes behind those that are less, and behind  *)
(* those before it that are neither less nor greater.                       *)
Behind(nodes, reversed) ==
    [i \in DOMAIN nodes |->
        {j \in DOMAIN nodes : \/ Less(nodes[j], nodes[i], reversed)
                              \/ j < i /\ ~Less(nodes[i], nodes[j], reversed)}]

OrderByRole(nodes, reversed) == Arrange(nodes, Behind(nodes, reversed))

StopOrder(nodes)  == OrderByRole(nodes, FALSE)
StartOrder(nodes) == OrderByRole(nodes, TRUE)

(* A filter.                                                                *)
WithRoles(nodes, roles) ==
    LET Kept == {i \in DOMAIN nodes : nodes[i].role \in roles}
    IN  Arrange(nodes, [i \in Kept |-> {j \in Kept : j < i}])

NodesWithRole(nodes, role) == WithRoles(nodes, {role})

UpgradeOrder(nodes) == NodesWithRole(nodes, "server") \o NodesWithRole(nodes, "agent")

(* No node of a list comes after one that it is less than.                  *)
InOrder(s, reversed) == \A i, j \in DOMAIN s : i < j => ~Less(s[j], s[i], reversed)

-----------------------------------------------------------------------------
(* The node of a set of servers and agents that UpgradeOrder has first.     *)
FirstToRoll(S) ==
    {n \in S : \A m \in S \ {n} :
        \/ n.role = "server" /\ m.role = "agent"
        \/ n.role = m.role /\ n.idx < m.idx}
=============================================================================
