-------------------------- MODULE MaintenanceProofs --------------------------
(***************************************************************************)
(* Proofs about the commands that restart a whole cluster, for any cluster *)
(* with a managed datastore, any listing of it and any number of faults.   *)
(***************************************************************************)
EXTENDS MaintenanceInv, NodeOrderProofs

(* The lists the commands go through.                                       *)
LEMMA StopList ==
    ASSUME listing \in Listings
    PROVE  /\ StopOrderOf[listing] \in Seq(Nodes) /\ IsInjective(StopOrderOf[listing])
           /\ Range(StopOrderOf[listing]) = Nodes /\ InOrder(StopOrderOf[listing], FALSE)
           /\ StopOrderOf[listing] # <<>>
<1>1. /\ listing \in Seq(Nodes) /\ IsInjective(listing) /\ Range(listing) = Nodes
      /\ Nodes \in SUBSET Records /\ Nodes # {}
  BY ListingsAssumption, NodesAssumption DEF Records, Members
<1> DEFINE o == OrderByRole(listing, FALSE)
<1>2. /\ o \in Seq(Nodes) /\ Range(o) = Range(listing) /\ InOrder(o, FALSE)
      /\ IsInjective(o)
  BY <1>1, OrderByRoleKeeps
<1>3. StopOrderOf[listing] # <<>>
  BY <1>1, <1>2, EmptyRange DEF StopOrder, StopOrderOf
<1> QED
  BY <1>1, <1>2, <1>3 DEF StopOrder, StopOrderOf

(* startOrder goes through every node once, in its order.                    *)
LEMMA StartOrderList ==
    ASSUME listing \in Listings
    PROVE  /\ StartOrderOf[listing] \in Seq(Nodes) /\ IsInjective(StartOrderOf[listing])
           /\ Range(StartOrderOf[listing]) = Nodes /\ InOrder(StartOrderOf[listing], TRUE)
<1>1. /\ listing \in Seq(Nodes) /\ IsInjective(listing) /\ Range(listing) = Nodes
      /\ Nodes \in SUBSET Records
  BY ListingsAssumption, NodesAssumption DEF Records
<1> DEFINE o == OrderByRole(listing, TRUE)
<1>2. /\ o \in Seq(Nodes) /\ Range(o) = Range(listing) /\ InOrder(o, TRUE)
      /\ IsInjective(o)
  BY <1>1, OrderByRoleKeeps
<1> QED
  BY <1>1, <1>2 DEF StartOrder, StartOrderOf

(* nodesWithRole goes through the nodes of one role once, in any order.      *)
LEMMA RoleList ==
    ASSUME listing \in Listings, NEW r \in Roles
    PROVE  /\ NodesWithRole(listing, r) \in Seq(Nodes)
           /\ IsInjective(NodesWithRole(listing, r))
           /\ Range(NodesWithRole(listing, r)) = {n \in Nodes : n.role = r}
           /\ InOrder(NodesWithRole(listing, r), TRUE)
<1> DEFINE w == NodesWithRole(listing, r)
<1>1. listing \in Seq(Nodes) /\ IsInjective(listing) /\ Range(listing) = Nodes
  BY ListingsAssumption
<1>2. /\ w \in Seq(Nodes) /\ Range(w) = {n \in Nodes : n.role \in {r}} /\ IsInjective(w)
  BY <1>1, WithRolesKeeps DEF NodesWithRole
<1>3. Range(w) = {n \in Nodes : n.role = r}
  BY <1>2
<1>4. InOrder(w, TRUE)
  <2>1. \A i \in DOMAIN w : w[i].role = r
    BY <1>3 DEF Range
  <2> HIDE DEF w
  <2> QED
    BY <2>1 DEF InOrder, Less, StopRank, Roles
<1> QED
  BY <1>2, <1>3, <1>4

(* There is an etcd member to go through, and a first one.                   *)
LEMMA MemberList ==
    ASSUME listing \in Listings
    PROVE  /\ NodesWithRole(listing, "datastore") \in Seq(Nodes)
           /\ IsInjective(NodesWithRole(listing, "datastore"))
           /\ Range(NodesWithRole(listing, "datastore")) = Members
           /\ NodesWithRole(listing, "datastore") # <<>>
           /\ FirstMember \in Members
<1> DEFINE w == NodesWithRole(listing, "datastore")
<1>1. w \in Seq(Nodes) /\ IsInjective(w) /\ Range(w) = Members
  BY RoleList DEF Roles, Members
<1>2. w # <<>>
  BY <1>1, EmptyRange, NodesAssumption
<1>3. 1 \in DOMAIN w
  BY <1>1, <1>2, LenProperties, EmptySeq
<1>4. w[1] \in Range(w)
  BY <1>3 DEF Range
<1> QED
  BY <1>1, <1>2, <1>4 DEF FirstMember

(* The nodes a command starts come in the order that startOrder gives, also *)
(* where the list is put together from parts.                               *)
LEMMA StartLists ==
    ASSUME listing \in Listings, NEW c \in {"start", "rotateCerts", "restore"}
    PROVE  /\ StartList(c) \in Seq(Nodes) /\ IsInjective(StartList(c))
           /\ InOrder(StartList(c), TRUE)
           /\ Range(StartList(c)) = IF c = "restore" THEN Nodes \ Members ELSE Nodes
           /\ StartList(c) # <<>>
<1> DEFINE o == StartOrderOf[listing]
           In(R) == {n \in Nodes : n.role \in R}
<1>1. o \in Seq(Nodes) /\ IsInjective(o) /\ Range(o) = Nodes /\ InOrder(o, TRUE)
  BY StartOrderList
<1>2. \A n \in Nodes : n.role \in Roles
  BY NodesAssumption
<1>3. ASSUME NEW R
      PROVE  /\ WithRoles(o, R) \in Seq(Nodes) /\ IsInjective(WithRoles(o, R))
             /\ InOrder(WithRoles(o, R), TRUE) /\ Range(WithRoles(o, R)) = In(R)
  <2> DEFINE w == WithRoles(o, R)
  <2> HIDE DEF o
  <2>1. /\ w \in Seq(Nodes) /\ Range(w) = {n \in Range(o) : n.role \in R}
        /\ IsInjective(o) => IsInjective(w)
    BY <1>1, WithRolesKeeps
  <2>2. InOrder(w, TRUE)
    BY <1>1, WithRolesInOrder
  <2> HIDE DEF w
  <2>3. Range(w) = In(R)
    BY <1>1, <2>1
  <2> QED
    BY <1>1, <2>1, <2>2, <2>3 DEF w
<1>4. CASE c = "start"
  BY <1>1, <1>4, EmptyRange, NodesAssumption DEF StartList, Members
<1>5. CASE c = "restore"
  <2>1. StartList(c) = WithRoles(o, Roles \ {"datastore"})
    BY <1>5 DEF StartList
  <2>2. In(Roles \ {"datastore"}) = Nodes \ Members
    BY <1>2 DEF Members
  <2>3. Nodes \ Members # {}
    BY NodesAssumption DEF Servers, Members
  <2> QED
    BY <1>3, <1>5, <2>1, <2>2, <2>3, EmptyRange
<1>6. CASE c = "rotateCerts"
  <2> DEFINE d == NodesWithRole(listing, "datastore")
             s == NodesWithRole(listing, "server")
             a == WithRoles(o, {"lb", "agent"})
  <2>1. /\ d \in Seq(Nodes) /\ IsInjective(d) /\ InOrder(d, TRUE)
        /\ Range(d) = {n \in Nodes : n.role = "datastore"}
    BY RoleList DEF Roles
  <2>2. /\ s \in Seq(Nodes) /\ IsInjective(s) /\ InOrder(s, TRUE)
        /\ Range(s) = {n \in Nodes : n.role = "server"}
    BY RoleList DEF Roles
  <2>3. /\ a \in Seq(Nodes) /\ IsInjective(a) /\ InOrder(a, TRUE)
        /\ Range(a) = In({"lb", "agent"})
    BY <1>3
  <2>4. StartList(c) = (d \o s) \o a
    BY <1>6 DEF StartList
  <2> HIDE DEF d, s, a, o
  <2>5. \A m \in Range(d), n \in Range(s) : ~Less(n, m, TRUE)
    BY <2>1, <2>2 DEF Less, StopRank
  <2>6. Range(d) \cap Range(s) = {}
    BY <2>1, <2>2
  <2>7. /\ d \o s \in Seq(Nodes) /\ Range(d \o s) = Range(d) \cup Range(s)
        /\ IsInjective(d \o s) /\ InOrder(d \o s, TRUE)
    BY <2>1, <2>2, <2>5, <2>6, ConcatKeeps
  <2>8. \A m \in Range(d \o s), n \in Range(a) : ~Less(n, m, TRUE)
    BY <2>1, <2>2, <2>3, <2>7 DEF Less, StopRank
  <2>9. Range(d \o s) \cap Range(a) = {}
    BY <2>1, <2>2, <2>3, <2>7
  <2> DEFINE e == d \o s
  <2>10. /\ e \in Seq(Nodes) /\ IsInjective(e) /\ InOrder(e, TRUE)
         /\ Range(e) = Range(d) \cup Range(s)
    BY <2>7
  <2> HIDE DEF e
  <2>11. /\ e \o a \in Seq(Nodes) /\ Range(e \o a) = Range(e) \cup Range(a)
         /\ IsInjective(e \o a) /\ InOrder(e \o a, TRUE)
    BY <2>3, <2>8, <2>9, <2>10, ConcatKeeps DEF e
  <2>12. Range(e \o a) = Nodes
    BY <1>2, <2>1, <2>2, <2>3, <2>10, <2>11 DEF Roles
  <2>13. e \o a # <<>>
    BY <2>11, <2>12, EmptyRange, NodesAssumption DEF Members
  <2> QED
    BY <1>6, <2>4, <2>11, <2>12, <2>13 DEF e
<1> QED
  BY <1>4, <1>5, <1>6

-----------------------------------------------------------------------------
(* The node a loop is at is the first of its list.                          *)
LEMMA AtTurn ==
    ASSUME TypeOK, Itinerary, NEW n \in Turn
    PROVE  /\ n \in Nodes /\ n.role \in Roles /\ n \in Left /\ Left \subseteq Nodes
           /\ Turn = {n} /\ todo # <<>> /\ pc # "write"
           /\ Tail(todo) \in Seq(Nodes) /\ IsInjective(Tail(todo))
           /\ Range(Tail(todo)) = Left \ {n}
           /\ \A reversed \in BOOLEAN : InOrder(todo, reversed) =>
                /\ InOrder(Tail(todo), reversed)
                /\ \A m \in Left \ {n} : ~Less(m, n, reversed)
           /\ (Len(todo) > 1) <=> (Left \ {n} # {})
           /\ (Tail(todo) = <<>>) <=> (Left \ {n} = {})
<1>1. todo \in Seq(Nodes) /\ IsInjective(todo)
  BY DEF TypeOK, Itinerary
<1>2. Turn = {n} /\ todo # <<>> /\ pc # "write" /\ n = Head(todo)
  BY DEF Turn
<1>3. /\ Head(todo) \in Nodes /\ Tail(todo) \in Seq(Nodes)
      /\ Range(todo) = {Head(todo)} \cup Range(Tail(todo))
      /\ IsInjective(Tail(todo)) /\ Head(todo) \notin Range(Tail(todo))
      /\ \A reversed \in BOOLEAN : InOrder(todo, reversed) =>
           /\ InOrder(Tail(todo), reversed)
           /\ \A m \in Range(Tail(todo)) : ~Less(m, Head(todo), reversed)
      /\ (Len(todo) > 1) <=> (Tail(todo) # <<>>)
  BY <1>1, <1>2, TailKeeps
<1>4. Range(Tail(todo)) = Left \ {n} /\ n \in Left
  BY <1>2, <1>3 DEF Left
<1>5. (Tail(todo) = <<>>) <=> (Left \ {n} = {})
  BY <1>3, <1>4, EmptyRange
<1>6. Left \subseteq Nodes
  BY <1>1, RangeOfSeq DEF Left
<1>7. n \in Nodes /\ n.role \in Roles
  BY <1>2, <1>3, NodesAssumption
<1> QED
  BY <1>2, <1>3, <1>4, <1>5, <1>6, <1>7

(* The loop that starts the nodes goes on to the next, or is over.          *)
LEMMA OnToNext ==
    ASSUME TypeOK, Itinerary, Starting, NEW n \in Turn, NextToStart
    PROVE  /\ cmd' = cmd /\ file' = file
           /\ todo' \in Seq(Nodes) /\ IsInjective(todo') /\ InOrder(todo', TRUE)
           /\ Left' = Left \ {n} /\ Turn' \subseteq Left'
           /\ \/ /\ todo' # <<>> /\ pc' \in {"start", "runHelper"}
                 /\ pc' = "runHelper" =>
                      cmd = "rotateCerts" /\ \A m \in Turn' : m.role = "server"
                 /\ pc' = "start" /\ cmd = "rotateCerts" =>
                      \A m \in Turn' : m.role # "server"
              \/ /\ todo' = <<>> /\ Left' = {}
                 /\ pc' = IF cmd = "start" THEN "done" ELSE "save"
<1>1. /\ Tail(todo) \in Seq(Nodes) /\ IsInjective(Tail(todo))
      /\ Range(Tail(todo)) = Left \ {n} /\ InOrder(Tail(todo), TRUE)
      /\ (Tail(todo) = <<>>) <=> (Left \ {n} = {})
  BY AtTurn DEF Itinerary
<1>2. CASE Tail(todo) # <<>>
  <2>1. /\ todo' = Tail(todo) /\ cmd' = cmd /\ file' = file
        /\ pc' = StartsAt(Tail(todo))
    BY <1>2 DEF NextToStart, Goto
  <2>2. Turn' = {Head(todo')} /\ Head(todo') \in Left'
    <3>1. pc' # "write"
      BY <2>1 DEF StartsAt
    <3>2. Head(Tail(todo)) \in Range(Tail(todo))
      BY <1>1, <1>2, TailKeeps
    <3> QED
      BY <1>2, <2>1, <3>1, <3>2 DEF Turn, Left
  <2>3. Left' = Left \ {n}
    BY <1>1, <2>1 DEF Left
  <2> QED
    BY <1>1, <1>2, <2>1, <2>2, <2>3 DEF StartsAt
<1>3. CASE Tail(todo) = <<>>
  <2>1. /\ todo' = <<>> /\ cmd' = cmd /\ file' = file
        /\ pc' = IF cmd = "start" THEN "done" ELSE "save"
    BY <1>3 DEF NextToStart, Goto
  <2>2. Left' = {} /\ Turn' = {}
    BY <1>1, <1>3, <2>1 DEF Left, Turn
  <2> QED
    BY <1>1, <1>3, <2>1, <2>2
<1> QED
  BY <1>2, <1>3

-----------------------------------------------------------------------------
(* While a loop stops the nodes, those of a lower rank have been; while one *)
(* starts them, those of a higher rank have been.                           *)
LEMMA StopsAgentsFirst ==
    ASSUME TypeOK, Itinerary, pc = "stop", NEW n \in Turn, NEW m \in Left \ {n}
    PROVE  /\ n.role = "datastore" => m.role \notin {"server", "agent", "lb"}
           /\ n.role = "lb" => m.role # "agent"
<1>1. InOrder(todo, FALSE) /\ m \in Nodes /\ n \in Nodes
  BY AtTurn DEF Itinerary
<1>2. ~Less(m, n, FALSE)
  BY <1>1, AtTurn
<1> QED
  BY <1>2 DEF Less, StopRank

(* When a start comes to a node that is no member, no member is to come;    *)
(* when it comes to an agent, no load balancer is.                          *)
LEMMA StartsMembersFirst ==
    ASSUME TypeOK, Itinerary, Starting, NEW n \in Turn, NEW m \in Left \ {n}
    PROVE  /\ n.role # "datastore" => m.role # "datastore"
           /\ n.role = "agent" => m.role # "lb"
<1>1. InOrder(todo, TRUE) /\ n.role \in Roles
  BY AtTurn DEF Itinerary
<1>2. ~Less(m, n, TRUE)
  BY <1>1, AtTurn
<1> QED
  BY <1>1, <1>2 DEF Less, StopRank, Roles

(* A majority of members is some member.                                    *)
LEMMA NoQuorum ==
    ASSUME \A m \in Members : ~Running(m)
    PROVE  ~CanElect
<1> SUFFICES ASSUME NEW Q \in Quorums PROVE FALSE
  BY DEF CanElect
<1>1. Q = {}
  BY DEF Quorums
<1>2. Cardinality(Members) \in Nat
  BY NodesAssumption, FS_Subset, FS_CardinalityType DEF Members
<1>3. Cardinality(Q) = 0
  BY <1>1, FS_EmptySet
<1> QED
  BY <1>2, <1>3 DEF Quorums

(* What has elected a leader can go on as long as no member goes down and   *)
(* none has its data or its certificates changed.                           *)
LEMMA QuorumStands ==
    ASSUME TypeOK, \A m \in Members : Running(m) => Running(m)',
           UNCHANGED <<data, fresh>>, CanElect
    PROVE  CanElect'
<1>1. PICK Q \in Quorums : Agree(Q)
  BY DEF CanElect
<1>2. Q \in Quorums'
  BY <1>1 DEF Quorums
<1>3. Agree(Q)'
  BY <1>1 DEF Agree
<1> QED
  BY <1>2, <1>3 DEF CanElect

(* A command that ends leaves nothing to prove of its loops.                *)
LEMMA EndKeeps ==
    ASSUME TypeOK', Layered', OneHistory', NoneOnOldCerts', End
    PROVE  MaintInv'
<1>1. pc' = "idle" /\ cmd' = "none" /\ todo' = <<>> /\ file' = "none"
  BY DEF End
<1>2. IsInjective(<<>>)
  BY EmptySeq DEF IsInjective
<1>3. Control' /\ Itinerary'
  BY <1>1, <1>2 DEF Control, Itinerary, NoLoop, Starting, Replacing
<1>4. Downs' /\ Ups' /\ Filled' /\ Bundle' /\ Helpers' /\ Settled'
  BY <1>1 DEF Downs, Ups, Filled, Bundle, Helpers, Settled, Starting, Replacing
<1> QED
  BY <1>3, <1>4 DEF MaintInv

-----------------------------------------------------------------------------

(* A command that begins has its whole loop to go.                          *)
LEMMA BeginKeeps ==
    ASSUME MaintInv, UNCHANGED listing, torn' \in BOOLEAN,
           faults' \in 0..MaxFaults, BeginAny
    PROVE  MaintInv'
<1>1. /\ todo' \in Seq(Nodes) /\ IsInjective(todo')
      /\ \/ pc' = "stop" /\ cmd' \in {"stop", "rotateCerts", "restore"}
            /\ todo' # <<>> /\ Left' = Nodes /\ InOrder(todo', FALSE)
         \/ pc' = "start" /\ cmd' = "start"
            /\ todo' # <<>> /\ Left' = Nodes /\ InOrder(todo', TRUE)
         \/ pc' = "snapshot" /\ cmd' = "snapshot" /\ todo' = <<>>
      /\ mem' = known /\ file' \in File \cup {"none"}
      /\ file' # "none" <=> cmd' = "restore"
      /\ UNCHANGED cluster
  <2>1. /\ StopOrderOf[listing] \in Seq(Nodes) /\ IsInjective(StopOrderOf[listing])
        /\ Range(StopOrderOf[listing]) = Nodes /\ InOrder(StopOrderOf[listing], FALSE)
        /\ StopOrderOf[listing] # <<>>
    BY StopList DEF MaintInv, TypeOK
  <2>2. /\ StartList("start") \in Seq(Nodes) /\ IsInjective(StartList("start"))
        /\ Range(StartList("start")) = Nodes /\ InOrder(StartList("start"), TRUE)
        /\ StartList("start") # <<>>
    <3>1. listing \in Listings /\ "start" \in {"start", "rotateCerts", "restore"} /\ "start" # "restore"
      BY DEF MaintInv, TypeOK
    <3> QED
      BY <3>1, StartLists
  <2>3. IsInjective(<<>>) /\ <<>> \in Seq(Nodes)
    BY EmptySeq DEF IsInjective
  <2>4. CASE BeginStop
    BY <2>1, <2>4 DEF BeginStop, Begin, Left
  <2>5. CASE BeginStart
    BY <2>2, <2>5 DEF BeginStart, Begin, Left
  <2>6. CASE BeginRotateCerts
    BY <2>1, <2>6 DEF BeginRotateCerts, Begin, Left
  <2>7. CASE BeginSnapshot
    BY <2>3, <2>7 DEF BeginSnapshot, Begin
  <2>8. CASE \E f \in File : BeginRestore(f)
    BY <2>1, <2>8 DEF BeginRestore, Begin, Left, File
  <2> QED
    BY <2>4, <2>5, <2>6, <2>7, <2>8 DEF BeginAny
<1>2. quorum' \in BOOLEAN /\ (quorum' => CanElect')
  <2>1. \A m \in Members : Running(m) => Running(m)'
    BY <1>1 DEF cluster, Running
  <2>2. CanElect => CanElect'
    BY <1>1, <2>1, QuorumStands DEF MaintInv, cluster
  <2> QED
    BY <1>1, <2>2 DEF MaintInv, TypeOK, cluster
<1>3. TypeOK'
  BY <1>1, <1>2 DEF MaintInv, PC, Running, TypeOK, cluster
<1>4. Control'
  BY <1>1 DEF Control
<1>5. Itinerary'
  BY <1>1 DEF Itinerary, NoLoop, Replacing, Starting
<1>6. Downs'
  BY <1>1 DEF Downs, Replacing, Starting
<1>7. Ups'
  BY <1>1 DEF Starting, Ups
<1>8. Layered'
  BY <1>1 DEF Layered, MaintInv, Running, cluster
<1>9. OneHistory'
  BY <1>1 DEF MaintInv, OneHistory, cluster
<1>10. Filled'
  BY <1>1 DEF Filled, Replacing, Starting
<1>11. Bundle'
  BY <1>1 DEF Bundle, Starting
<1>12. Helpers'
  BY <1>1 DEF Helpers, Replacing, Starting
<1>13. Settled'
  BY <1>1 DEF K3s, Settled, Starting
<1>14. NoneOnOldCerts'
  BY <1>1 DEF MaintInv, NoneOnOldCerts, cluster
<1> QED
  BY <1>3, <1>4, <1>5, <1>6, <1>7, <1>8, <1>9, <1>10, <1>11, <1>12, <1>13,
    <1>14 DEF MaintInv

(* A node is stopped after those of lower ranks.                            *)
LEMMA StopNodeKeeps ==
    ASSUME MaintInv, UNCHANGED listing, torn' \in BOOLEAN,
           faults' \in 0..MaxFaults,
           NEW n \in Turn, StopNode(n)
    PROVE  MaintInv'
<1>1. TypeOK /\ Control /\ Itinerary
  BY DEF MaintInv
<1>2. /\ n \in Nodes /\ n.role \in Roles /\ n \in Left /\ Left \subseteq Nodes
      /\ Turn = {n} /\ todo # <<>> /\ pc # "write"
  BY <1>1, AtTurn
<1>3. /\ pc = "stop" /\ cmd' = cmd /\ file' = file /\ mem' = mem
      /\ todo' \in Seq(Nodes) /\ IsInjective(todo')
      /\ \/ /\ pc' = "stop" /\ todo' # <<>> /\ Left' = Left \ {n}
            /\ InOrder(todo', FALSE)
         \/ /\ Left = {n}
            /\ \/ cmd = "stop" /\ pc' = "done" /\ todo' = <<>>
               \/ cmd = "rotateCerts" /\ pc' = "write" /\ todo' = <<>> /\ Left' = {}
               \/ /\ cmd = "restore" /\ pc' = "removeMember"
                  /\ todo' # <<>> /\ Left' = Members
  <2>1. /\ Tail(todo) \in Seq(Nodes) /\ IsInjective(Tail(todo))
        /\ Range(Tail(todo)) = Left \ {n} /\ InOrder(todo, FALSE)
        /\ InOrder(todo, FALSE) => InOrder(Tail(todo), FALSE)
        /\ (Len(todo) > 1) <=> (Left \ {n} # {})
        /\ (Tail(todo) = <<>>) <=> (Left \ {n} = {})
    BY <1>1, AtTurn DEF StopNode, Itinerary
  <2>2. CASE Len(todo) > 1
    BY <2>1, <2>2 DEF StopNode, Goto, Left
  <2>3. CASE ~(Len(todo) > 1)
    <3>1. IsInjective(<<>>) /\ <<>> \in Seq(Nodes)
      BY EmptySeq DEF IsInjective
    <3>2. Range(<<>>) = {}
      BY EmptyRange, EmptySeq
    <3>3. /\ NodesWithRole(listing, "datastore") \in Seq(Nodes)
          /\ IsInjective(NodesWithRole(listing, "datastore"))
          /\ Range(NodesWithRole(listing, "datastore")) = Members
          /\ NodesWithRole(listing, "datastore") # <<>>
      BY <1>1, MemberList DEF TypeOK
    <3>4. AfterStops /\ UNCHANGED mem /\ pc = "stop"
      BY <2>3 DEF StopNode
    <3>5. Left = {n}
      BY <1>2, <2>1, <2>3
    <3> QED
      BY <3>1, <3>2, <3>3, <3>4, <3>5 DEF AfterStops, Goto, Left
  <2> QED
    BY <2>2, <2>3
<1>4.  \A m \in Nodes : Running(m)' <=> Running(m) /\ m # n
  BY <1>1, <1>2 DEF StopNode, TypeOK, Running
<1>5. \A m \in Left \ {n} :
         /\ n.role = "datastore" => m.role \notin {"server", "agent", "lb"}
         /\ n.role = "lb" => m.role # "agent"
  BY <1>1, <1>3, StopsAgentsFirst
<1>6. quorum' \in BOOLEAN /\ (quorum' => CanElect')
  BY Zenon DEF StopNode
<1>7. TypeOK'
  BY <1>3 DEF K3s, MaintInv, PC, Running, StopNode, TypeOK
<1>8. Control'
  BY <1>3 DEF Control, MaintInv
<1>9. Itinerary'
  BY <1>3 DEF Itinerary, NoLoop, Replacing, Starting
<1>10. Downs'
  BY <1>3, <1>4 DEF Downs, MaintInv, Replacing, Starting
<1>11. Ups'
  BY <1>3 DEF Starting, Ups
<1>12. Layered'
  <2>1. \A m \in Nodes : Running(m) => m \in Left
    BY <1>3 DEF MaintInv, Downs
  <2>2. ASSUME NEW s \in Servers, NEW m \in Members, Running(s)' PROVE Running(m)'
    BY <1>2, <1>4, <1>5, <2>1, <2>2 DEF MaintInv, Layered, Members, Servers
  <2>3. ASSUME NEW a \in Nodes, NEW l \in Nodes,
               a.role = "agent", l.role = "lb", Running(a)'
        PROVE  Running(l)'
    BY <1>2, <1>4, <1>5, <2>1, <2>3 DEF MaintInv, Layered
  <2> QED
    BY <2>2, <2>3 DEF Layered
<1>13. OneHistory'
  BY DEF MaintInv, OneHistory, StopNode
<1>14. Filled'
  BY <1>3 DEF Filled, Replacing, Starting
<1>15. Bundle'
  BY <1>3 DEF Bundle, Starting
<1>16. Helpers'
  BY <1>3 DEF Helpers, Replacing, Starting
<1>17. Settled'
  BY <1>3 DEF Settled, Starting
<1>18. NoneOnOldCerts'
  BY DEF MaintInv, NoneOnOldCerts, StopNode
<1> QED
  BY <1>7, <1>8, <1>9, <1>10, <1>11, <1>12, <1>13, <1>14, <1>15, <1>16,
    <1>17, <1>18 DEF MaintInv

(* A node is started after those of higher ranks.                           *)
LEMMA StartNodeKeeps ==
    ASSUME MaintInv, UNCHANGED listing, torn' \in BOOLEAN,
           faults' \in 0..MaxFaults,
           NEW n \in Turn, StartNode(n)
    PROVE  MaintInv'
<1>1. TypeOK /\ Control /\ Itinerary
  BY DEF MaintInv
<1>2. /\ n \in Nodes /\ n.role \in Roles /\ n \in Left /\ Left \subseteq Nodes
      /\ Turn = {n} /\ todo # <<>> /\ pc # "write"
  BY <1>1, AtTurn
<1>3. /\ pc = "start" /\ Starting /\ cmd' = cmd /\ file' = file
      /\ todo' \in Seq(Nodes) /\ IsInjective(todo') /\ InOrder(todo', TRUE)
      /\ \/ /\ n \in K3s /\ pc' = "arm" /\ todo' # <<>>
            /\ Left' = Left /\ Turn' = {n}
         \/ /\ n \notin K3s /\ Left' = Left \ {n} /\ Turn' \subseteq Left'
            /\ \/ /\ todo' # <<>> /\ pc' \in {"start", "runHelper"}
                  /\ pc' = "runHelper" =>
                       cmd = "rotateCerts" /\ \A m \in Turn' : m.role = "server"
                  /\ pc' = "start" /\ cmd = "rotateCerts" =>
                       \A m \in Turn' : m.role # "server"
               \/ /\ todo' = <<>> /\ Left' = {}
                  /\ pc' = IF cmd = "start" THEN "done" ELSE "save"
  <2>1. pc = "start" /\ Starting
    BY DEF StartNode, Starting
  <2>2. CASE n \in K3s
    BY <1>1, <1>2, <2>1, <2>2 DEF StartNode, Goto, TypeOK, Itinerary, Left, Turn
  <2>3. CASE n \notin K3s
    BY <1>1, <2>1, <2>3, OnToNext DEF StartNode
  <2> QED
    BY <2>2, <2>3
<1>4.  \A m \in Nodes : Running(m)' <=> Running(m) \/ m = n
  BY <1>1, <1>2 DEF StartNode, TypeOK, Running
<1>5. \A m \in Left \ {n} :
         /\ n.role # "datastore" => m.role # "datastore"
         /\ n.role = "agent" => m.role # "lb"
  BY <1>1, <1>3, StartsMembersFirst
<1>6. quorum' \in BOOLEAN /\ (quorum' => CanElect')
  <2>1. \A m \in Members : Running(m) => Running(m)'
    BY <1>4 DEF Members
  <2>2. CanElect => CanElect'
    BY <1>1, <2>1, QuorumStands DEF StartNode
  <2> QED
    BY <1>1, <2>2 DEF StartNode, TypeOK
<1>7. TypeOK'
  BY <1>2, <1>3, <1>6 DEF MaintInv, PC, Running, StartNode, TypeOK
<1>8. Control'
  BY <1>3 DEF Control, MaintInv
<1>9. Itinerary'
  BY <1>2, <1>3 DEF Itinerary, MaintInv, NoLoop, Replacing, Servers
<1>10. Downs'
  BY <1>3, <1>4 DEF Downs, MaintInv, Replacing, Servers
<1>11. Ups'
  BY <1>3, <1>4 DEF MaintInv, Members, Ups
<1>12. Layered'
  <2>1. \A m \in Nodes \ Left : m.role \in {"datastore", "lb"} => Running(m)
    BY <1>3 DEF MaintInv, Ups
  <2>2. ASSUME NEW s \in Servers, NEW m \in Members, Running(s)' PROVE Running(m)'
    BY <1>2, <1>4, <1>5, <2>1, <2>2 DEF MaintInv, Layered, Members, Servers
  <2>3. ASSUME NEW a \in Nodes, NEW l \in Nodes,
               a.role = "agent", l.role = "lb", Running(a)'
        PROVE  Running(l)'
    BY <1>2, <1>4, <1>5, <2>1, <2>3 DEF MaintInv, Layered
  <2> QED
    BY <2>2, <2>3 DEF Layered
<1>13. OneHistory'
  BY DEF MaintInv, OneHistory, StartNode
<1>14. Filled'
  BY <1>3 DEF Filled, MaintInv, Replacing, StartNode
<1>15. Bundle'
  BY <1>3 DEF Bundle, MaintInv, StartNode
<1>16. Helpers'
  BY <1>3 DEF Helpers, MaintInv, Replacing, Servers, StartNode
<1>17. Settled'
  <2>1. armed' = armed /\ (pc' = "awaitApi" => FALSE) /\ ~(pc' \in {"launch", "verify"})
    BY <1>3 DEF StartNode
  <2>2. ASSUME Starting' \/ pc' = "save", NEW m \in K3s, Running(m)', m \notin armed
        PROVE  m \in Left'
    BY <1>2, <1>3, <1>4, <2>2 DEF MaintInv, Settled, K3s
  <2>3. ASSUME cmd \in {"rotateCerts", "restore"}, NEW m \in Nodes, m \notin mem'
        PROVE  m.role = "lb" \/ m \in Left'
    <3>1. m \notin mem => m.role = "lb" \/ m \in Left
      BY <1>3, <2>3 DEF MaintInv, Settled
    <3>2. m # n => m \notin mem
      BY <2>3 DEF StartNode
    <3>3. n \in Members /\ cmd = "rotateCerts" => n \in mem'
      BY DEF StartNode
    <3>4. cmd = "restore" => n \notin Members
      BY <1>1, <1>2, <1>3 DEF Itinerary
    <3>5. n \in K3s \/ n \in Members \/ n.role = "lb"
      BY <1>2 DEF K3s, Members, Roles
    <3> QED
      BY <1>2, <1>3, <2>3, <3>1, <3>2, <3>3, <3>4, <3>5
  <2> QED
    BY <1>3, <2>1, <2>2, <2>3 DEF Settled
<1>18. NoneOnOldCerts'
  BY DEF MaintInv, NoneOnOldCerts, StartNode
<1> QED
  BY <1>7, <1>8, <1>9, <1>10, <1>11, <1>12, <1>13, <1>14, <1>15, <1>16,
    <1>17, <1>18 DEF MaintInv

(* A node whose kernel settings are made is one that runs.                  *)
LEMMA ArmKeeps ==
    ASSUME MaintInv, UNCHANGED listing, torn' \in BOOLEAN,
           faults' \in 0..MaxFaults,
           NEW n \in Turn, Arm(n)
    PROVE  MaintInv'
<1>1. TypeOK /\ Control /\ Itinerary
  BY DEF MaintInv
<1>2. /\ n \in Nodes /\ n.role \in Roles /\ n \in Left /\ Left \subseteq Nodes
      /\ Turn = {n} /\ todo # <<>> /\ pc # "write"
  BY <1>1, AtTurn
<1>3. /\ pc = "arm" /\ Starting /\ cmd' = cmd /\ file' = file
      /\ todo' \in Seq(Nodes) /\ IsInjective(todo') /\ InOrder(todo', TRUE)
      /\ \/ /\ cmd = "rotateCerts" /\ n \in Servers /\ pc' = "awaitApi"
            /\ todo' # <<>> /\ Left' = Left /\ Turn' = {n}
         \/ /\ Left' = Left \ {n} /\ Turn' \subseteq Left'
            /\ \/ /\ todo' # <<>> /\ pc' \in {"start", "runHelper"}
                  /\ pc' = "runHelper" =>
                       cmd = "rotateCerts" /\ \A m \in Turn' : m.role = "server"
                  /\ pc' = "start" /\ cmd = "rotateCerts" =>
                       \A m \in Turn' : m.role # "server"
               \/ /\ todo' = <<>> /\ Left' = {}
                  /\ pc' = IF cmd = "start" THEN "done" ELSE "save"
  <2>1. pc = "arm" /\ Starting
    BY DEF Arm, Starting
  <2>2. CASE cmd = "rotateCerts" /\ n \in Servers
    BY <1>1, <1>2, <2>1, <2>2 DEF Arm, Goto, TypeOK, Itinerary, Left, Turn
  <2>3. CASE ~(cmd = "rotateCerts" /\ n \in Servers)
    BY <1>1, <2>1, <2>3, OnToNext DEF Arm
  <2> QED
    BY <2>2, <2>3
<1>4. n \in K3s /\ Running(n) /\ \A m \in Nodes : Running(m)' <=> Running(m)
  BY <1>1, <1>2 DEF Arm, Itinerary, TypeOK, Running
<1>5. quorum' \in BOOLEAN /\ (quorum' => CanElect')
  <2>1. \A m \in Members : Running(m) => Running(m)'
    BY <1>4 DEF Members
  <2>2. CanElect => CanElect'
    BY <1>1, <2>1, QuorumStands DEF Arm
  <2> QED
    BY <1>1, <2>2 DEF Arm, TypeOK
<1>6. TypeOK'
  BY <1>3, <1>4, <1>5 DEF Arm, K3s, MaintInv, PC, TypeOK
<1>7. Control'
  BY <1>3 DEF Control, MaintInv
<1>8. Itinerary'
  BY <1>2, <1>3 DEF Itinerary, MaintInv, NoLoop, Replacing, Servers
<1>9. Downs'
  BY <1>3 DEF Arm, Downs, MaintInv, Replacing, Running, Turn
<1>10. Ups'
  BY <1>3 DEF Arm, MaintInv, Members, Running, Ups
<1>11. Layered'
  BY DEF Arm, Layered, MaintInv, Running
<1>12. OneHistory'
  BY DEF Arm, MaintInv, OneHistory
<1>13. Filled'
  BY <1>3 DEF Arm, Filled, MaintInv, Replacing
<1>14. Bundle'
  BY <1>3 DEF Arm, Bundle, MaintInv
<1>15. Helpers'
  BY <1>3 DEF Arm, Helpers, MaintInv, Replacing, Servers
<1>16. Settled'
  BY <1>3 DEF Arm, MaintInv, Running, Settled
<1>17. NoneOnOldCerts'
  BY DEF Arm, MaintInv, NoneOnOldCerts
<1> QED
  BY <1>6, <1>7, <1>8, <1>9, <1>10, <1>11, <1>12, <1>13, <1>14, <1>15,
    <1>16, <1>17 DEF MaintInv

(* A server that answers is done with.                                      *)
LEMMA AwaitApiKeeps ==
    ASSUME MaintInv, UNCHANGED listing, torn' \in BOOLEAN,
           faults' \in 0..MaxFaults,
           NEW n \in Turn, AwaitApi(n)
    PROVE  MaintInv'
<1>1. TypeOK /\ Control /\ Itinerary
  BY DEF MaintInv
<1>2. /\ n \in Nodes /\ n.role \in Roles /\ n \in Left /\ Left \subseteq Nodes
      /\ Turn = {n} /\ todo # <<>> /\ pc # "write"
  BY <1>1, AtTurn
<1>3. /\ pc = "awaitApi" /\ Starting /\ cmd' = cmd /\ file' = file /\ cmd = "rotateCerts"
      /\ todo' \in Seq(Nodes) /\ IsInjective(todo') /\ InOrder(todo', TRUE)
      /\ \/ /\ Left' = Left \ {n} /\ Turn' \subseteq Left'
            /\ \/ /\ todo' # <<>> /\ pc' \in {"start", "runHelper"}
                  /\ pc' = "runHelper" =>
                       cmd = "rotateCerts" /\ \A m \in Turn' : m.role = "server"
                  /\ pc' = "start" /\ cmd = "rotateCerts" =>
                       \A m \in Turn' : m.role # "server"
               \/ /\ todo' = <<>> /\ Left' = {}
                  /\ pc' = IF cmd = "start" THEN "done" ELSE "save"
  <2>1. pc = "awaitApi" /\ Starting /\ cmd = "rotateCerts"
    BY <1>1 DEF AwaitApi, Starting, Control
  <2> QED
    BY <1>1, <2>1, OnToNext DEF AwaitApi
<1>4. UNCHANGED cluster
  BY DEF AwaitApi
<1>5. quorum' \in BOOLEAN /\ (quorum' => CanElect')
  <2>1. \A m \in Members : Running(m) => Running(m)'
    BY <1>4 DEF Members, Running, cluster
  <2>2. CanElect => CanElect'
    BY <1>1, <2>1, QuorumStands DEF AwaitApi, cluster
  <2> QED
    BY <1>1, <2>2 DEF AwaitApi, cluster, TypeOK
<1>6. TypeOK'
  BY <1>3, <1>5 DEF AwaitApi, MaintInv, PC, Running, TypeOK, cluster
<1>7. Control'
  BY <1>3 DEF Control, MaintInv
<1>8. Itinerary'
  BY <1>2, <1>3 DEF Itinerary, NoLoop, Replacing, Servers
<1>9. Downs'
  BY <1>3 DEF AwaitApi, Downs, MaintInv, Replacing, Running, Turn, cluster
<1>10. Ups'
  BY <1>3 DEF AwaitApi, MaintInv, Members, Running, Ups, cluster
<1>11. Layered'
  BY DEF AwaitApi, Layered, MaintInv, Running, cluster
<1>12. OneHistory'
  BY DEF AwaitApi, MaintInv, OneHistory, cluster
<1>13. Filled'
  BY <1>3 DEF Filled, Replacing
<1>14. Bundle'
  BY <1>3 DEF AwaitApi, Bundle, MaintInv, cluster
<1>15. Helpers'
  BY <1>3 DEF AwaitApi, Helpers, MaintInv, Replacing, Servers, cluster
<1>16. Settled'
  BY <1>3 DEF AwaitApi, MaintInv, Running, Settled, cluster
<1>17. NoneOnOldCerts'
  BY DEF AwaitApi, MaintInv, NoneOnOldCerts, cluster
<1> QED
  BY <1>6, <1>7, <1>8, <1>9, <1>10, <1>11, <1>12, <1>13, <1>14, <1>15,
    <1>16, <1>17 DEF MaintInv

(* A member's container is removed while none runs.                         *)
LEMMA RemoveMemberKeeps ==
    ASSUME MaintInv, UNCHANGED listing, torn' \in BOOLEAN,
           faults' \in 0..MaxFaults,
           NEW n \in Turn, RemoveMember(n)
    PROVE  MaintInv'
<1>1. TypeOK /\ Control /\ Itinerary
  BY DEF MaintInv
<1>2. /\ n \in Nodes /\ n.role \in Roles /\ n \in Left /\ Left \subseteq Nodes
      /\ Turn = {n} /\ todo # <<>> /\ pc # "write"
  BY <1>1, AtTurn
<1>3. /\ pc = "removeMember" /\ Replacing /\ cmd = "restore" /\ cmd' = cmd /\ file' = file
      /\ todo' = todo /\ pc' = "deleteVolume" /\ Left' = Left /\ Turn' = Turn /\ n \in Members
  <2>1. pc = "removeMember" /\ Replacing /\ cmd = "restore"
    BY <1>1 DEF RemoveMember, Replacing, Control
  <2>2. n \in Members
    BY <1>1, <1>2, <2>1 DEF Itinerary
  <2> QED
    BY <2>1, <2>2 DEF RemoveMember, Goto, Left, Turn
<1>4. \A m \in Nodes : ~Running(m)
  BY <1>3 DEF MaintInv, Downs, Replacing
<1>5. quorum' \in BOOLEAN /\ (quorum' => CanElect')
  <2>1. ~CanElect
    BY <1>4, NoQuorum DEF Members
  <2> QED
    BY <1>1, <2>1 DEF RemoveMember, TypeOK
<1>6. \A m \in Nodes : ~Running(m)'
  BY <1>1, <1>2, <1>4 DEF RemoveMember, TypeOK, Running
<1>7. TypeOK'
  BY <1>3, <1>5 DEF K3s, MaintInv, Members, PC, RemoveMember, Running, TypeOK
<1>8. Control'
  BY <1>3 DEF Control, MaintInv
<1>9. Itinerary'
  BY <1>3 DEF Itinerary, MaintInv, NoLoop, Starting
<1>10. Downs'
  BY DEF Downs, MaintInv, RemoveMember, Replacing, Running, Servers
<1>11. Ups'
  BY <1>3 DEF Starting, Ups
<1>12. Layered'
  BY <1>6 DEF Layered, Servers
<1>13. OneHistory'
  BY DEF MaintInv, OneHistory, RemoveMember
<1>14. Filled'
  <2>1. ctr'[n] = "absent" /\ \A m \in Members : m # n => ctr'[m] = ctr[m]
    BY <1>1, <1>2, <1>3 DEF RemoveMember, TypeOK
  <2>2. UNCHANGED data /\ pc' # "removeHelper" /\ ~(pc' \in {"launch", "verify", "save"})
    BY <1>3 DEF RemoveMember
  <2>3. \A m \in Members \ Left : ctr[m] = "absent" /\ data[m] = file
    BY <1>3 DEF MaintInv, Filled
  <2>4. Turn' = {n} /\ Replacing' /\ ~Starting'
    BY <1>2, <1>3 DEF Replacing, Starting
  <2> QED
    BY <1>2, <1>3, <2>1, <2>2, <2>3, <2>4 DEF Filled
<1>15. Bundle'
  BY <1>3 DEF Bundle
<1>16. Helpers'
  BY <1>3 DEF Helpers, MaintInv, RemoveMember, Starting
<1>17. Settled'
  BY <1>3 DEF Settled, Starting
<1>18. NoneOnOldCerts'
  BY DEF MaintInv, NoneOnOldCerts, RemoveMember
<1> QED
  BY <1>7, <1>8, <1>9, <1>10, <1>11, <1>12, <1>13, <1>14, <1>15, <1>16,
    <1>17, <1>18 DEF MaintInv

(* Its volume is deleted after the container.                               *)
LEMMA DeleteVolumeKeeps ==
    ASSUME MaintInv, UNCHANGED listing, torn' \in BOOLEAN,
           faults' \in 0..MaxFaults,
           NEW n \in Turn, DeleteVolume(n)
    PROVE  MaintInv'
<1>1. TypeOK /\ Control /\ Itinerary
  BY DEF MaintInv
<1>2. /\ n \in Nodes /\ n.role \in Roles /\ n \in Left /\ Left \subseteq Nodes
      /\ Turn = {n} /\ todo # <<>> /\ pc # "write"
  BY <1>1, AtTurn
<1>3. /\ pc = "deleteVolume" /\ Replacing /\ cmd = "restore" /\ cmd' = cmd /\ file' = file
      /\ todo' = todo /\ pc' = "createVolume" /\ Left' = Left /\ Turn' = Turn /\ n \in Members
  <2>1. pc = "deleteVolume" /\ Replacing /\ cmd = "restore"
    BY <1>1 DEF DeleteVolume, Replacing, Control
  <2>2. n \in Members
    BY <1>1, <1>2, <2>1 DEF Itinerary
  <2> QED
    BY <2>1, <2>2 DEF DeleteVolume, Goto, Left, Turn
<1>4. \A m \in Nodes : ~Running(m)
  BY <1>3 DEF MaintInv, Downs, Replacing
<1>5. quorum' \in BOOLEAN /\ (quorum' => CanElect')
  <2>1. ~CanElect
    BY <1>4, NoQuorum DEF Members
  <2> QED
    BY <1>1, <2>1 DEF DeleteVolume, TypeOK
<1>6. \A m \in Nodes : Running(m)' <=> Running(m)
  BY DEF DeleteVolume, Running
<1>7. TypeOK'
  BY <1>3, <1>5 DEF Data, DeleteVolume, MaintInv, PC, Running, TypeOK
<1>8. Control'
  BY <1>3 DEF Control, MaintInv
<1>9. Itinerary'
  BY <1>3 DEF Itinerary, MaintInv, NoLoop, Starting
<1>10. Downs'
  BY DEF DeleteVolume, Downs, MaintInv, Replacing, Running, Servers
<1>11. Ups'
  BY <1>3 DEF Starting, Ups
<1>12. Layered'
  BY DEF DeleteVolume, Layered, MaintInv, Running
<1>13. OneHistory'
  <2>1. n \in Members /\ ctr[n] = "absent"
    BY <1>2, <1>3 DEF MaintInv, Filled
  <2>2. ctr' = ctr /\ \A m \in Members : m # n => data'[m] = data[m]
    BY <1>1, <2>1 DEF DeleteVolume, TypeOK
  <2> QED
    BY <2>1, <2>2 DEF MaintInv, OneHistory
<1>14. Filled'
  BY <1>2, <1>3 DEF DeleteVolume, Filled, MaintInv, Starting
<1>15. Bundle'
  BY <1>3 DEF Bundle
<1>16. Helpers'
  BY <1>3 DEF DeleteVolume, Helpers, MaintInv, Starting
<1>17. Settled'
  BY <1>3 DEF Settled, Starting
<1>18. NoneOnOldCerts'
  BY DEF DeleteVolume, MaintInv, NoneOnOldCerts
<1> QED
  BY <1>7, <1>8, <1>9, <1>10, <1>11, <1>12, <1>13, <1>14, <1>15, <1>16,
    <1>17, <1>18 DEF MaintInv

(* An empty volume is on no running member.                                 *)
LEMMA CreateVolumeKeeps ==
    ASSUME MaintInv, UNCHANGED listing, torn' \in BOOLEAN,
           faults' \in 0..MaxFaults,
           NEW n \in Turn, CreateVolume(n)
    PROVE  MaintInv'
<1>1. TypeOK /\ Control /\ Itinerary
  BY DEF MaintInv
<1>2. /\ n \in Nodes /\ n.role \in Roles /\ n \in Left /\ Left \subseteq Nodes
      /\ Turn = {n} /\ todo # <<>> /\ pc # "write"
  BY <1>1, AtTurn
<1>3. /\ pc = "createVolume" /\ Replacing /\ cmd = "restore" /\ cmd' = cmd /\ file' = file
      /\ todo' = todo /\ pc' = "runHelper" /\ Left' = Left /\ Turn' = Turn /\ n \in Members
  <2>1. pc = "createVolume" /\ Replacing /\ cmd = "restore"
    BY <1>1 DEF CreateVolume, Replacing, Control
  <2>2. n \in Members
    BY <1>1, <1>2, <2>1 DEF Itinerary
  <2> QED
    BY <2>1, <2>2 DEF CreateVolume, Goto, Left, Turn
<1>4. \A m \in Nodes : ~Running(m)
  BY <1>3 DEF MaintInv, Downs, Replacing
<1>5. quorum' \in BOOLEAN /\ (quorum' => CanElect')
  <2>1. ~CanElect
    BY <1>4, NoQuorum DEF Members
  <2> QED
    BY <1>1, <2>1 DEF CreateVolume, TypeOK
<1>6. \A m \in Nodes : Running(m)' <=> Running(m)
  BY DEF CreateVolume, Running
<1>7. TypeOK'
  BY <1>3, <1>5 DEF CreateVolume, Data, MaintInv, PC, Running, TypeOK
<1>8. Control'
  BY <1>3 DEF Control, MaintInv
<1>9. Itinerary'
  BY <1>3 DEF Itinerary, MaintInv, NoLoop, Starting
<1>10. Downs'
  BY DEF CreateVolume, Downs, MaintInv, Replacing, Running, Servers
<1>11. Ups'
  BY <1>3 DEF Starting, Ups
<1>12. Layered'
  BY DEF CreateVolume, Layered, MaintInv, Running
<1>13. OneHistory'
  <2>1. n \in Members /\ ctr[n] = "absent"
    BY <1>2, <1>3 DEF MaintInv, Filled
  <2>2. ctr' = ctr /\ \A m \in Members : m # n => data'[m] = data[m]
    BY <1>1, <2>1 DEF CreateVolume, TypeOK
  <2> QED
    BY <2>1, <2>2 DEF MaintInv, OneHistory
<1>14. Filled'
  BY <1>2, <1>3 DEF CreateVolume, Filled, MaintInv, Starting
<1>15. Bundle'
  BY <1>3 DEF Bundle
<1>16. Helpers'
  BY <1>3 DEF CreateVolume, Helpers, MaintInv, Starting
<1>17. Settled'
  BY <1>3 DEF Settled, Starting
<1>18. NoneOnOldCerts'
  BY DEF CreateVolume, MaintInv, NoneOnOldCerts
<1> QED
  BY <1>7, <1>8, <1>9, <1>10, <1>11, <1>12, <1>13, <1>14, <1>15, <1>16,
    <1>17, <1>18 DEF MaintInv

(* A volume is filled while no container is on it.                          *)
LEMMA RunHelperKeeps ==
    ASSUME MaintInv, UNCHANGED listing, torn' \in BOOLEAN,
           faults' \in 0..MaxFaults,
           NEW n \in Turn, RunHelper(n)
    PROVE  MaintInv'
<1>1. TypeOK /\ Control /\ Itinerary
  BY DEF MaintInv
<1>2. /\ n \in Nodes /\ n.role \in Roles /\ n \in Left /\ Left \subseteq Nodes
      /\ Turn = {n} /\ todo # <<>> /\ pc # "write"
  BY <1>1, AtTurn
<1>3. /\ pc = "runHelper" /\ pc' = "removeHelper" /\ cmd' = cmd /\ file' = file
      /\ todo' = todo /\ Left' = Left /\ Turn' = Turn
      /\ \/ cmd = "rotateCerts" /\ Starting /\ n \in Servers /\ UNCHANGED data
         \/ /\ cmd = "restore" /\ Replacing /\ n \in Members /\ file \in {"saved", "hollow"}
            /\ data' = [data EXCEPT ![n] = file]
  <2>1. pc = "runHelper" /\ cmd \in {"rotateCerts", "restore"}
    BY <1>1 DEF RunHelper, Control
  <2>2. CASE cmd = "rotateCerts"
    BY <1>1, <1>2, <2>1, <2>2 DEF RunHelper, Starting, Itinerary, Goto, Left, Turn
  <2>3. CASE cmd = "restore"
    <3>1. Replacing /\ file \in {"saved", "hollow"}
      BY <1>1, <2>1, <2>3 DEF RunHelper, Replacing, TypeOK, Control, File
    <3> QED
      BY <1>1, <1>2, <2>1, <2>3, <3>1 DEF RunHelper, Itinerary, Goto, Left, Turn
  <2> QED
    BY <2>1, <2>2, <2>3
<1>4. \A m \in Nodes : Running(m)' <=> Running(m)
  BY DEF RunHelper, Running
<1>5. Replacing => \A m \in Nodes : ~Running(m)
  BY DEF MaintInv, Downs
<1>6. quorum' \in BOOLEAN /\ (quorum' => CanElect')
  <2>1. CASE Replacing
    BY <1>1, <1>5, <2>1, NoQuorum DEF RunHelper, TypeOK, Members
  <2>2. CASE ~Replacing
    <3>1. UNCHANGED data
      BY <1>3, <2>2
    <3>2. CanElect => CanElect'
      BY <1>1, <1>4, <3>1, QuorumStands DEF RunHelper, Members
    <3> QED
      BY <1>1, <3>2 DEF RunHelper, TypeOK
  <2> QED
    BY <2>1, <2>2
<1>7. TypeOK'
  BY <1>3, <1>6 DEF Data, MaintInv, PC, RunHelper, Running, TypeOK
<1>8. Control'
  BY <1>3 DEF Control, MaintInv
<1>9. Itinerary'
  BY <1>3 DEF Itinerary, MaintInv, NoLoop, Replacing, Starting
<1>10. Downs'
  BY <1>3 DEF Downs, MaintInv, Replacing, RunHelper, Running
<1>11. Ups'
  BY <1>3 DEF MaintInv, RunHelper, Running, Starting, Ups
<1>12. Layered'
  BY DEF Layered, MaintInv, RunHelper, Running
<1>13. OneHistory'
  <2>1. CASE UNCHANGED data
    BY <2>1 DEF RunHelper, MaintInv, OneHistory
  <2>2. CASE Replacing /\ n \in Members /\ data' = [data EXCEPT ![n] = file]
    <3>1. ctr[n] = "absent"
      BY <1>2, <1>3, <2>2 DEF MaintInv, Filled
    <3>2. ctr' = ctr /\ \A m \in Members : m # n => data'[m] = data[m]
      BY <1>1, <2>2 DEF RunHelper, TypeOK
    <3> QED
      BY <3>1, <3>2 DEF MaintInv, OneHistory
  <2> QED
    BY <1>3, <2>1, <2>2
<1>14. Filled'
  <2>1. CASE Starting
    <3>1. Starting' /\ ~Replacing' /\ UNCHANGED data /\ cmd' # "restore" /\ pc' # "launch"
      BY <1>1, <1>3, <2>1 DEF RunHelper, Starting, Replacing, Control
    <3> QED
      BY <3>1 DEF Filled
  <2>2. CASE Replacing
    <3>1. /\ Replacing' /\ ~Starting' /\ ctr' = ctr /\ n \in Members
          /\ ~(pc' \in {"launch", "verify", "save"}) /\ Turn' = {n} /\ file' = file
      BY <1>2, <1>3, <2>2 DEF RunHelper, Starting, Replacing
    <3>2. data'[n] = file /\ \A m \in Members : m # n => data'[m] = data[m]
      BY <1>1, <1>3, <2>2 DEF TypeOK, Starting, Replacing
    <3>3. /\ ctr[n] = "absent"
          /\ \A m \in Members \ Left : ctr[m] = "absent" /\ data[m] = file
      BY <1>2, <1>3, <2>2 DEF MaintInv, Filled
    <3> QED
      BY <1>2, <1>3, <3>1, <3>2, <3>3 DEF Filled
  <2> QED
    BY <1>3, <2>1, <2>2
<1>15. Bundle'
  BY <1>3 DEF Bundle, MaintInv, RunHelper
<1>16. Helpers'
  BY <1>2, <1>3 DEF Helpers, MaintInv, Replacing, RunHelper, Starting
<1>17. Settled'
  BY <1>3 DEF MaintInv, RunHelper, Running, Settled, Starting
<1>18. NoneOnOldCerts'
  BY DEF MaintInv, NoneOnOldCerts, RunHelper
<1> QED
  BY <1>7, <1>8, <1>9, <1>10, <1>11, <1>12, <1>13, <1>14, <1>15, <1>16,
    <1>17, <1>18 DEF MaintInv

(* A loop has removed the helpers of the nodes it is done with.             *)
LEMMA RemoveHelperKeeps ==
    ASSUME MaintInv, UNCHANGED listing, torn' \in BOOLEAN,
           faults' \in 0..MaxFaults,
           NEW n \in Turn, RemoveHelper(n)
    PROVE  MaintInv'
<1>1. TypeOK /\ Control /\ Itinerary
  BY DEF MaintInv
<1>2. /\ n \in Nodes /\ n.role \in Roles /\ n \in Left /\ Left \subseteq Nodes
      /\ Turn = {n} /\ todo # <<>> /\ pc # "write"
  BY <1>1, AtTurn
<1>3. /\ pc = "removeHelper" /\ cmd' = cmd /\ file' = file
      /\ todo' \in Seq(Nodes) /\ IsInjective(todo') /\ todo' # <<>>
      /\ \/ /\ cmd = "rotateCerts" /\ Starting /\ n \in Servers
            /\ pc' = "start" /\ todo' = todo /\ Left' = Left /\ Turn' = {n}
         \/ /\ cmd = "restore" /\ Replacing /\ n \in Members
            /\ \/ pc' = "removeMember" /\ Left' = Left \ {n}
               \/ pc' = "launch" /\ Left' = Members /\ Left = {n}
  <2>1. pc = "removeHelper" /\ cmd \in {"rotateCerts", "restore"}
    BY <1>1 DEF RemoveHelper, Control
  <2>2. CASE cmd = "rotateCerts"
    BY <1>1, <1>2, <2>1, <2>2 DEF RemoveHelper, Starting, Itinerary, TypeOK, Goto, Left, Turn
  <2>3. CASE cmd = "restore"
    <3>1. Replacing /\ n \in Members
      BY <1>1, <1>2, <2>1, <2>3 DEF Replacing, Itinerary
    <3>2. /\ Tail(todo) \in Seq(Nodes) /\ IsInjective(Tail(todo))
          /\ Range(Tail(todo)) = Left \ {n}
          /\ (Len(todo) > 1) <=> (Left \ {n} # {})
          /\ (Tail(todo) = <<>>) <=> (Left \ {n} = {})
      BY <1>1, AtTurn
    <3>3. /\ NodesWithRole(listing, "datastore") \in Seq(Nodes)
          /\ IsInjective(NodesWithRole(listing, "datastore"))
          /\ Range(NodesWithRole(listing, "datastore")) = Members
          /\ NodesWithRole(listing, "datastore") # <<>>
      BY <1>1, MemberList DEF TypeOK
    <3> QED
      BY <1>2, <2>1, <2>3, <3>1, <3>2, <3>3 DEF RemoveHelper, Goto, Left
  <2> QED
    BY <2>1, <2>2, <2>3
<1>4. \A m \in Nodes : Running(m)' <=> Running(m)
  BY DEF RemoveHelper, Running
<1>5. quorum' \in BOOLEAN /\ (quorum' => CanElect')
  <2>1. \A m \in Members : Running(m) => Running(m)'
    BY <1>4 DEF Members
  <2>2. CanElect => CanElect'
    BY <1>1, <2>1, QuorumStands DEF RemoveHelper
  <2> QED
    BY <1>1, <2>2 DEF RemoveHelper, TypeOK
<1>6. TypeOK'
  BY <1>3, <1>5 DEF MaintInv, PC, RemoveHelper, Running, TypeOK
<1>7. Control'
  BY <1>3 DEF Control, MaintInv
<1>8. Itinerary'
  BY <1>3 DEF Itinerary, MaintInv, NoLoop, Replacing, Starting
<1>9. Downs'
  BY <1>3 DEF Downs, MaintInv, RemoveHelper, Replacing, Running
<1>10. Ups'
  BY <1>3 DEF MaintInv, RemoveHelper, Running, Starting, Ups
<1>11. Layered'
  BY DEF Layered, MaintInv, RemoveHelper, Running
<1>12. OneHistory'
  BY DEF MaintInv, OneHistory, RemoveHelper
<1>13. Filled'
  BY <1>3 DEF Filled, MaintInv, RemoveHelper, Replacing, Starting
<1>14. Bundle'
  BY <1>3 DEF Bundle, MaintInv, RemoveHelper
<1>15. Helpers'
  BY <1>3 DEF Helpers, MaintInv, RemoveHelper, Replacing, Starting
<1>16. Settled'
  BY <1>3 DEF MaintInv, RemoveHelper, Running, Settled, Starting
<1>17. NoneOnOldCerts'
  BY DEF MaintInv, NoneOnOldCerts, RemoveHelper
<1> QED
  BY <1>6, <1>7, <1>8, <1>9, <1>10, <1>11, <1>12, <1>13, <1>14, <1>15,
    <1>16, <1>17 DEF MaintInv

(* The members come up on the file they were all filled from.               *)
LEMMA LaunchMemberKeeps ==
    ASSUME MaintInv, UNCHANGED listing, torn' \in BOOLEAN,
           faults' \in 0..MaxFaults,
           NEW n \in Turn, LaunchMember(n)
    PROVE  MaintInv'
<1>1. TypeOK /\ Control /\ Itinerary
  BY DEF MaintInv
<1>2. /\ n \in Nodes /\ n.role \in Roles /\ n \in Left /\ Left \subseteq Nodes
      /\ Turn = {n} /\ todo # <<>> /\ pc # "write"
  BY <1>1, AtTurn
<1>3. /\ pc = "launch" /\ cmd = "restore" /\ cmd' = cmd /\ file' = file /\ n \in Members
      /\ todo' \in Seq(Nodes) /\ IsInjective(todo') /\ Left' = Left \ {n}
      /\ \/ pc' = "launch" /\ todo' # <<>>
         \/ pc' = "verify" /\ todo' = <<>>
  <2>1. pc = "launch" /\ cmd = "restore"
    BY <1>1 DEF LaunchMember, Control
  <2>2. n \in Members
    BY <1>1, <1>2, <2>1 DEF Itinerary
  <2>3. /\ Tail(todo) \in Seq(Nodes) /\ IsInjective(Tail(todo))
        /\ Range(Tail(todo)) = Left \ {n}
        /\ (Len(todo) > 1) <=> (Left \ {n} # {})
        /\ (Tail(todo) = <<>>) <=> (Left \ {n} = {})
    BY <1>1, AtTurn
  <2>4. IsInjective(<<>>) /\ <<>> \in Seq(Nodes)
    BY EmptySeq DEF IsInjective
  <2>5. Range(<<>>) = {}
    BY EmptyRange, EmptySeq
  <2> QED
    BY <2>1, <2>2, <2>3, <2>4, <2>5 DEF LaunchMember, Goto, Left
<1>4.  \A m \in Nodes : Running(m)' <=> Running(m) \/ m = n
  BY <1>1, <1>2 DEF LaunchMember, TypeOK, Running
<1>5. quorum' \in BOOLEAN /\ (quorum' => CanElect')
  <2>1. \A m \in Members : Running(m) => Running(m)'
    BY <1>4 DEF Members
  <2>2. CanElect => CanElect'
    BY <1>1, <2>1, QuorumStands DEF LaunchMember
  <2> QED
    BY <1>1, <2>2 DEF LaunchMember, TypeOK
<1>6. TypeOK'
  BY <1>3, <1>5 DEF LaunchMember, MaintInv, Members, PC, Running, TypeOK
<1>7. Control'
  BY <1>3 DEF Control, MaintInv
<1>8. Itinerary'
  BY <1>3 DEF Itinerary, MaintInv, NoLoop, Starting
<1>9. Downs'
  BY <1>3 DEF Downs, LaunchMember, MaintInv, Replacing, Running
<1>10. Ups'
  BY <1>3, <1>4 DEF MaintInv, Members, Starting, Ups
<1>11. Layered'
  BY <1>3 DEF LaunchMember, Layered, MaintInv, Members, Running, Servers
<1>12. OneHistory'
  <2>1. data' = data /\ \A m \in Members : data[m] = file
    BY <1>3 DEF LaunchMember, MaintInv, Filled
  <2>2. file \in File
    BY <1>1, <1>3 DEF TypeOK, Control
  <2> QED
    BY <2>1, <2>2 DEF OneHistory, File
<1>13. Filled'
  BY <1>3 DEF Filled, LaunchMember, MaintInv, Replacing, Starting
<1>14. Bundle'
  BY <1>3 DEF Bundle
<1>15. Helpers'
  BY <1>3 DEF Helpers, LaunchMember, MaintInv
<1>16. Settled'
  BY <1>3 DEF LaunchMember, MaintInv, Settled, Starting
<1>17. NoneOnOldCerts'
  BY DEF LaunchMember, MaintInv, NoneOnOldCerts
<1> QED
  BY <1>6, <1>7, <1>8, <1>9, <1>10, <1>11, <1>12, <1>13, <1>14, <1>15,
    <1>16, <1>17 DEF MaintInv

(* The other nodes are started once the members were seen to have the marker.*)
LEMMA VerifyMarkerKeeps ==
    ASSUME MaintInv, UNCHANGED listing, torn' \in BOOLEAN,
           faults' \in 0..MaxFaults, VerifyMarker
    PROVE  MaintInv'
<1>1. TypeOK /\ Control /\ Itinerary /\ Filled
  BY DEF MaintInv
<1>2. /\ pc = "verify" /\ pc' = "start" /\ cmd = "restore" /\ cmd' = cmd /\ file' = file
      /\ todo = <<>> /\ Left = {} /\ Starting'
      /\ UNCHANGED <<cluster, mem>>
  <2>1. pc = "verify" /\ todo = <<>> /\ cmd = "restore"
    BY <1>1 DEF VerifyMarker, Control, Itinerary, NoLoop
  <2>2. Left = {}
    BY <2>1, EmptyRange, EmptySeq DEF Left
  <2> QED
    BY <2>1, <2>2 DEF VerifyMarker, Goto, Starting
<1>3. /\ todo' \in Seq(Nodes) /\ IsInjective(todo') /\ todo' # <<>>
      /\ InOrder(todo', TRUE) /\ Left' = Nodes \ Members
  <2>1. todo' = StartList(cmd) /\ cmd \in {"start", "rotateCerts", "restore"}
    BY <1>2 DEF VerifyMarker, Goto
  <2>2. listing \in Listings
    BY <1>1 DEF TypeOK
  <2> HIDE DEF StartList
  <2> QED
    BY <1>2, <2>1, <2>2, StartLists DEF Left
<1>4. file = "saved"
  <2>1. FirstMember \in Members
    BY <1>1, MemberList DEF TypeOK
  <2>2. data[FirstMember] = file /\ file \in File
    BY <1>1, <1>2, <2>1 DEF Filled, TypeOK, Control
  <2>3. data[FirstMember] # "hollow" /\ data[FirstMember] \in Data
    BY <1>1, <2>1 DEF VerifyMarker, MarkerFound, TypeOK
  <2> QED
    BY <2>2, <2>3 DEF File, Data
<1>5. \A m \in Nodes : Running(m)' <=> Running(m)
  BY <1>2 DEF cluster, Running
<1>6. quorum' \in BOOLEAN /\ (quorum' => CanElect')
  <2>1. CanElect => CanElect'
    BY <1>1, <1>2, <1>5, QuorumStands DEF cluster, Members
  <2> QED
    BY <1>1, <1>2, <2>1 DEF cluster, TypeOK
<1>7. TypeOK'
  BY <1>2, <1>3, <1>6 DEF MaintInv, PC, Running, TypeOK, cluster
<1>8. Control'
  BY <1>2 DEF Control, MaintInv
<1>9. Itinerary'
  BY <1>2, <1>3 DEF Itinerary, NoLoop, Replacing
<1>10. Downs'
  BY <1>2 DEF Downs, Replacing
<1>11. Ups'
  BY <1>2, <1>3 DEF MaintInv, Running, Ups, cluster
<1>12. Layered'
  BY <1>5 DEF Layered, MaintInv, Members, Servers
<1>13. OneHistory'
  BY <1>2 DEF MaintInv, OneHistory, cluster
<1>14. Filled'
  BY <1>2, <1>4 DEF Filled, MaintInv, Replacing, cluster
<1>15. Bundle'
  BY <1>2 DEF Bundle
<1>16. Helpers'
  BY <1>2 DEF Helpers, MaintInv, cluster
<1>17. Settled'
  BY <1>2, <1>3 DEF K3s, MaintInv, Members, Settled
<1>18. NoneOnOldCerts'
  BY <1>2 DEF MaintInv, NoneOnOldCerts, cluster
<1> QED
  BY <1>7, <1>8, <1>9, <1>10, <1>11, <1>12, <1>13, <1>14, <1>15, <1>16,
    <1>17, <1>18 DEF MaintInv

(* Certificates are written while nothing runs, a bundle of one CA at the end.*)
LEMMA WriteDirKeeps ==
    ASSUME MaintInv, UNCHANGED listing, torn' \in BOOLEAN,
           faults' \in 0..MaxFaults,
           NEW d \in Dirs, WriteDir(d)
    PROVE  MaintInv'
<1>1. TypeOK /\ Control /\ Itinerary /\ Bundle
  BY DEF MaintInv
<1>2. /\ pc = "write" /\ cmd = "rotateCerts" /\ Left \subseteq Members
      /\ todo \in Seq(Nodes) /\ IsInjective(todo) /\ d \in ToWrite
      /\ cmd' = cmd /\ file' = file /\ file = "none"
      /\ (todo = <<>>) <=> (Left = {})
  <2>1. pc = "write" /\ cmd = "rotateCerts" /\ todo \in Seq(Nodes) /\ IsInjective(todo)
    BY <1>1 DEF WriteDir, Control, Itinerary, TypeOK
  <2>2. (todo = <<>>) <=> (Left = {})
    BY <2>1, EmptyRange DEF Left
  <2> QED
    BY <1>1, <2>1, <2>2 DEF WriteDir, Goto, Control, Itinerary
<1>3. Client \notin Members /\ Members # {}
  BY NodesAssumption DEF Client, Members
<1>4. \/ /\ d = Client /\ pc' = "start" /\ Starting' /\ fresh' = Dirs
         /\ todo' \in Seq(Nodes) /\ IsInjective(todo') /\ InOrder(todo', TRUE)
         /\ todo' # <<>> /\ Left' = Nodes /\ Turn' \subseteq Members
      \/ /\ d \in Members /\ pc' = "write" /\ fresh' = NewBundle \cup {d}
         /\ todo' \in Seq(Nodes) /\ IsInjective(todo') /\ todo' # <<>>
         /\ Left' = Left \cup {d} /\ Left' \subseteq fresh'
  <2>1. CASE d = Client
    <3>1. Left = Members /\ NewBundle = fresh /\ fresh' = fresh \cup {Client}
      BY <1>2, <1>3, <2>1 DEF WriteDir, ToWrite, Written, Left, NewBundle
    <3>2. fresh' = Dirs
      BY <1>1, <1>2, <1>3, <3>1 DEF Bundle, TypeOK, Dirs
    <3>3. pc' = "start" /\ todo' = StartList(cmd) /\ listing \in Listings
      BY <1>1, <2>1 DEF WriteDir, Goto, TypeOK
    <3> HIDE DEF StartList
    <3>4. /\ todo' \in Seq(Nodes) /\ IsInjective(todo') /\ InOrder(todo', TRUE)
          /\ todo' # <<>> /\ Left' = Nodes
      BY <1>2, <3>3, StartLists DEF Left
    <3>5. /\ Head(todo') \in Nodes /\ Left' = {Head(todo')} \cup Range(Tail(todo'))
          /\ \A m \in Range(Tail(todo')) : ~Less(m, Head(todo'), TRUE)
      BY <3>4, TailKeeps DEF Left
    <3>6. PICK m \in Members : TRUE
      BY <1>3
    <3>7. Head(todo') \in Members
      <4>1. m = Head(todo') \/ ~Less(m, Head(todo'), TRUE)
        BY <3>4, <3>5, <3>6 DEF Members
      <4>2. Head(todo').role \in Roles
        BY <3>5, NodesAssumption
      <4> QED
        BY <3>5, <3>6, <4>1, <4>2 DEF Less, StopRank, Members, Roles
    <3>8. Turn' \subseteq Members
      BY <3>4, <3>7 DEF Turn
    <3> QED
      BY <2>1, <3>2, <3>3, <3>4, <3>8 DEF Starting
  <2>2. CASE d # Client
    <3>1. d \in Members /\ d \in Nodes /\ d \notin Left
      BY <1>2, <2>2 DEF ToWrite, Written, Left, Members
    <3>2. pc' = "write" /\ todo' = Append(todo, d) /\ fresh' = NewBundle \cup {d}
      BY <2>2 DEF WriteDir, Goto
    <3>3. /\ todo' \in Seq(Nodes) /\ todo' # <<>> /\ Left' = Left \cup {d}
          /\ IsInjective(todo')
      BY <1>2, <3>1, <3>2, AppendKeeps DEF Left
    <3>4. Left' \subseteq fresh'
      BY <1>1, <1>2, <3>2, <3>3 DEF Bundle, NewBundle
    <3> QED
      BY <3>1, <3>2, <3>3, <3>4
  <2> QED
    BY <2>1, <2>2
<1>5. \A m \in Nodes : ~Running(m)
  BY <1>2 DEF MaintInv, Downs
<1>6. /\ stale' = stale /\ UNCHANGED <<ctr, armed, data, helper, quorum, files, known, mem>>
      /\ \A m \in Nodes : ~Running(m)'
  BY <1>5 DEF WriteDir, Members, Servers, Running
<1>7. quorum' \in BOOLEAN /\ (quorum' => CanElect')
  <2>1. ~CanElect
    BY <1>5, NoQuorum DEF Members
  <2> QED
    BY <1>1, <1>6, <2>1 DEF TypeOK
<1>8. TypeOK'
  BY <1>2, <1>4, <1>6, <1>7 DEF MaintInv, NewBundle, PC, Running, TypeOK
<1>9. Control'
  BY <1>2, <1>4 DEF Control
<1>10. Itinerary'
  BY <1>2, <1>4 DEF Itinerary, NoLoop, Replacing, Starting
<1>11. Downs'
  BY <1>6 DEF Downs, Servers
<1>12. Ups'
  BY <1>4 DEF Starting, Ups
<1>13. Layered'
  BY <1>6 DEF Layered, Servers
<1>14. OneHistory'
  BY <1>6 DEF MaintInv, OneHistory
<1>15. Filled'
  BY <1>2, <1>4 DEF Filled, Replacing
<1>16. Bundle'
  BY <1>4 DEF Bundle, Starting
<1>17. Helpers'
  BY <1>2, <1>4 DEF Helpers, Members, Replacing, Servers, Starting
<1>18. Settled'
  BY <1>4 DEF K3s, Settled, Starting
<1>19. NoneOnOldCerts'
  BY <1>6 DEF MaintInv, NoneOnOldCerts
<1> QED
  BY <1>8, <1>9, <1>10, <1>11, <1>12, <1>13, <1>14, <1>15, <1>16, <1>17,
    <1>18, <1>19 DEF MaintInv

(* A server may exit at any time that it has no datastore.                  *)
LEMMA ServerExitsKeeps ==
    ASSUME MaintInv, UNCHANGED listing, torn' \in BOOLEAN,
           faults' \in 0..MaxFaults,
           NEW n \in Servers, ServerExits(n)
    PROVE  MaintInv'
<1>1. TypeOK /\ Control /\ Itinerary
  BY DEF MaintInv
<1>2. UNCHANGED run /\ Left' = Left /\ Turn' = Turn /\ n \in Nodes /\ n \notin Members
  BY DEF ServerExits, run, Left, Turn, Servers, Members
<1>3.  \A m \in Nodes : Running(m)' <=> Running(m) /\ m # n
  BY <1>1 DEF ServerExits, Servers, TypeOK, Running
<1>4. quorum' \in BOOLEAN /\ (quorum' => CanElect')
  <2>1. \A m \in Members : Running(m) => Running(m)'
    BY <1>2, <1>3 DEF Members
  <2>2. CanElect => CanElect'
    BY <1>1, <2>1, QuorumStands DEF ServerExits
  <2> QED
    BY <1>1, <2>2 DEF ServerExits, TypeOK
<1>5. TypeOK'
  BY <1>4 DEF MaintInv, Running, ServerExits, Servers, TypeOK, run
<1>6. Control'
  BY DEF Control, MaintInv, ServerExits, run
<1>7. Itinerary'
  BY DEF Itinerary, Left, MaintInv, NoLoop, Replacing, ServerExits,
    Starting, Turn, run
<1>8. Downs'
  BY DEF Downs, Left, MaintInv, Replacing, Running, ServerExits, Starting,
    Turn, run
<1>9. Ups'
  BY DEF Left, MaintInv, Members, Running, ServerExits, Servers, Starting,
    Ups, run
<1>10. Layered'
  BY DEF Layered, MaintInv, Members, Running, ServerExits, Servers
<1>11. OneHistory'
  BY DEF MaintInv, OneHistory, Running, ServerExits
<1>12. Filled'
  <2>1. \A m \in Members : ctr'[m] = ctr[m] /\ data'[m] = data[m]
    BY <1>1, <1>2 DEF ServerExits, TypeOK, Members
  <2>2. UNCHANGED <<cmd, pc, file>> /\ Turn \subseteq Left
    BY <1>1, <1>2, AtTurn DEF run
  <2>3. /\ Replacing => Left \subseteq Members
        /\ pc = "launch" => Left \subseteq Members
    BY <1>1 DEF Itinerary
  <2> QED
    BY <1>2, <2>1, <2>2, <2>3 DEF MaintInv, Filled, Starting, Replacing
<1>13. Bundle'
  BY DEF Bundle, Left, MaintInv, ServerExits, Starting, run
<1>14. Helpers'
  BY DEF Helpers, Left, MaintInv, Replacing, ServerExits, Starting, Turn, run
<1>15. Settled'
  BY <1>3 DEF Left, MaintInv, Running, ServerExits, Servers, Settled,
    Starting, Turn, run
<1>16. NoneOnOldCerts'
  BY DEF MaintInv, NoneOnOldCerts, ServerExits
<1> QED
  BY <1>5, <1>6, <1>7, <1>8, <1>9, <1>10, <1>11, <1>12, <1>13, <1>14, <1>15,
    <1>16 DEF MaintInv

(* An election needs a majority that can have one.                          *)
LEMMA ElectKeeps ==
    ASSUME MaintInv, UNCHANGED listing, torn' \in BOOLEAN,
           faults' \in 0..MaxFaults, Elect
    PROVE  MaintInv'
<1>1. TypeOK /\ Control /\ Itinerary
  BY DEF MaintInv
<1>2. UNCHANGED <<ctr, armed, data, helper, fresh, stale, files, known, run>>
  BY DEF Elect
<1>3. quorum' = TRUE /\ CanElect'
  <2>1. \A m \in Members : Running(m) => Running(m)'
    BY <1>2 DEF Running
  <2>2. CanElect'
    BY <1>1, <1>2, <2>1, QuorumStands DEF Elect
  <2> QED
    BY <2>2 DEF Elect
<1>4. TypeOK'
  BY <1>2, <1>3 DEF MaintInv, Running, TypeOK, run
<1>5. Control'
  BY <1>2 DEF Control, MaintInv, run
<1>6. Itinerary'
  BY <1>2 DEF Itinerary, Left, MaintInv, NoLoop, Replacing, Starting, Turn,
    run
<1>7. Downs'
  BY <1>2 DEF Downs, Left, MaintInv, Replacing, Running, Starting, Turn, run
<1>8. Ups'
  BY <1>2 DEF Left, MaintInv, Running, Starting, Ups, run
<1>9. Layered'
  BY <1>2 DEF Layered, MaintInv, Running
<1>10. OneHistory'
  BY <1>2 DEF MaintInv, OneHistory
<1>11. Filled'
  BY <1>2 DEF Filled, Left, MaintInv, Replacing, Starting, Turn, run
<1>12. Bundle'
  BY <1>2 DEF Bundle, Left, MaintInv, Starting, run
<1>13. Helpers'
  BY <1>2 DEF Helpers, Left, MaintInv, Replacing, Starting, Turn, run
<1>14. Settled'
  BY <1>2 DEF Left, MaintInv, Running, Settled, Starting, Turn, run
<1>15. NoneOnOldCerts'
  BY <1>2 DEF MaintInv, NoneOnOldCerts
<1> QED
  BY <1>4, <1>5, <1>6, <1>7, <1>8, <1>9, <1>10, <1>11, <1>12, <1>13, <1>14,
    <1>15 DEF MaintInv

(* A helper runs on the volume of a member or of a server.                  *)
LEMMA HelperTurn ==
    ASSUME MaintInv, pc = "runHelper", NEW n \in Turn
    PROVE  n \in Members \cup Servers
<1>1. Starting \/ Replacing
  BY DEF MaintInv, Control, Starting, Replacing
<1>2. n \in Left
  BY AtTurn DEF MaintInv
<1> QED
  BY <1>1, <1>2 DEF MaintInv, Itinerary

(* A step that changes nothing.                                             *)
LEMMA StutterKeeps == ASSUME MaintInv, UNCHANGED vars PROVE MaintInv'
<1>1. UNCHANGED <<listing, ctr, armed, data, helper, fresh, stale, quorum, files, known>>
      /\ UNCHANGED <<torn, cmd, pc, todo, file, mem, faults>>
  BY DEF vars, cluster, run
<1>2. Left' = Left /\ Turn' = Turn /\ \A n \in Nodes : Running(n)' <=> Running(n)
  BY <1>1 DEF Left, Turn, Running
<1>3. CanElect' <=> CanElect
  BY <1>1 DEF CanElect, Quorums, Agree, Running
<1>4. TypeOK'
  BY <1>1, <1>2, <1>3 DEF MaintInv, TypeOK, K3s
<1>5. Control' /\ Itinerary'
  BY <1>1, <1>2 DEF MaintInv, Control, Itinerary, Starting, Replacing, NoLoop
<1>6. Downs' /\ Ups' /\ Layered'
  BY <1>1, <1>2
  DEF MaintInv, Downs, Ups, Layered, Starting, Replacing, Members, Servers
<1>7. OneHistory' /\ Filled' /\ Bundle' /\ NoneOnOldCerts'
  BY <1>1, <1>2
  DEF MaintInv, OneHistory, Filled, Bundle, NoneOnOldCerts, Starting, Replacing
<1>8. Helpers' /\ Settled'
  BY <1>1, <1>2 DEF MaintInv, Helpers, Settled, Starting, Replacing, K3s
<1> QED
  BY <1>4, <1>5, <1>6, <1>7, <1>8 DEF MaintInv

(* A command that ends, however, leaves the cluster as it was, but for the  *)
(* helper, the files, the addresses and, where nothing runs, the bundle.    *)
LEMMA EndingKeeps ==
    ASSUME MaintInv, UNCHANGED listing, torn' \in BOOLEAN,
           faults' \in 0..MaxFaults, End,
           UNCHANGED <<ctr, armed, data, stale, quorum>>,
           helper' \subseteq Members \cup Servers, fresh' \subseteq Dirs,
           files' \subseteq File, known' \subseteq Nodes,
           fresh' = fresh \/ \A m \in Members : ~Running(m)
    PROVE  MaintInv'
<1>1. \A m \in Nodes : Running(m)' <=> Running(m)
  BY DEF Running
<1>2. CanElect => CanElect'
  <2>1. CASE UNCHANGED fresh
    BY <1>1, <2>1, QuorumStands DEF MaintInv, Members
  <2>2. CASE \A m \in Members : ~Running(m)
    BY <2>2, NoQuorum
  <2> QED
    BY <2>1, <2>2
<1>3. quorum' \in BOOLEAN /\ (quorum' => CanElect')
  BY <1>2 DEF MaintInv, TypeOK
<1>4. <<>> \in Seq(Nodes)
  BY EmptySeq
<1>5. TypeOK'
  BY <1>1, <1>3, <1>4 DEF MaintInv, TypeOK, End, PC, File, K3s
<1>6. Layered'
  BY <1>1 DEF MaintInv, Layered, Members, Servers
<1>7. OneHistory' /\ NoneOnOldCerts'
  BY DEF MaintInv, OneHistory, NoneOnOldCerts
<1> QED
  BY <1>5, <1>6, <1>7, EndKeeps

(* The steps of a command at the node its loop is at.                       *)
LEMMA NodeStepKeeps ==
    ASSUME MaintInv, UNCHANGED listing, torn' \in BOOLEAN,
           faults' \in 0..MaxFaults,
           NEW n \in Turn, NodeStep(n)
    PROVE  MaintInv'
<1>1. CASE BadFile(n)
  <2>1. n \in Members \cup Servers
    BY <1>1, HelperTurn DEF BadFile
  <2> QED
    BY <1>1, <2>1, EndingKeeps DEF BadFile, MaintInv, TypeOK
<1> QED
  BY <1>1, StopNodeKeeps, StartNodeKeeps, ArmKeeps, AwaitApiKeeps,
     RemoveMemberKeeps, DeleteVolumeKeeps, CreateVolumeKeeps, RunHelperKeeps,
     RemoveHelperKeeps, LaunchMemberKeeps
  DEF NodeStep

(* Every step of a command keeps the invariant.                              *)
LEMMA WorkKeeps ==
    ASSUME MaintInv, UNCHANGED listing, torn' \in BOOLEAN,
           faults' \in 0..MaxFaults, Work
    PROVE  MaintInv'
<1>1. TypeOK
  BY DEF MaintInv
<1>2. CASE SaveSnapshot
  BY <1>1, <1>2, EndingKeeps DEF SaveSnapshot, TypeOK, File
<1>3. CASE Finish
  BY <1>1, <1>3, EndingKeeps DEF Finish, cluster, TypeOK
<1>4. CASE SaveState
  BY <1>1, <1>4, EndingKeeps DEF SaveState, TypeOK
<1>5. CASE GiveUp
  BY <1>1, <1>5, EndingKeeps DEF GiveUp, cluster, TypeOK
<1> QED
  BY <1>2, <1>3, <1>4, <1>5, NodeStepKeeps, WriteDirKeeps, VerifyMarkerKeeps
  DEF Work

(* So does every fault: a death, at the save or elsewhere, a helper or a    *)
(* torn directory left behind, a server that exits.                         *)
LEMMA FaultKeeps ==
    ASSUME MaintInv, UNCHANGED listing, Fault
    PROVE  MaintInv'
<1>1. TypeOK
  BY DEF MaintInv
<1>2. faults' \in 0..MaxFaults
  BY <1>1, NodesAssumption DEF TypeOK, Fault
<1>3. torn' \in BOOLEAN
  BY <1>1 DEF TypeOK, Fault, DieInSave
<1>4. CASE Die
  BY <1>1, <1>2, <1>3, <1>4, EndingKeeps DEF Die, cluster, TypeOK
<1>5. CASE \E n \in Turn : LeaveHelper(n)
  <2>1. PICK n \in Turn : LeaveHelper(n)
    BY <1>5
  <2>2. n \in Members \cup Servers
    BY <2>1, HelperTurn DEF LeaveHelper
  <2> QED
    BY <1>1, <1>2, <1>3, <2>1, <2>2, EndingKeeps DEF LeaveHelper, TypeOK
<1>6. CASE \E d \in Dirs : TearDir(d)
  <2>1. PICK d \in Dirs : TearDir(d)
    BY <1>6
  <2>2. \A m \in Members : ~Running(m)
    BY <2>1 DEF TearDir, MaintInv, Downs, Members
  <2>3. fresh' \subseteq Dirs
    BY <1>1, <2>1 DEF TearDir, NewBundle, TypeOK
  <2> QED
    BY <1>1, <1>2, <1>3, <2>1, <2>2, <2>3, EndingKeeps DEF TearDir, TypeOK
<1>7. CASE \E n \in Servers : ServerExits(n)
  BY <1>2, <1>3, <1>7, ServerExitsKeeps
<1>8. CASE DieInSave
  BY <1>1, <1>2, <1>3, <1>8, EndingKeeps DEF DieInSave, cluster, TypeOK
<1> QED
  BY <1>4, <1>5, <1>6, <1>7, <1>8 DEF Fault

(* The invariant, at first and ever after.                                  *)
LEMMA MaintInit == ASSUME Init PROVE MaintInv
<1>1. listing \in Listings /\ ctr = [n \in Nodes |-> "running"] /\ todo = <<>>
  BY DEF Init
<1>2. \A n \in Nodes : Running(n)
  BY <1>1 DEF Running
<1>3. <<>> \in Seq(Nodes) /\ IsInjective(<<>>)
  BY EmptySeq DEF IsInjective
<1>4. CanElect
  <2>1. Cardinality(Members) \in Nat \ {0}
    <3>1. IsFiniteSet(Members)
      BY NodesAssumption, FS_Subset DEF Members
    <3> QED
      BY <3>1, NodesAssumption, FS_EmptySet, FS_CardinalityType
  <2>2. Members \in Quorums
    BY <1>2, <2>1 DEF Init, Quorums, Members
  <2>3. Agree(Members)
    BY DEF Init, Agree, Dirs
  <2> QED
    BY <2>2, <2>3 DEF CanElect
<1>5. TypeOK
  <2>1. torn \in BOOLEAN /\ quorum \in BOOLEAN
    BY DEF Init
  <2>2. faults \in 0..MaxFaults
    BY NodesAssumption DEF Init
  <2> QED
    BY <1>2, <1>3, <1>4, <2>1, <2>2 DEF Init, TypeOK, PC, File, Data, K3s, Members
<1>6. Control /\ Itinerary
  BY <1>3 DEF Init, Control, Itinerary, NoLoop, Starting, Replacing
<1>7. Downs /\ Ups /\ Filled /\ Bundle /\ Helpers /\ Settled
  BY DEF Init, Downs, Ups, Filled, Bundle, Helpers, Settled, Starting, Replacing
<1>8. Layered /\ OneHistory /\ NoneOnOldCerts
  BY <1>2 DEF Init, Layered, OneHistory, NoneOnOldCerts, Members, Servers
<1> QED
  BY <1>5, <1>6, <1>7, <1>8 DEF MaintInv

(* Every step keeps it.                                                      *)
LEMMA MaintNext == ASSUME MaintInv, [Next]_vars PROVE MaintInv'
<1>1. faults \in 0..MaxFaults /\ torn \in BOOLEAN
  BY DEF MaintInv, TypeOK
<1>2. CASE BeginAny /\ UNCHANGED <<listing, torn, faults>>
  BY <1>1, <1>2, BeginKeeps
<1>3. CASE Work /\ UNCHANGED <<listing, torn, faults>>
  BY <1>1, <1>3, WorkKeeps
<1>4. CASE Elect /\ UNCHANGED <<listing, torn, faults>>
  BY <1>1, <1>4, ElectKeeps
<1>5. CASE Fault /\ UNCHANGED listing
  BY <1>5, FaultKeeps
<1>6. CASE UNCHANGED vars
  BY <1>6, StutterKeeps
<1> QED
  BY <1>2, <1>3, <1>4, <1>5, <1>6 DEF Next, LoadFails

(* The invariant holds of every reachable state.                            *)
THEOREM MaintInvariant == Spec => []MaintInv
<1>1. Init => MaintInv
  BY MaintInit
<1>2. MaintInv /\ [Next]_vars => MaintInv'
  BY MaintNext
<1> QED
  BY <1>1, <1>2, PTL DEF Spec

-----------------------------------------------------------------------------
(* Every variable keeps to the values the commands give it, and a leader is *)
(* on record only while a majority of members can have one.                 *)
THEOREM MaintTypeCorrect == Spec => []TypeOK
<1>1. MaintInv => TypeOK
  BY DEF MaintInv
<1> QED
  BY <1>1, MaintInvariant, PTL

(* In whatever order state.json lists the nodes and wherever a command has  *)
(* failed: a server runs only beside all members, an agent only beside the  *)
(* load balancer.                                                           *)
THEOREM LayersHold == Spec => []Layered
<1>1. MaintInv => Layered
  BY DEF MaintInv
<1> QED
  BY <1>1, MaintInvariant, PTL

(* Members that run at one time have volumes of one history, however often  *)
(* -restore has failed between two of them.                                 *)
THEOREM DataNeverMixed == Spec => []NoMixedData
<1>1. ASSUME MaintInv PROVE NoMixedData
  BY <1>1 DEF MaintInv, OneHistory, NoMixedData, Running
<1> QED
  BY <1>1, MaintInvariant, PTL

(* No member or server runs that was started before its certificates were   *)
(* last written.                                                            *)
THEOREM CertsNeverStale == Spec => []NoneOnOldCerts
<1>1. MaintInv => NoneOnOldCerts
  BY DEF MaintInv
<1> QED
  BY <1>1, MaintInvariant, PTL

(* A one-shot container runs on a node's volume only while the node is down. *)
THEOREM HelpersAlone == Spec => []HelpersWorkAlone
<1>1. ASSUME MaintInv PROVE HelpersWorkAlone
  <2> SUFFICES ASSUME NEW n \in Turn, pc \in {"runHelper", "removeHelper"}
               PROVE  ~Running(n)
    BY DEF HelpersWorkAlone
  <2>1. n \in Nodes /\ n \in Left
    BY <1>1, AtTurn DEF MaintInv
  <2>2. CASE Replacing
    BY <1>1, <2>1, <2>2 DEF MaintInv, Downs
  <2>3. CASE Starting /\ cmd = "rotateCerts"
    BY <1>1, <2>1, <2>3 DEF MaintInv, Itinerary, Downs
  <2> QED
    BY <1>1, <2>2, <2>3 DEF MaintInv, Control, Starting, Replacing
<1> QED
  BY <1>1, MaintInvariant, PTL

(* After -restore has stopped all, a server runs only when every member     *)
(* does, on the data of a file that was seen to hold the marker.            *)
THEOREM RestoreVerifiedFirst == Spec => []RestoreStartsVerified
<1>1. ASSUME MaintInv PROVE RestoreStartsVerified
  <2> SUFFICES ASSUME cmd = "restore", pc # "stop",
                      NEW s \in Servers, Running(s), NEW m \in Members
               PROVE  Running(m) /\ data[m] = "saved"
    BY DEF RestoreStartsVerified
  <2>1. s \in Nodes /\ s \notin Members /\ m \in Nodes /\ m.role = "datastore"
    BY DEF Servers, Members
  <2>2. pc = "save" \/ Starting
    BY <1>1, <2>1 DEF MaintInv, TypeOK, PC, Control, Downs, Starting, Replacing
  <2>3. data[m] = "saved"
    BY <1>1, <2>2 DEF MaintInv, Filled
  <2>4. Running(m)
    BY <1>1, <2>1, <2>2 DEF MaintInv, Itinerary, Ups
  <2> QED
    BY <2>3, <2>4
<1> QED
  BY <1>1, MaintInvariant, PTL

(* What a rotation or a restore that reports success leaves behind, however *)
(* many commands have failed before it.                                     *)
THEOREM SuccessIsSound == Spec => Success
<1> DEFINE Whole ==
        /\ \A n \in K3s : Running(n) => n \in armed
        /\ \A n \in Nodes : n \notin known' => n.role = "lb"
        /\ cmd = "rotateCerts" => fresh = Dirs /\ helper \cap Servers = {}
        /\ cmd = "restore" => helper \cap Members = {}
                              /\ \A m \in Members : data[m] = file
<1>1. ASSUME MaintInv, [Next]_vars, pc = "save", pc' = "idle", faults' = faults
      PROVE  Whole
  <2>1. todo = <<>> /\ cmd \in {"rotateCerts", "restore"} /\ faults \in Nat
    BY <1>1, NodesAssumption DEF MaintInv, TypeOK, Control, Itinerary, NoLoop
  <2>2. Left = {} /\ Turn = {}
    BY <2>1, EmptyRange, EmptySeq DEF Left, Turn
  <2>3. SaveState
    <3>1. ~Refused
      BY <1>1, <2>2 DEF Refused
    <3>2. ~BeginAny
      BY <2>1 DEF BeginAny, BeginStop, BeginStart, BeginRotateCerts, BeginSnapshot,
                  BeginRestore, Begin
    <3>3. ~Elect /\ ~Fault /\ vars' # vars
      BY <1>1, <2>1 DEF Elect, run, Fault, vars
    <3>4. Work
      BY <1>1, <3>2, <3>3 DEF Next, LoadFails
    <3> QED
      BY <1>1, <2>2, <3>1, <3>4
      DEF Work, WriteDir, VerifyMarker, SaveSnapshot, Finish, GiveUp
  <2>4. known' = mem
    BY <2>3 DEF SaveState
  <2>5. /\ \A n \in K3s : Running(n) => n \in armed
        /\ \A n \in Nodes : n \notin mem => n.role = "lb"
    BY <1>1, <2>1, <2>2 DEF MaintInv, Settled
  <2>6. /\ cmd = "rotateCerts" => fresh = Dirs /\ helper \cap Servers = {}
        /\ cmd = "restore" => helper \cap Members = {}
                              /\ \A m \in Members : data[m] = file
    BY <1>1, <2>2 DEF MaintInv, Bundle, Helpers, Filled
  <2> QED
    BY <2>4, <2>5, <2>6
<1>2. MaintInv /\ [Next]_vars =>
        [pc = "save" /\ pc' = "idle" /\ faults' = faults => Whole]_vars
  BY <1>1
<1> QED
  BY <1>2, MaintInvariant, PTL DEF Spec, Success
=============================================================================
