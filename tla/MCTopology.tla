------------------------------- MODULE MCTopology -------------------------------
(* Topology with one to four nodes: in no zone, in two or three zones, by  *)
(* the new label or its ancestors, with or without racks of the user's;    *)
(* and with a StorageCluster of each kind.                                 *)
EXTENDS Topology

const_RackNames == <<"rack0", "rack1", "rack2", "rack3", "rack4", "row">>

NoZone == [zone |-> "", zoneKeys |-> {}, rack |-> NoRack]
InZone(z) == [zone |-> z, zoneKeys |-> {"stable"}, rack |-> NoRack]
Legacy(z) == [zone |-> z, zoneKeys |-> {"beta", "old"}, rack |-> NoRack]
InRow(labels) == [labels EXCEPT !.rack = 6]

const_Labellings ==
  {NoZone, InZone("c"), Legacy("c"), InRow(InZone("a"))}

Fleet(a, b, c, d) ==
  [n \in Nodes |-> CASE n = "n1" -> a [] n = "n2" -> b
                     [] n = "n3" -> c [] n = "n4" -> d]

Default ==
  [arbiter |-> FALSE, flexible |-> FALSE, single |-> FALSE, replicas |-> {3}]
Arbiter == [Default EXCEPT !.arbiter = TRUE, !.replicas = {4}]
Flexible == [Default EXCEPT !.flexible = TRUE]
SingleNode == [Default EXCEPT !.single = TRUE, !.replicas = {1}]

const_Starts ==
  {[cluster |-> Default,
    nodes |-> Fleet(NoZone, NoZone, NoZone, Absent)],
   [cluster |-> Default,
    nodes |-> Fleet(InZone("a"), InZone("b"), InZone("b"), Absent)],
   [cluster |-> Default,
    nodes |-> Fleet(InRow(InZone("a")), InZone("a"), InZone("b"), Absent)],
   [cluster |-> Default,
    nodes |-> Fleet(Legacy("a"), Legacy("b"), Legacy("c"), Absent)],
   [cluster |-> Arbiter,
    nodes |-> Fleet(InZone("a"), InZone("a"), InZone("b"), InZone("b"))],
   [cluster |-> Flexible,
    nodes |-> Fleet(InZone("a"), InZone("b"), NoZone, Absent)],
   [cluster |-> SingleNode,
    nodes |-> Fleet(NoZone, Absent, Absent, Absent)]}
=============================================================================
