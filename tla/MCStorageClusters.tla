------------------------- MODULE MCStorageClusters -------------------------
(* Two StorageClusters: either two internal ones in the operator's         *)
(* namespace, or an internal one there and an external one elsewhere.      *)
EXTENDS StorageClusters, TLC

CONSTANTS c1, c2

(* The name of c1 comes before that of c2.                                 *)
NamesInOrder == [k \in Clusters |-> IF k = c1 THEN 1 ELSE 2]

SharedNamespace == [k \in Clusters |-> "operator"]
OwnNamespaces == [k \in Clusters |-> IF k = c1 THEN "operator" ELSE "extended"]

BothInternal == [k \in Clusters |-> FALSE]
OneExternal == [k \in Clusters |-> k = c2]

DistinctSeconds == [u \in UID |-> u]
SameSecond == [u \in UID |-> 1]
=============================================================================
