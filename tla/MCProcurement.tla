--------------------------- MODULE MCProcurement ---------------------------
(* Instances of Procurement for TLC; the tabs of a user are alike.         *)
EXTENDS Procurement, TLC

(* A group of two serialised units. *)
GroupParent == [r \in Requests |-> IF r = 1 THEN 0 ELSE 1]

GroupQty == [r \in Requests |-> IF r = 1 THEN 2 ELSE 1]

(* Single requests: request 1 is serialised, request 2 is for two items. *)
SingleParent == [r \in Requests |-> 0]

SingleQty == [r \in Requests |-> r]

TabSymmetry == Permutations(Tabs)
=============================================================================
