------------------------------- MODULE MCMerge -------------------------------
(***************************************************************************)
(* A small model: orders hold shipments, which are duplicated, and name a  *)
(* buyer; a shipment names a carrier, lists parties and has duplicated     *)
(* events.  Loader a loads the order o1; b loads o2 and o1 accumulated in  *)
(* one flat data, so that the shipments of o1 have other temp_pks there:   *)
(* s1 has in b the temp_pk that s2 has in a.                               *)
(***************************************************************************)
EXTENDS Merge, TLC

CONSTANTS a, b, o1, o2, s1, s2, s3, e1, p1, p2

order == 1
shipment == 2
event == 3
party == 4

MCTable == {order, shipment, event, party}
MCReused == {order, party}
MCTableParent == (shipment :> order) @@ (event :> shipment)
MCRel1 == {"buyer", "carrier"}
MCRelN == {"parties"}
MCFrom == [buyer |-> order, carrier |-> shipment, parties |-> shipment]
MCTo == [r \in MCRel1 \union MCRelN |-> party]

MCNode == {o1, o2, s1, s2, s3, e1, p1, p2}
MCTb == [n \in MCNode |-> CASE n \in {o1, o2} -> order
                            [] n \in {s1, s2, s3} -> shipment
                            [] n = e1 -> event
                            [] n \in {p1, p2} -> party]
MCNodeParent == (s1 :> o1) @@ (s2 :> o1) @@ (s3 :> o2) @@ (e1 :> s2)
MCChild1 == [buyer |-> (o1 :> p1) @@ (o2 :> NoNode),
             carrier |-> (s1 :> p1) @@ (s2 :> NoNode) @@ (s3 :> p2)]
MCChildN == [parties |-> (s1 :> <<p1, p1>>) @@ (s2 :> <<>>) @@ (s3 :> <<p2, p1>>)]

Order1 == {o1, s1, s2, e1, p1}
Order2 == {o2, s3, p1, p2}
MCLoader == {a, b}
MCDoc == (a :> Order1) @@ (b :> Order1 \union Order2)
PkA == (o1 :> 1) @@ (s1 :> 1) @@ (s2 :> 2) @@ (e1 :> 1) @@ (p1 :> 1)
       @@ (o2 :> 0) @@ (s3 :> 0) @@ (p2 :> 0)
PkB == (o2 :> 1) @@ (o1 :> 2) @@ (s3 :> 1) @@ (s1 :> 2) @@ (s2 :> 3) @@ (e1 :> 1)
       @@ (p2 :> 1) @@ (p1 :> 2)
SameFile == [l \in MCLoader |-> Order1]
SamePk == [l \in MCLoader |-> PkA]
MCTempPk == (a :> PkA) @@ (b :> PkB)

(***************************************************************************)
(* The plan is then <<party, order, shipment, event>>, in two groups:      *)
(* <<party>> and <<order, shipment, event>>.                               *)
(***************************************************************************)
MCTableKeys == <<order, party, shipment, event>>
=============================================================================
