---------------------------- MODULE MCMergeGroups ----------------------------
(***************************************************************************)
(* The model of MCMerge without the buyer of an order: nothing then makes  *)
(* order depend on party, whose group is the second one, as in version 2   *)
(* of the orders sample model (tests/sample_models), where shiporder is    *)
(* duplicated and refers to reused tables that its parent does not refer   *)
(* to.  Only b's shipment lists parties.                                   *)
(***************************************************************************)
EXTENDS MCMerge

Rel1V2 == {"carrier"}
Child1V2 == [r \in Rel1V2 |-> MCChild1[r]]
FromV2 == [r \in Rel1V2 \union MCRelN |-> MCFrom[r]]
ToV2 == [r \in Rel1V2 \union MCRelN |-> MCTo[r]]
ChildNV2 == [parties |-> (s1 :> <<>>) @@ (s2 :> <<>>) @@ (s3 :> <<p2, p1>>)]
TableKeysV2 == <<order, shipment, party, event>>
-----------------------------------------------------------------------------
(***************************************************************************)
(* "Isolate queries at the minimum scope required to ensure database       *)
(* consistency" (document.py:477-478): whatever the transactions that      *)
(* merge_into_target_tables uses, the rows they have committed reference   *)
(* the rows their records refer to.                                        *)
(***************************************************************************)
CommittedKeysFaithful == \A r \in db : RowFaithful(db, r)
=============================================================================
