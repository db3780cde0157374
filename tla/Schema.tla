------------------------------- MODULE Schema -------------------------------
(***************************************************************************)
(* The relational data model xml2db derives from an XSD, and the records   *)
(* of documents flattened into it.  Shared by every module that loads,     *)
(* stores or reads records.                                                *)
(*                                                                         *)
(* A table is reused (rows deduplicated by record hash) or duplicated      *)
(* (every row belongs to one row of its parent table).  Rel1 are the n-1   *)
(* relations, a foreign key column in the referencing table.  RelN are the *)
(* relations kept in a join table, which exist only towards a reused       *)
(* table; a 1-n relation towards a duplicated table is the table's parent. *)
(*                                                                         *)
(* A Node is the content of one record with everything below it, which is  *)
(* what the record hash stands for: two documents that hold a node hold    *)
(* the same children.  A duplicated node is a child of one node, at one    *)
(* place.                                                                  *)
(***************************************************************************)
EXTENDS Naturals, Sequences, FiniteSets

CONSTANTS
  Table,      \* the tables of the data model
  Reused,     \* the tables with is_reused
  TableParent,\* duplicated table -> table.parent
  Rel1,       \* n-1 relations
  RelN,       \* relations stored in a join table
  From, To,   \* relation -> rel.table, rel.other_table
  Node,       \* record contents
  Tb,         \* node -> its table
  NodeParent, \* duplicated node -> the node that holds it
  Child1,     \* n-1 relation -> node of From -> child node, or NoNode
  ChildN,     \* join relation -> node of From -> sequence of child nodes
  NoNode      \* the n-1 element is absent

Duplicated == Table \ Reused
NodesOf(t) == {n \in Node : Tb[n] = t}
ReusedNode == {n \in Node : Tb[n] \in Reused}
DuplicatedNode == Node \ ReusedNode

ASSUME TablesAssumption ==
  /\ Reused \subseteq Table
  /\ TableParent \in [Duplicated -> Table]
  /\ From \in [Rel1 \union RelN -> Table]
  /\ To \in [Rel1 \union RelN -> Table]
  /\ \A r \in Rel1 \union RelN : To[r] \in Reused

ASSUME NodesAssumption ==
  /\ IsFiniteSet(Node)
  /\ NoNode \notin Node
  /\ Tb \in [Node -> Table]
  /\ NodeParent \in [DuplicatedNode -> Node]
  /\ \A n \in DuplicatedNode : Tb[NodeParent[n]] = TableParent[Tb[n]]

ASSUME ChildrenAssumption ==
  /\ \A r \in Rel1 : Child1[r] \in [NodesOf(From[r]) -> NodesOf(To[r]) \union {NoNode}]
  /\ \A r \in RelN : ChildN[r] \in [NodesOf(From[r]) -> Seq(NodesOf(To[r]))]

(***************************************************************************)
(* One slot per row of the staging join tables: the i-th child of n in r.  *)
(***************************************************************************)
SlotsOf(r, n) == {[rel |-> r, node |-> n, num |-> i] : i \in 1..Len(ChildN[r][n])}
Slot == UNION {UNION {SlotsOf(r, n) : n \in NodesOf(From[r])} : r \in RelN}
SlotChild(s) == ChildN[s.rel][s.node][s.num]

(***************************************************************************)
(* A set of records is closed when it holds every record its records refer *)
(* to, as the flat data of a document does.                                *)
(***************************************************************************)
Closed(S) ==
  /\ \A n \in S \ ReusedNode : NodeParent[n] \in S
  /\ \A r \in Rel1 : \A n \in S : Tb[n] = From[r] => Child1[r][n] \in S \union {NoNode}
  /\ \A s \in Slot : s.node \in S => SlotChild(s) \in S
  /\ \A n \in DuplicatedNode : NodeParent[n] \in S => n \in S

(***************************************************************************)
(* compute_dependencies: a table is referenced as a foreign key when a     *)
(* duplicated table hangs from it, or a join table links it.               *)
(***************************************************************************)
ReferencedAsFk(t) ==
  \/ t \in {TableParent[d] : d \in Duplicated}
  \/ \E r \in Rel1 : To[r] = t
  \/ \E r \in RelN : t \in {From[r], To[r]}
=============================================================================
