------------------------------ MODULE TableOrder ------------------------------
(***************************************************************************)
(* DataModel._build_model after simplification: the dependencies of the    *)
(* tables, the order in which they are created and merged (Python's        *)
(* graphlib), and the transaction groups.                                  *)
(*                                                                         *)
(* A schema is a record: tables, the keys of DataModel.tables in the       *)
(* dict's order; reused, a set of tables; fields, the relation fields as a *)
(* set of records with the table and the other table.  Tables are numbers  *)
(* from 1, whose order is that of the type names, which graphlib's input   *)
(* is sorted by.                                                           *)
(***************************************************************************)
EXTENDS Integers, Sequences, FiniteSetsExt

TableSet(sch) == Range(sch.tables)
FieldsTo(sch, t) == {f \in sch.fields : f.other = t}
FieldsOf(sch, t) == {f \in sch.fields : f.table = t}
IsDuplicated(sch, t) == t \notin sch.reused

IsSchema(sch) ==
  /\ sch.tables \in Seq(Nat \ {0})
  /\ IsInjective(sch.tables)
  /\ IsFiniteSet(sch.fields)
  /\ \A f \in sch.fields : f.table \in TableSet(sch) /\ f.other \in Nat \ {0}

(***************************************************************************)
(* compute_dependencies over all the tables.  It raises for a duplicated   *)
(* table that is the target of two fields, or that hangs from no table     *)
(* (its parent's group is then looked up on None).                         *)
(***************************************************************************)
Rejected(sch) ==
  \E t \in TableSet(sch) : IsDuplicated(sch, t) /\ Cardinality(FieldsTo(sch, t)) # 1

Dangling(sch) == \E f \in sch.fields : f.other \notin TableSet(sch)

ParentOf(sch, t) == (CHOOSE f \in FieldsTo(sch, t) : TRUE).table

DependenciesOnFields(sch, t) ==
  {f.other : f \in FieldsOf(sch, t)}
    \union (IF IsDuplicated(sch, t) THEN {ParentOf(sch, t)} ELSE {})
DependenciesOnReused(sch, t) ==
  {f.other : f \in {g \in FieldsOf(sch, t) : g.other \in sch.reused}}
Dependencies(sch, t) ==
  {f.other : f \in {g \in FieldsOf(sch, t) : g.other \in sch.reused}}
    \union (IF IsDuplicated(sch, t) THEN {ParentOf(sch, t)} ELSE {})

(***************************************************************************)
(* No tables depend on each other in a circle: any of them has one that    *)
(* depends on none of the others.                                          *)
(***************************************************************************)
Acyclic(sch) ==
  \A S \in (SUBSET TableSet(sch)) \ {{}} : \E t \in S : Dependencies(sch, t) \intersect S = {}

(***************************************************************************)
(* The elements of a finite set in the order of their keys, distinct pairs *)
(* of numbers.                                                             *)
(***************************************************************************)
Sooner(p, q) == p[1] < q[1] \/ (p[1] = q[1] /\ p[2] < q[2])
InOrderOf(key) ==
  LET Rank(x) == Cardinality({y \in DOMAIN key : Sooner(key[y], key[x])})
  IN [i \in 1..Cardinality(DOMAIN key) |-> CHOOSE x \in DOMAIN key : Rank(x) = i - 1]

(***************************************************************************)
(* graphlib.TopologicalSorter: nodes are known in the order in which they  *)
(* are first met, a table and then its sorted dependencies.  static_order  *)
(* yields the ready nodes together, then marks them done one by one; a     *)
(* table becomes ready when its last dependency is done, and the tables    *)
(* that become ready with one node do so in their own order.               *)
(***************************************************************************)
Known(sch) == TableSet(sch) \union UNION {Dependencies(sch, t) : t \in TableSet(sch)}

MetKey(sch, x) ==
  LET i == Min({j \in DOMAIN sch.tables : x \in {sch.tables[j]} \union Dependencies(sch, sch.tables[j])})
  IN <<i, IF x = sch.tables[i] THEN 0 ELSE x>>
FirstReady(sch) == InOrderOf([x \in {y \in Known(sch) : Dependencies(sch, y) = {}} |-> MetKey(sch, x)])

Released(sch, order, ready) ==
  {t \in TableSet(sch) : /\ Dependencies(sch, t) \subseteq Range(order) \union Range(ready)
                         /\ Dependencies(sch, t) \intersect Range(ready) # {}}
DoneKey(sch, ready, t) ==
  <<Max({i \in DOMAIN ready : ready[i] \in Dependencies(sch, t)}),
    CHOOSE i \in DOMAIN sch.tables : sch.tables[i] = t>>
Yield(sch, state) ==
  [order |-> state.order \o state.ready,
   ready |-> InOrderOf([t \in Released(sch, state.order, state.ready) |-> DoneKey(sch, state.ready, t)])]

Rounds(sch) ==
  LET rounds[k \in 0..Cardinality(Known(sch))] ==
        IF k = 0 THEN [order |-> <<>>, ready |-> FirstReady(sch)] ELSE Yield(sch, rounds[k - 1])
  IN rounds
StaticOrder(sch) == Rounds(sch)[Cardinality(Known(sch))].order

(***************************************************************************)
(* transaction_groups: a reused table opens a group, a duplicated one goes *)
(* to the group of its parent.                                             *)
(***************************************************************************)
InLastGroup(sch, groups, t) ==
  IF t \in sch.reused THEN Append(groups, <<t>>)
  ELSE [groups EXCEPT ![Len(groups)] = Append(@, t)]
Assigned(sch, groups, t) ==
  IF t \in sch.reused THEN Append(groups, <<t>>)
  ELSE [i \in DOMAIN groups |-> IF ParentOf(sch, t) \in Range(groups[i]) THEN Append(groups[i], t)
                                ELSE groups[i]]

Grouped(sch, order) ==
  LET grouped[i \in 0..Len(order)] ==
        IF i = 0 THEN <<>> ELSE Assigned(sch, grouped[i - 1], order[i])
  IN grouped
TransactionGroupsOf(sch) == Grouped(sch, StaticOrder(sch))[Len(StaticOrder(sch))]

-----------------------------------------------------------------------------
(***************************************************************************)
(* What the order is for.  A plan of the merge is a sequence of            *)
(* transactions, a transaction a sequence of tables.                       *)
(***************************************************************************)
Earlier(plan, t, u) ==
  \E g, h \in DOMAIN plan : \E p \in DOMAIN plan[g], q \in DOMAIN plan[h] :
    plan[g][p] = t /\ plan[h][q] = u /\ (g < h \/ (g = h /\ p < q))
Together(plan, t, u) ==
  \E g \in DOMAIN plan : \E p, q \in DOMAIN plan[g] : plan[g][p] = t /\ plan[g][q] = u

(***************************************************************************)
(* Every table once.  A duplicated table in its parent's transaction,      *)
(* after it.  What the statements of some tables read, before.  The reused *)
(* other table of a relation is read by the table that has the relation.   *)
(* A duplicated table is the other one of a single relation, the 1-n       *)
(* relation from its parent, and there it is the duplicated table that     *)
(* reads its parent.                                                       *)
(***************************************************************************)
EachOnce(tables, plan) ==
  /\ \A g \in DOMAIN plan : plan[g] # <<>> /\ Range(plan[g]) \subseteq tables
  /\ \A t \in tables : Together(plan, t, t) /\ ~Earlier(plan, t, t)
SubtreesTogether(sch, plan) ==
  \A t \in TableSet(sch) \ sch.reused : Earlier(plan, ParentOf(sch, t), t) /\ Together(plan, ParentOf(sch, t), t)
ReadBefore(sch, plan, tables) ==
  \A f \in sch.fields : f.table \in tables =>
    IF f.other \in sch.reused THEN Earlier(plan, f.other, f.table) ELSE Earlier(plan, f.table, f.other)
=============================================================================
