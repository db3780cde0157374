----------------------------- MODULE MergeProofs -----------------------------
(***************************************************************************)
(* Theorems about Merge, for any data model, documents and loaders: the    *)
(* plan of the merge; types and the callers' lock; and how far a merging   *)
(* loader has come with each table, as the proofs about the data of Merge  *)
(* need it.                                                                *)
(***************************************************************************)
EXTENDS Merge, OrderProofs

(***************************************************************************)
(* The data model is one that is built, and its plan what OrderProofs      *)
(* shows of every order: all the tables, once; a duplicated table behind   *)
(* its parent, in its transaction; and in the order what a table reads.    *)
(***************************************************************************)
LEMMA DataModelFields ==
  \A f \in DataModel.fields :
    /\ f.table \in Table /\ f.other \in Table
    /\ f.other \notin Reused => f = [table |-> TableParent[f.other], other |-> f.other]
<1> SUFFICES ASSUME NEW f \in DataModel.fields
             PROVE  /\ f.table \in Table /\ f.other \in Table
                    /\ f.other \notin Reused => f = [table |-> TableParent[f.other], other |-> f.other]
  OBVIOUS
<1>1. CASE \E r \in Rel1 \union RelN : f = [table |-> From[r], other |-> To[r]]
  <2>1. PICK r \in Rel1 \union RelN : f = [table |-> From[r], other |-> To[r]]
    BY <1>1
  <2> QED
    BY <2>1, TablesAssumption
<1>2. CASE \E t \in Duplicated : f = [table |-> TableParent[t], other |-> t]
  <2>1. PICK t \in Duplicated : f = [table |-> TableParent[t], other |-> t]
    BY <1>2
  <2> QED
    BY <2>1, TablesAssumption DEF Duplicated
<1> QED
  BY <1>1, <1>2 DEF DataModel

LEMMA DataModelBuilt ==
  /\ IsSchema(DataModel) /\ ~Rejected(DataModel) /\ ~Dangling(DataModel) /\ Acyclic(DataModel)
  /\ TableSet(DataModel) = Table /\ Table # {} /\ DataModel.reused = Reused
  /\ \A t \in Duplicated : ParentOf(DataModel, t) = TableParent[t]
<1>1. TableSet(DataModel) = Table /\ DataModel.tables = TableKeys /\ DataModel.reused = Reused
  BY ModelAssumption DEF DataModel, TableSet
<1>2. Table # {} /\ Table \subseteq Nat \ {0} /\ IsFiniteSet(Table)
  <2>1. Len(TableKeys) \in Nat /\ DOMAIN TableKeys = 1..Len(TableKeys) /\ Len(TableKeys) # 0
    BY ModelAssumption
  <2>2. 1 \in Int /\ Len(TableKeys) \in Int /\ 1 \in DOMAIN TableKeys
    BY <2>1
  <2>3. IsFiniteSet(1..Len(TableKeys))
    BY <2>2, FS_Interval
  <2>4. TableKeys \in Surjection(1..Len(TableKeys), Table)
    BY <2>1, ModelAssumption DEF Surjection, Range
  <2>5. IsFiniteSet(Table)
    BY <2>3, <2>4, FS_Surjection
  <2>6. Table \subseteq Nat \ {0}
    BY <2>1, ModelAssumption DEF Range
  <2> QED
    BY <2>2, <2>5, <2>6, ModelAssumption DEF Range
<1>3. IsFiniteSet(DataModel.fields)
  <2> DEFINE Pairs == {p \in Table \X Table : [table |-> p[1], other |-> p[2]] \in DataModel.fields}
             field == [p \in Pairs |-> [table |-> p[1], other |-> p[2]]]
  <2>1. IsFiniteSet(Pairs)
    <3>1. IsFiniteSet(Table \X Table)
      BY <1>2, FS_Product
    <3> QED
      BY <3>1, FS_Subset
  <2>2. ASSUME NEW f \in DataModel.fields PROVE \E p \in Pairs : field[p] = f
    <3>1. f.table \in Table /\ f.other \in Table
      BY DataModelFields
    <3>2. f = [table |-> f.table, other |-> f.other]
      BY DEF DataModel
    <3>3. <<f.table, f.other>> \in Pairs
      BY <3>1, <3>2
    <3> QED
      BY <3>2, <3>3
  <2>3. field \in Surjection(Pairs, DataModel.fields)
    <3>1. \A p \in Pairs : field[p] \in DataModel.fields
      OBVIOUS
    <3>2. field = [p \in Pairs |-> field[p]]
      OBVIOUS
    <3> HIDE DEF field, Pairs
    <3>3. field \in [Pairs -> DataModel.fields]
      BY <3>1, <3>2
    <3> QED
      BY <2>2, <3>3 DEF Surjection
  <2> HIDE DEF field, Pairs
  <2> QED
    BY <2>1, <2>3, FS_Surjection
<1>4. IsSchema(DataModel)
  BY <1>1, <1>2, <1>3, DataModelFields, ModelAssumption DEF IsSchema
<1>5. ASSUME NEW t \in Duplicated PROVE FieldsTo(DataModel, t) = {[table |-> TableParent[t], other |-> t]}
  <2>1. [table |-> TableParent[t], other |-> t] \in DataModel.fields
    BY DEF DataModel
  <2>2. \A f \in DataModel.fields : f.other = t => f = [table |-> TableParent[t], other |-> t]
    BY DataModelFields DEF Duplicated
  <2> QED
    BY <2>1, <2>2 DEF FieldsTo
<1>6. ~Rejected(DataModel)
  <2> SUFFICES ASSUME NEW t \in Duplicated PROVE Cardinality(FieldsTo(DataModel, t)) = 1
    BY <1>1 DEF Rejected, IsDuplicated, Duplicated
  <2>1. \A x : Cardinality({x}) = 1
    BY FS_Singleton
  <2> QED
    BY <1>5, <2>1
<1>7. ASSUME NEW t \in Duplicated PROVE ParentOf(DataModel, t) = TableParent[t]
  <2> DEFINE f == [table |-> TableParent[t], other |-> t]
  <2>1. f.table = TableParent[t]
    OBVIOUS
  <2>2. FieldsTo(DataModel, t) = {f}
    BY <1>5
  <2> HIDE DEF f
  <2>3. (CHOOSE g \in FieldsTo(DataModel, t) : TRUE) = f
    BY <2>2
  <2> QED
    BY <2>1, <2>3 DEF ParentOf
<1>8. ~Dangling(DataModel)
  BY <1>1, DataModelFields DEF Dangling
<1> QED
  BY <1>1, <1>2, <1>4, <1>6, <1>7, <1>8, ModelAssumption

LEMMA PlanTyped ==
  /\ OrderedTables \in Seq(Table) \ {<<>>}
  /\ TransactionGroups \in Seq(Seq(Table) \ {<<>>}) \ {<<>>}
<1>1. OrderedTables \in Seq(Table) /\ Range(OrderedTables) = Table /\ Table # {}
  BY DataModelBuilt, AllOrdered DEF OrderedTables
<1>2. OrderedTables # <<>>
  BY <1>1 DEF Range
<1>3. TransactionGroups \in Seq(Seq(Table) \ {<<>>}) /\ EachOnce(Table, TransactionGroups)
  BY DataModelBuilt, GroupsKeepOrder DEF TransactionGroups
<1>4. TransactionGroups # <<>>
  BY <1>1, <1>3 DEF EachOnce, Together
<1> QED
  BY <1>1, <1>2, <1>3, <1>4

ParentsFirst(plan) ==
  \A t \in Duplicated : Earlier(plan, TableParent[t], t) /\ Together(plan, TableParent[t], t)

LEMMA PlanOrdered ==
  /\ \A plan \in {<<OrderedTables>>, TransactionGroups} : EachOnce(Table, plan) /\ ParentsFirst(plan)
  /\ \A r \in Rel1 \union RelN : Earlier(<<OrderedTables>>, To[r], From[r])
  /\ \A r \in Rel1 \union RelN : From[r] \in Reused => Earlier(TransactionGroups, To[r], From[r])
<1>1. /\ EachOnce(Table, <<OrderedTables>>) /\ SubtreesTogether(DataModel, <<OrderedTables>>)
      /\ ReadBefore(DataModel, <<OrderedTables>>, Table)
  BY DataModelBuilt, OrderReadsFirst DEF OrderedTables
<1>2. /\ EachOnce(Table, TransactionGroups) /\ SubtreesTogether(DataModel, TransactionGroups)
      /\ ReadBefore(DataModel, TransactionGroups, Reused)
  BY DataModelBuilt, GroupsKeepOrder DEF TransactionGroups
<1>3. \A plan : SubtreesTogether(DataModel, plan) => ParentsFirst(plan)
  BY DataModelBuilt DEF SubtreesTogether, ParentsFirst, Duplicated
<1>4. ASSUME NEW r \in Rel1 \union RelN
      PROVE  /\ Earlier(<<OrderedTables>>, To[r], From[r])
             /\ From[r] \in Reused => Earlier(TransactionGroups, To[r], From[r])
  <2> DEFINE f == [table |-> From[r], other |-> To[r]]
  <2>1. f \in DataModel.fields /\ f.table \in Table /\ f.other \in DataModel.reused
    BY TablesAssumption, DataModelBuilt DEF DataModel
  <2> QED
    BY <1>1, <1>2, <2>1, DataModelBuilt DEF ReadBefore
<1> QED
  BY <1>1, <1>2, <1>3, <1>4

-----------------------------------------------------------------------------

(***************************************************************************)
(* A staged row is a record of the data model.                             *)
(***************************************************************************)
LEMMA StagedAreNodes ==
  ASSUME NEW l \in Loader
  PROVE  /\ Doc[l] \subseteq Node /\ Staged(l) \subseteq Node /\ Fresh(l) \subseteq Staged(l)
         /\ IsFiniteSet(Staged(l)) /\ IsFiniteSet(Fresh(l))
         /\ Cardinality(Staged(l)) \in Nat /\ Cardinality(Fresh(l)) \in Nat
         /\ Cardinality(Fresh(l)) <= Cardinality(Staged(l))
<1>1. /\ Doc[l] \subseteq Node /\ Staged(l) \subseteq Node /\ Fresh(l) \subseteq Staged(l)
  BY LoadersAssumption DEF Staged, Fresh
<1>2. IsFiniteSet(Staged(l))
  BY <1>1, NodesAssumption, FS_Subset
<1>3. IsFiniteSet(Fresh(l)) /\ Cardinality(Fresh(l)) <= Cardinality(Staged(l))
  BY <1>1, <1>2, FS_Subset
<1> QED
  BY <1>1, <1>2, <1>3, FS_CardinalityType

(***************************************************************************)
(* A transaction is a sequence of tables, and has one.                     *)
(***************************************************************************)
LEMMA TransactionsTyped ==
  ASSUME single \in SingleChoices
  PROVE  Transactions \in Seq(Seq(Table) \ {<<>>}) \ {<<>>}
BY PlanTyped DEF Transactions

LEMMA PlacedTable ==
  ASSUME single \in SingleChoices, NEW l \in Loader, Placed(l)
  PROVE  MergedTable(l) \in Table
BY TransactionsTyped DEF Placed, MergedTable

LEMMA NewRowTyped ==
  ASSUME TypeOK, NEW l \in Loader, NEW n \in Node, NEW key \in Nat
  PROVE  NewRow(l, n, key) \in Row
BY LoadersAssumption DEF TypeOK, NewRow, Row, Key, NoPk

LEMMA SlotTyped ==
  ASSUME NEW s \in Slot
  PROVE  /\ s.rel \in RelN /\ s.node \in Node /\ s.num \in Nat
         /\ Tb[s.node] = From[s.rel] /\ SlotChild(s) \in Node
<1> PICK r \in RelN : s \in UNION {SlotsOf(r, n) : n \in NodesOf(From[r])}
  BY DEF Slot
<1>1. PICK n \in NodesOf(From[r]) : s \in SlotsOf(r, n)
  OBVIOUS
<1>2. PICK i \in 1..Len(ChildN[r][n]) : s = [rel |-> r, node |-> n, num |-> i]
  BY <1>1 DEF SlotsOf
<1>3. ChildN[r][n] \in Seq(NodesOf(To[r]))
  BY <1>1, ChildrenAssumption
<1>4. Len(ChildN[r][n]) \in Nat /\ i \in Nat /\ ChildN[r][n][i] \in NodesOf(To[r])
  BY <1>2, <1>3
<1> QED
  BY <1>1, <1>2, <1>4 DEF NodesOf, SlotChild

LEMMA JoinRowTyped ==
  ASSUME TypeOK, NEW l \in Loader, NEW s \in Slot
  PROVE  JoinRow(l, s) \in Join
BY SlotTyped DEF TypeOK, JoinRow, Join, Key

LEMMA ClearTempTyped ==
  ASSUME TypeOK, NEW S \in SUBSET Loader, ClearTemp(S)
  PROVE  /\ pk' \in [Loader -> [Node -> Key]]
         /\ exists' \in [Loader -> [Node -> BOOLEAN]]
         /\ fkParent' \in [Loader -> [Node -> Key]]
         /\ fk' \in [Loader -> [Rel1 -> [Node -> Key]]]
<1>1. NoKeys \in [Node -> Key]
  BY DEF NoKeys, NoPk, Key
<1> QED
  BY <1>1 DEF TypeOK, ClearTemp

(***************************************************************************)
(* Rollback and the lock keep the types.                                   *)
(***************************************************************************)
LEMMA AbortTyped ==
  ASSUME TypeOK, NEW l \in Loader, NEW why \in {"conflict", "notnull", "error"},
         Abort(l, why), faults' \in Nat, AllPlaced'
  PROVE  TypeOK'
BY DEF TypeOK, Abort, LeaveMerge, Release, Phase, StatementPhase, callVars, tempVars

LEMMA InitTyped == Init => TypeOK
BY LoadersAssumption, CallersAssumption
DEF Init, TypeOK, AllPlaced, Merging, Phase, StatementPhase, NoPk, Key

(***************************************************************************)
(* The callers' choices last, and with them the transactions.              *)
(***************************************************************************)
LEMMA CallsFixed == [Next]_vars => discipline' = discipline /\ single' = single
BY DEF Next, LoaderStep, vars, callVars, InsertIntoTempTables, MergeIntoTargetTables, MarkExisting,
       InheritParent, ResolveForeignKeys, InsertNew, InsertConflict, WriteBackKeys, InsertJoinRows,
       JoinNotNull, Commit, DropTempTables, LoadAgain, StatementFails, Abort, Kill, Finished

(***************************************************************************)
(* A loader that merges is at a table of one of its transactions.          *)
(***************************************************************************)
LEMMA PlacedStep == TypeOK /\ [Next]_vars => AllPlaced'
<1> SUFFICES ASSUME TypeOK, [Next]_vars PROVE AllPlaced'
  OBVIOUS
<1>1. Transactions' = Transactions /\ Transactions \in Seq(Seq(Table) \ {<<>>}) \ {<<>>}
  BY CallsFixed, TransactionsTyped DEF Transactions, TypeOK
<1> DEFINE Kept(l) == phase'[l] \in StatementPhase => /\ phase[l] \in StatementPhase
                                                      /\ grp'[l] = grp[l] /\ pos'[l] = pos[l]
<1>2. ASSUME NEW l \in Loader, Kept(l) PROVE Merging(l)' => Placed(l)'
  BY <1>1, <1>2 DEF TypeOK, AllPlaced, Merging, Placed
<1>3. ASSUME NEW l \in Loader, MergeIntoTargetTables(l) PROVE AllPlaced'
  <2>1. \A m \in Loader \ {l} : Kept(m)
    BY <1>3 DEF MergeIntoTargetTables, TypeOK
  <2>2. Placed(l)'
    BY <1>1, <1>3 DEF MergeIntoTargetTables, TypeOK, Placed
  <2> QED
    BY <1>2, <2>1, <2>2 DEF AllPlaced
<1>4. ASSUME NEW l \in Loader, InsertJoinRows(l) PROVE AllPlaced'
  <2>1. \A m \in Loader \ {l} : Kept(m)
    BY <1>4 DEF InsertJoinRows, TypeOK
  <2>2. Placed(l)
    BY <1>4 DEF InsertJoinRows, TypeOK, AllPlaced, Merging, StatementPhase
  <2>3. /\ Transactions[grp[l]] \in Seq(Table) /\ Len(Transactions[grp[l]]) \in Nat
        /\ pos[l] \in 1..Len(Transactions[grp[l]])
    BY <1>1, <2>2 DEF Placed
  <2>4. grp'[l] = grp[l] /\ pos'[l] \in 1..Len(Transactions[grp[l]])
    BY <1>4, <2>3 DEF InsertJoinRows, LastTable, TypeOK
  <2> QED
    BY <1>1, <1>2, <2>1, <2>2, <2>3, <2>4 DEF AllPlaced, Placed
<1>5. ASSUME NEW l \in Loader, Commit(l) PROVE AllPlaced'
  <2>1. \A m \in Loader \ {l} : Kept(m)
    BY <1>5 DEF Commit, TypeOK
  <2>2. CASE grp[l] < Len(Transactions)
    <3>1. grp'[l] = grp[l] + 1 /\ pos'[l] = 1
      BY <1>5, <2>2 DEF Commit, TypeOK
    <3>2. Placed(l)
      BY <1>5 DEF Commit, TypeOK, AllPlaced, Merging, StatementPhase
    <3>3. Placed(l)'
      BY <1>1, <2>2, <3>1, <3>2 DEF Placed
    <3> QED
      BY <1>2, <2>1, <3>3 DEF AllPlaced
  <2>3. CASE ~(grp[l] < Len(Transactions))
    <3>1. ~Merging(l)'
      BY <1>5, <2>3 DEF Commit, TypeOK, Merging, StatementPhase
    <3> QED
      BY <1>2, <2>1, <3>1 DEF AllPlaced
  <2> QED
    BY <2>2, <2>3
<1>6. ASSUME NEW l \in Loader,
             \/ InsertIntoTempTables(l) \/ MarkExisting(l) \/ InheritParent(l)
             \/ ResolveForeignKeys(l) \/ InsertNew(l) \/ InsertConflict(l) \/ WriteBackKeys(l)
             \/ JoinNotNull(l) \/ DropTempTables(l) \/ LoadAgain(l) \/ StatementFails(l)
      PROVE  AllPlaced'
  <2>1. \A m \in Loader : Kept(m)
    BY <1>6 DEF TypeOK, StatementPhase, InsertIntoTempTables, MarkExisting, InheritParent,
                ResolveForeignKeys, InsertNew, InsertConflict, WriteBackKeys, JoinNotNull,
                DropTempTables, LoadAgain, StatementFails, Abort, Step
  <2> QED
    BY <1>2, <2>1 DEF AllPlaced
<1>7. ASSUME Kill \/ UNCHANGED vars PROVE AllPlaced'
  <2>1. \A m \in Loader : Kept(m)
    BY <1>7 DEF TypeOK, StatementPhase, Kill, vars, whereVars
  <2> QED
    BY <1>2, <2>1 DEF AllPlaced
<1> QED
  BY <1>3, <1>4, <1>5, <1>6, <1>7 DEF Next, LoaderStep, Finished

LEMMA StepTyped == TypeOK /\ [Next]_vars => TypeOK'
<1> SUFFICES ASSUME TypeOK, [Next]_vars PROVE TypeOK'
  OBVIOUS
<1> AllPlaced'
  BY PlacedStep
<1>1. ASSUME NEW l \in Loader, InsertIntoTempTables(l) PROVE TypeOK'
  <2>1. ClearTemp({l})
    BY <1>1 DEF InsertIntoTempTables
  <2>2. holder' \in Loader \union {NoLoader}
    BY <1>1 DEF InsertIntoTempTables, Take, TypeOK
  <2> QED
    BY <1>1, <2>1, <2>2, ClearTempTyped
    DEF InsertIntoTempTables, TypeOK, Phase, StatementPhase, callVars, dbVars, statVars
<1>2. ASSUME NEW l \in Loader, MergeIntoTargetTables(l) PROVE TypeOK'
  BY <1>2 DEF MergeIntoTargetTables, Take, TypeOK, Phase, StatementPhase, callVars, dbVars, tempVars
<1>3. ASSUME NEW l \in Loader, MarkExisting(l) PROVE TypeOK'
  BY <1>3 DEF MarkExisting, Step, TypeOK, Phase, StatementPhase, callVars, dbVars, statVars, endVars
<1>4. ASSUME NEW l \in Loader, InheritParent(l) PROVE TypeOK'
  <2>1. \A n \in Staged(l) : n \in Node /\ NodeParent[n] \in Node
    <3>1. MergedTable(l) \notin Reused
      BY <1>4 DEF InheritParent, Duplicated
    <3>2. \A n \in Staged(l) : n \in DuplicatedNode
      BY <3>1, StagedAreNodes DEF Staged, DuplicatedNode, ReusedNode
    <3> QED
      BY <3>2, NodesAssumption DEF DuplicatedNode
  <2>2. fkParent' \in [Loader -> [Node -> Key]] /\ exists' \in [Loader -> [Node -> BOOLEAN]]
    BY <1>4, <2>1 DEF InheritParent, ParentExists, TypeOK
  <2> QED
    BY <1>4, <2>2
    DEF InheritParent, Step, TypeOK, Phase, StatementPhase, callVars, dbVars, statVars, endVars
<1>5. ASSUME NEW l \in Loader, ResolveForeignKeys(l) PROVE TypeOK'
  <2>1. \A r \in Rel1, n \in Node : HasChild(l, r, n) => Child1[r][n] \in Node
    BY ChildrenAssumption DEF HasChild, NodesOf
  <2>2. fk' \in [Loader -> [Rel1 -> [Node -> Key]]]
    BY <1>5, <2>1 DEF ResolveForeignKeys, KeyOfChild, TypeOK
  <2> QED
    BY <1>5, <2>2
    DEF ResolveForeignKeys, Step, TypeOK, Phase, StatementPhase, callVars, dbVars, statVars, endVars
<1>6. ASSUME NEW l \in Loader, InsertNew(l) PROVE TypeOK'
  <2> DEFINE t == MergedTable(l)
             new == Fresh(l)
             count == Cardinality(new)
  <2>1. new \subseteq Node /\ count \in Nat
    BY StagedAreNodes
  <2>2. PICK key \in Injection(new, nextPk[t]..(nextPk[t] + count - 1)) :
          own' = [own EXCEPT ![l] = @ \union {NewRow(l, n, key[n]) : n \in new}]
    BY <1>6 DEF InsertNew
  <2>3. /\ nextPk' = [nextPk EXCEPT ![t] = @ + count]
        /\ inserted' = [inserted EXCEPT ![l] = @ + count]
        /\ existing' = [existing EXCEPT ![l] = @ + CountExisting(l, count)]
    BY <1>6 DEF InsertNew
  <2>4. t \in Table
    BY <1>6, PlacedTable, CallersAssumption
    DEF InsertNew, Step, AllPlaced, Merging, StatementPhase, TypeOK
  <2>5. nextPk' \in [Table -> Nat \ {0}]
    <3>1. nextPk \in [Table -> Nat \ {0}]
      BY DEF TypeOK
    <3> HIDE DEF t, count
    <3>2. nextPk[t] \in Nat \ {0} /\ nextPk[t] + count \in Nat \ {0}
      BY <2>1, <2>4, <3>1
    <3> QED
      BY <2>3, <2>4, <3>1, <3>2
  <2>6. CountExisting(l, count) \in Nat
    BY StagedAreNodes DEF CountExisting
  <2>7. inserted' \in [Loader -> Nat] /\ existing' \in [Loader -> Nat]
    <3>1. inserted \in [Loader -> Nat] /\ existing \in [Loader -> Nat]
      BY DEF TypeOK
    <3>2. inserted[l] + count \in Nat /\ existing[l] + CountExisting(l, count) \in Nat
      BY <2>1, <2>6, <3>1
    <3> HIDE DEF count
    <3> QED
      BY <2>3, <3>1, <3>2
  <2>8. own' \in [Loader -> SUBSET Row]
    <3>1. nextPk[t] \in Nat
      BY <2>4 DEF TypeOK
    <3>2. own \in [Loader -> SUBSET Row]
      BY DEF TypeOK
    <3> HIDE DEF t, count, new
    <3>3. \A i \in nextPk[t]..(nextPk[t] + count - 1) : i \in Nat
      BY <2>1, <3>1
    <3>4. \A n \in new : key[n] \in Nat
      BY <2>2, <3>3 DEF Injection
    <3>5. \A n \in new : NewRow(l, n, key[n]) \in Row
      BY <2>1, <3>4, NewRowTyped
    <3> QED
      BY <2>2, <3>2, <3>5
  <2> QED
    BY <1>6, <2>5, <2>7, <2>8
    DEF InsertNew, Step, TypeOK, Phase, StatementPhase, callVars, tempVars, endVars
<1>7. ASSUME NEW l \in Loader, InsertConflict(l) PROVE TypeOK'
  BY <1>7, AbortTyped DEF InsertConflict, TypeOK
<1>8. ASSUME NEW l \in Loader, WriteBackKeys(l) PROVE TypeOK'
  <2>1. \A n \in Node : TargetRows(l, n) # {} => (CHOOSE r \in TargetRows(l, n) : TRUE).pk \in Key
    <3>1. \A n : TargetRows(l, n) \subseteq Row
      BY DEF TargetRows, HashRows, SiblingRows, Visible, TypeOK
    <3> QED
      BY <3>1 DEF Row
  <2>2. pk' \in [Loader -> [Node -> Key]]
    BY <1>8, <2>1 DEF WriteBackKeys, TypeOK
  <2> QED
    BY <1>8, <2>2
    DEF WriteBackKeys, Step, TypeOK, Phase, StatementPhase, callVars, dbVars, statVars, endVars
<1>9. ASSUME NEW l \in Loader, InsertJoinRows(l) PROVE TypeOK'
  <2>1. ownJoins' \in [Loader -> SUBSET Join]
    BY <1>9, JoinRowTyped DEF InsertJoinRows, NewSlots, TypeOK
  <2> QED
    BY <1>9, <2>1
    DEF InsertJoinRows, TypeOK, Phase, StatementPhase, callVars, tempVars, statVars, endVars
<1>10. ASSUME NEW l \in Loader, JoinNotNull(l) PROVE TypeOK'
  BY <1>10, AbortTyped DEF JoinNotNull, TypeOK
<1>11. ASSUME NEW l \in Loader, Commit(l) PROVE TypeOK'
  <2>1. /\ db' \subseteq Row /\ joins' \subseteq Join
        /\ own' \in [Loader -> SUBSET Row] /\ ownJoins' \in [Loader -> SUBSET Join]
    BY <1>11 DEF Commit, TypeOK
  <2>2. /\ phase' \in [Loader -> Phase]
        /\ grp' \in [Loader -> Nat] /\ pos' \in [Loader -> Nat]
        /\ outcome' \in [Loader -> {"none", "ok", "conflict", "notnull", "error"}]
        /\ holder' \in Loader \union {NoLoader}
    <3>1. CASE grp[l] < Len(Transactions)
      <4>1. /\ phase' = [phase EXCEPT ![l] = "start"]
            /\ grp' = [grp EXCEPT ![l] = @ + 1]
            /\ pos' = [pos EXCEPT ![l] = 1]
            /\ UNCHANGED <<outcome, holder>>
        BY <1>11, <3>1 DEF Commit
      <4> QED
        BY <4>1 DEF TypeOK, Phase, StatementPhase
    <3>2. CASE ~(grp[l] < Len(Transactions))
      BY <1>11, <3>2 DEF Commit, LeaveMerge, Release, TypeOK, Phase
    <3> QED
      BY <3>1, <3>2
  <2> QED
    BY <1>11, <2>1, <2>2 DEF Commit, TypeOK, callVars, tempVars, statVars
<1>12. ASSUME NEW l \in Loader, DropTempTables(l) PROVE TypeOK'
  <2>1. ClearTemp({l})
    BY <1>12 DEF DropTempTables
  <2> QED
    BY <1>12, <2>1, ClearTempTyped
    DEF DropTempTables, Release, TypeOK, Phase, StatementPhase, callVars, dbVars, statVars
<1>13. ASSUME NEW l \in Loader, LoadAgain(l) PROVE TypeOK'
  BY <1>13 DEF LoadAgain, Step, TypeOK, Phase, StatementPhase, callVars, dbVars, tempVars, statVars, endVars
<1>14. ASSUME NEW l \in Loader, StatementFails(l) PROVE TypeOK'
  <2>1. Abort(l, "error") /\ faults' \in Nat
    BY <1>14 DEF StatementFails, TypeOK
  <2> QED
    BY <2>1, AbortTyped
<1>15. ASSUME Kill PROVE TypeOK'
  <2>1. ClearTemp(Loader)
    BY <1>15 DEF Kill
  <2> QED
    BY <1>15, <2>1, ClearTempTyped DEF Kill, TypeOK, Phase, StatementPhase, callVars, statVars
<1>16. ASSUME UNCHANGED vars PROVE TypeOK'
  BY <1>16 DEF TypeOK, vars, callVars, dbVars, tempVars, statVars, whereVars, endVars
<1> QED
  BY <1>1, <1>2, <1>3, <1>4, <1>5, <1>6, <1>7, <1>8, <1>9, <1>10, <1>11, <1>12, <1>13, <1>14,
     <1>15, <1>16
  DEF Next, LoaderStep, Finished

(***************************************************************************)
(* The state keeps its types, the counters of MergeStats included: they    *)
(* never go below zero.                                                    *)
(***************************************************************************)
THEOREM TypeCorrect == Spec => []TypeOK
BY InitTyped, StepTyped, PTL DEF Spec

-----------------------------------------------------------------------------
(***************************************************************************)
(* Under a lock a loader that merges is alone: it holds the lock, and the  *)
(* uncommitted rows are those of loaders that merge.                       *)
(***************************************************************************)
Locked(l) ==
  CASE discipline = "phase" -> Merging(l) \/ phase[l] \in {"staged", "cleanup"}
    [] discipline = "merge" -> Merging(l)
    [] OTHER -> FALSE

MergesAlone == \A l \in Loader : Locked(l) => holder = l

(***************************************************************************)
(* So between the statement that marks the staged rows of a reused table   *)
(* and the one that inserts the others, no row of theirs appears.          *)
(***************************************************************************)
MarkValid(l) ==
  phase[l] \in {"resolve", "insert"} /\ MergedTable(l) \in Reused
    => Fresh(l) \intersect TakenHashes(Visible(l)) = {}

MarksValid == discipline # "none" => \A l \in Loader : MarkValid(l)

ConflictInv == TypeOK /\ MergesAlone /\ MarksValid /\ NoConflict

LEMMA AloneStep == TypeOK /\ MergesAlone /\ [Next]_vars => MergesAlone'
<1> SUFFICES ASSUME TypeOK, MergesAlone, [Next]_vars PROVE MergesAlone'
  OBVIOUS
<1>1. discipline' = discipline /\ NoLoader \notin Loader
  BY CallsFixed, LoadersAssumption
<1> USE DEF TypeOK, Locked, Merging, StatementPhase
<1>2. ASSUME NEW l \in Loader, InsertIntoTempTables(l) \/ MergeIntoTargetTables(l) PROVE MergesAlone'
  <2>1. CASE InsertIntoTempTables(l)
    BY <1>1, <2>1 DEF MergesAlone, InsertIntoTempTables, Take
  <2>2. CASE MergeIntoTargetTables(l)
    BY <1>1, <2>2 DEF MergesAlone, MergeIntoTargetTables, Take
  <2> QED
    BY <1>2, <2>1, <2>2
<1>3. ASSUME NEW l \in Loader, NEW why, Abort(l, why), Merging(l) \/ phase[l] = "staged"
      PROVE  MergesAlone'
  BY <1>1, <1>3 DEF MergesAlone, Abort, LeaveMerge, Release
<1>4. ASSUME NEW l \in Loader, Commit(l) PROVE MergesAlone'
  BY <1>1, <1>4 DEF MergesAlone, Commit, LeaveMerge, Release
<1>5. ASSUME NEW l \in Loader, DropTempTables(l) PROVE MergesAlone'
  BY <1>1, <1>5 DEF MergesAlone, DropTempTables, Release
<1>6. ASSUME NEW l \in Loader,
             \/ MarkExisting(l) \/ InheritParent(l) \/ ResolveForeignKeys(l) \/ InsertNew(l)
             \/ WriteBackKeys(l) \/ InsertJoinRows(l) \/ LoadAgain(l)
      PROVE  MergesAlone'
  <2>1. holder' = holder
    BY <1>6 DEF MarkExisting, InheritParent, ResolveForeignKeys, InsertNew, WriteBackKeys,
                InsertJoinRows, LoadAgain, endVars
  <2>2. \A m \in Loader : Locked(m)' => Locked(m)
    BY <1>1, <1>6 DEF MarkExisting, InheritParent, ResolveForeignKeys, InsertNew, WriteBackKeys,
                      InsertJoinRows, LoadAgain, Step
  <2> QED
    BY <2>1, <2>2 DEF MergesAlone
<1>7. ASSUME Kill \/ UNCHANGED vars PROVE MergesAlone'
  BY <1>1, <1>7 DEF MergesAlone, Kill, vars, callVars, whereVars, endVars
<1>8. ASSUME NEW l \in Loader, InsertConflict(l) \/ JoinNotNull(l) \/ StatementFails(l)
      PROVE  MergesAlone'
  BY <1>3, <1>8 DEF InsertConflict, JoinNotNull, StatementFails
<1> QED
  BY <1>2, <1>4, <1>5, <1>6, <1>7, <1>8 DEF Next, LoaderStep, Finished

(***************************************************************************)
(* A mark stays right as long as nothing it was made from changes.         *)
(***************************************************************************)
LEMMA MarkKept ==
  ASSUME NEW l \in Loader, MarkValid(l), single' = single,
         phase'[l] \in {"resolve", "insert"} => phase[l] \in {"resolve", "insert"},
         grp'[l] = grp[l], pos'[l] = pos[l], exists'[l] = exists[l], db' = db, own'[l] = own[l]
  PROVE  MarkValid(l)'
BY DEF MarkValid, MergedTable, Transactions, Fresh, Staged, Visible, TakenHashes

LEMMA MarksStep ==
  TypeOK /\ MergesAlone /\ MarksValid /\ [Next]_vars => MarksValid'
<1> SUFFICES ASSUME TypeOK, MergesAlone, MarksValid, [Next]_vars, discipline' # "none",
                    NEW l \in Loader
             PROVE  MarkValid(l)'
  BY DEF MarksValid
<1>1. discipline' = discipline /\ single' = single /\ MarkValid(l)
  BY CallsFixed DEF MarksValid
<1>2. ASSUME phase'[l] \notin {"resolve", "insert"} PROVE MarkValid(l)'
  BY <1>2 DEF MarkValid
<1>3. ASSUME NEW m \in Loader, LoaderStep(m) \/ StatementFails(m), m # l PROVE MarkValid(l)'
  <2>1. CASE Commit(m)
    <3>1. phase[l] \notin {"resolve", "insert"}
      BY <1>1, <1>3, <2>1, CallersAssumption
      DEF MergesAlone, Locked, Merging, StatementPhase, Commit, TypeOK
    <3>2. phase'[l] = phase[l]
      BY <1>3, <2>1 DEF Commit, TypeOK
    <3> QED
      BY <1>2, <3>1, <3>2
  <2>2. CASE ~Commit(m)
    <3>1. /\ phase'[l] = phase[l] /\ grp'[l] = grp[l] /\ pos'[l] = pos[l]
          /\ exists'[l] = exists[l] /\ db' = db /\ own'[l] = own[l]
      BY <1>3, <2>2
      DEF TypeOK, LoaderStep, InsertIntoTempTables, MergeIntoTargetTables, MarkExisting,
          InheritParent, ResolveForeignKeys, InsertNew, InsertConflict, WriteBackKeys,
          InsertJoinRows, JoinNotNull, DropTempTables, LoadAgain, StatementFails, Abort, Step,
          ClearTemp, dbVars, tempVars
    <3> QED
      BY <1>1, <3>1, MarkKept
  <2> QED
    BY <2>1, <2>2
<1>4. CASE MarkExisting(l)
  <2>1. /\ Fresh(l)' \subseteq {n \in Staged(l) : HashRows(l, n) = {}}
        /\ Visible(l)' = Visible(l)
    BY <1>1, <1>4, StagedAreNodes
    DEF MarkExisting, Fresh, Staged, MergedTable, Transactions, Visible, TypeOK, dbVars
  <2> QED
    BY <2>1 DEF MarkValid, TakenHashes, HashRows
<1>5. CASE InheritParent(l)
  BY <1>1, <1>5 DEF InheritParent, MarkValid, MergedTable, Transactions, Duplicated
<1>6. CASE ResolveForeignKeys(l)
  BY <1>1, <1>6, MarkKept DEF ResolveForeignKeys, Step, dbVars
<1>7. ASSUME \/ InsertIntoTempTables(l) \/ MergeIntoTargetTables(l) \/ InsertNew(l)
             \/ InsertConflict(l) \/ WriteBackKeys(l) \/ InsertJoinRows(l) \/ JoinNotNull(l)
             \/ Commit(l) \/ DropTempTables(l) \/ LoadAgain(l) \/ StatementFails(l)
      PROVE  MarkValid(l)'
  BY <1>2, <1>7
  DEF TypeOK, InsertIntoTempTables, MergeIntoTargetTables, InsertNew, InsertConflict,
      WriteBackKeys, InsertJoinRows, JoinNotNull, Commit, DropTempTables, LoadAgain,
      StatementFails, Abort, Step
<1>8. CASE Kill
  BY <1>2, <1>8 DEF Kill
<1>9. CASE UNCHANGED vars
  BY <1>1, <1>9, MarkKept DEF vars, dbVars, whereVars, tempVars
<1> QED
  BY <1>3, <1>4, <1>5, <1>6, <1>7, <1>8, <1>9 DEF Next, LoaderStep, Finished

LEMMA ConflictStep ==
  TypeOK /\ MarksValid /\ NoConflict /\ [Next]_vars => NoConflict'
<1> SUFFICES ASSUME TypeOK, MarksValid, NoConflict, [Next]_vars PROVE NoConflict'
  OBVIOUS
<1>1. discipline' = discipline
  BY CallsFixed
<1>2. ASSUME NEW l \in Loader, InsertConflict(l) PROVE discipline = "none"
  BY <1>2 DEF InsertConflict, UniqueHash, MarksValid, MarkValid
<1>3. ASSUME NEW l \in Loader, Commit(l) PROVE NoConflict'
  <2>1. outcome' = outcome \/ outcome' = [outcome EXCEPT ![l] = "ok"]
    BY <1>3 DEF Commit
  <2> QED
    BY <1>1, <2>1 DEF NoConflict, TypeOK
<1>4. ASSUME NEW l \in Loader,
             \/ InsertIntoTempTables(l) \/ MergeIntoTargetTables(l) \/ MarkExisting(l)
             \/ InheritParent(l) \/ ResolveForeignKeys(l) \/ InsertNew(l) \/ WriteBackKeys(l)
             \/ InsertJoinRows(l) \/ JoinNotNull(l) \/ DropTempTables(l) \/ LoadAgain(l)
             \/ StatementFails(l)
      PROVE  NoConflict'
  BY <1>1, <1>4
  DEF NoConflict, TypeOK, InsertIntoTempTables, MergeIntoTargetTables, MarkExisting, InheritParent,
      ResolveForeignKeys, InsertNew, WriteBackKeys, InsertJoinRows, JoinNotNull, DropTempTables,
      LoadAgain, StatementFails, Abort, endVars
<1>5. ASSUME Kill \/ UNCHANGED vars PROVE NoConflict'
  BY <1>1, <1>5 DEF NoConflict, Kill, vars, endVars
<1> QED
  BY <1>1, <1>2, <1>3, <1>4, <1>5 DEF Next, LoaderStep, Finished, NoConflict

(***************************************************************************)
(* No load fails on a unique violation when the callers hold a lock during *)
(* the load, or only during the merge: what an earlier statement found to  *)
(* be new is still new when a later one inserts it.                        *)
(***************************************************************************)
THEOREM LockPreventsConflict == Spec => []NoConflict
<1>1. Init => ConflictInv
  BY InitTyped
  DEF Init, ConflictInv, MergesAlone, Locked, Merging, StatementPhase, MarksValid, MarkValid,
      NoConflict
<1>2. ConflictInv /\ [Next]_vars => ConflictInv'
  BY StepTyped, AloneStep, MarksStep, ConflictStep DEF ConflictInv
<1>3. ConflictInv => NoConflict
  BY DEF ConflictInv
<1> QED
  BY <1>1, <1>2, <1>3, PTL DEF Spec

-----------------------------------------------------------------------------
(***************************************************************************)
(* A table whose place the loader has passed.                              *)
(***************************************************************************)
Passed(l, t) ==
  \E g \in DOMAIN Transactions : \E p \in DOMAIN Transactions[g] :
    Transactions[g][p] = t /\ (g < grp[l] \/ (g = grp[l] /\ p < pos[l]))

(***************************************************************************)
(* The statements of a table that are done: 1 its rows are marked, 2 their *)
(* foreign keys resolved, 3 the new ones inserted, 4 the target keys       *)
(* written back, 5 the join rows inserted.                                 *)
(***************************************************************************)
Level(ph) ==
  CASE ph = "resolve" -> 1 [] ph = "insert" -> 2 [] ph = "writeback" -> 3
    [] ph = "join" -> 4 [] ph = "commit" -> 5 [] OTHER -> 0

Stage(l) ==
  [t \in Table |-> IF ~Merging(l) THEN 0
                   ELSE IF Passed(l, t) THEN 5
                   ELSE IF t = MergedTable(l) THEN Level(phase[l]) ELSE 0]

Group(l) == {Transactions[grp[l]][p] : p \in DOMAIN Transactions[grp[l]]}

AtLastTable(l) == phase[l] = "commit" => LastTable(l)

(***************************************************************************)
(* The plan of either argument of single_transaction.                      *)
(***************************************************************************)
LEMMA PlanHolds ==
  ASSUME single \in SingleChoices
  PROVE  EachOnce(Table, Transactions) /\ ParentsFirst(Transactions)
BY PlanOrdered DEF Transactions

(***************************************************************************)
(* A place of the plan is a pair of positive numbers, and belongs to one   *)
(* table only.                                                             *)
(***************************************************************************)
LEMMA PlacesTyped ==
  ASSUME single \in SingleChoices, NEW g \in DOMAIN Transactions
  PROVE  /\ DOMAIN Transactions = 1..Len(Transactions) /\ Len(Transactions) \in Nat \ {0}
         /\ DOMAIN Transactions[g] = 1..Len(Transactions[g]) /\ Len(Transactions[g]) \in Nat \ {0}
         /\ g \in Nat
         /\ \A p \in DOMAIN Transactions[g] : p \in Nat /\ Transactions[g][p] \in Table
<1>1. Transactions \in Seq(Seq(Table) \ {<<>>}) /\ Transactions # <<>>
  BY TransactionsTyped
<1>2. /\ DOMAIN Transactions = 1..Len(Transactions) /\ Len(Transactions) \in Nat \ {0}
      /\ Transactions[g] \in Seq(Table) \ {<<>>}
  BY <1>1
<1> QED
  BY <1>2

LEMMA PlacedOnce ==
  ASSUME single \in SingleChoices, NEW g \in DOMAIN Transactions, NEW h \in DOMAIN Transactions,
         NEW p \in DOMAIN Transactions[g], NEW q \in DOMAIN Transactions[h],
         Transactions[g][p] = Transactions[h][q]
  PROVE  g = h /\ p = q
<1>1. ~(g < h) /\ ~(h < g) /\ ~(g = h /\ p < q) /\ ~(g = h /\ q < p)
  BY PlanHolds, PlacesTyped DEF EachOnce, Earlier
<1>2. g \in Nat /\ h \in Nat /\ p \in Nat /\ q \in Nat
  BY PlacesTyped
<1> QED
  BY <1>1, <1>2

LEMMA MergedStage ==
  ASSUME TypeOK, NEW l \in Loader, Merging(l)
  PROVE  /\ Placed(l) /\ MergedTable(l) \in Group(l) /\ Group(l) \subseteq Table
         /\ MergedTable(l) \in Table /\ ~Passed(l, MergedTable(l))
         /\ Stage(l)[MergedTable(l)] = Level(phase[l])
<1>1. Placed(l) /\ single \in SingleChoices
  BY DEF TypeOK, AllPlaced
<1>2. MergedTable(l) \in Group(l) /\ Group(l) \subseteq Table
  BY <1>1, PlacesTyped DEF Placed, MergedTable, Group
<1>3. ~Passed(l, MergedTable(l))
  <2> SUFFICES ASSUME NEW g \in DOMAIN Transactions, NEW p \in DOMAIN Transactions[g],
                      Transactions[g][p] = MergedTable(l), g < grp[l] \/ (g = grp[l] /\ p < pos[l])
               PROVE  FALSE
    BY DEF Passed
  <2>1. g = grp[l] /\ p = pos[l]
    BY <1>1, PlacedOnce DEF Placed, MergedTable
  <2> QED
    BY <2>1, <1>1, PlacesTyped DEF TypeOK
<1> QED
  BY <1>1, <1>2, <1>3 DEF Stage

LEMMA StageTyped ==
  ASSUME NEW l \in Loader
  PROVE  /\ Stage(l) \in [Table -> 0..5]
         /\ ~Merging(l) => \A t \in Table : Stage(l)[t] = 0
BY DEF Stage, Level

LEMMA StageKept ==
  ASSUME NEW l \in Loader, single' = single, grp'[l] = grp[l], pos'[l] = pos[l],
         phase'[l] = phase[l] \/ (~Merging(l) /\ ~Merging(l)')
  PROVE  Stage(l)' = Stage(l) /\ Group(l)' = Group(l)
<1>1. Transactions' = Transactions
  BY DEF Transactions
<1>2. Merging(l)' = Merging(l)
  BY DEF Merging
<1>3. \A t : Passed(l, t)' = Passed(l, t)
  BY <1>1 DEF Passed
<1> QED
  BY <1>1, <1>2, <1>3 DEF Stage, Group, MergedTable, Merging

(***************************************************************************)
(* No table is begun where a merge starts.                                 *)
(***************************************************************************)
LEMMA StageStarted ==
  ASSUME single \in SingleChoices, NEW l \in Loader, single' = single,
         ~Merging(l)' \/ (phase'[l] = "start" /\ grp'[l] = 1 /\ pos'[l] = 1)
  PROVE  \A t \in Table : Stage(l)'[t] = 0
<1>1. CASE ~Merging(l)'
  BY <1>1 DEF Stage
<1>2. CASE phase'[l] = "start" /\ grp'[l] = 1 /\ pos'[l] = 1
  <2>1. Transactions' = Transactions
    BY DEF Transactions
  <2>2. ASSUME NEW g \in DOMAIN Transactions, NEW p \in DOMAIN Transactions[g]
        PROVE  ~(g < 1) /\ ~(p < 1)
    <3>1. g \in 1..Len(Transactions) /\ p \in 1..Len(Transactions[g])
      BY PlacesTyped
    <3> QED
      BY <3>1
  <2>3. \A t : ~Passed(l, t)'
    BY <1>2, <2>1, <2>2 DEF Passed
  <2> QED
    BY <1>2, <2>3 DEF Stage, Level
<1> QED
  BY <1>1, <1>2

(***************************************************************************)
(* A statement of the table that is merged brings that table to its next   *)
(* stage, and no other.                                                    *)
(***************************************************************************)
LEMMA StageNext ==
  ASSUME TypeOK, NEW l \in Loader, Merging(l), Merging(l)', single' = single,
         grp'[l] = grp[l], pos'[l] = pos[l]
  PROVE  /\ Stage(l)' = [Stage(l) EXCEPT ![MergedTable(l)] = Level(phase'[l])]
         /\ Group(l)' = Group(l) /\ MergedTable(l)' = MergedTable(l)
<1>1. Transactions' = Transactions
  BY DEF Transactions
<1>2. \A t : Passed(l, t)' = Passed(l, t)
  BY <1>1 DEF Passed
<1>3. Group(l)' = Group(l) /\ MergedTable(l)' = MergedTable(l)
  BY <1>1 DEF Group, MergedTable
<1> QED
  BY <1>2, <1>3, MergedStage DEF Stage

LEMMA StageJoined ==
  ASSUME TypeOK, NEW l \in Loader, InsertJoinRows(l), single' = single
  PROVE  /\ Stage(l)' = [Stage(l) EXCEPT ![MergedTable(l)] = 5]
         /\ Group(l)' = Group(l) /\ AtLastTable(l)'
<1>1. Transactions' = Transactions /\ grp'[l] = grp[l] /\ Merging(l)
  BY DEF Transactions, InsertJoinRows, Merging, StatementPhase
<1>2. Group(l)' = Group(l)
  BY <1>1 DEF Group
<1>3. CASE LastTable(l)
  <2>1. phase'[l] = "commit" /\ pos'[l] = pos[l]
    BY <1>3 DEF InsertJoinRows, TypeOK
  <2>2. Merging(l)' /\ Level(phase'[l]) = 5
    BY <2>1 DEF Merging, StatementPhase, Level
  <2>3. AtLastTable(l)'
    BY <1>1, <1>3, <2>1 DEF AtLastTable, LastTable
  <2> QED
    BY <1>1, <2>1, <2>2, <2>3, StageNext
<1>4. CASE ~LastTable(l)
  <2>1. phase'[l] = "start" /\ pos'[l] = pos[l] + 1
    BY <1>4 DEF InsertJoinRows, TypeOK
  <2>2. Placed(l)
    BY <1>1, MergedStage
  <2>3. \A t \in Table : Passed(l, t)' <=> Passed(l, t) \/ t = MergedTable(l)
    <3>1. ASSUME NEW t \in Table, NEW g \in DOMAIN Transactions, NEW p \in DOMAIN Transactions[g],
                 Transactions[g][p] = t, g < grp[l] \/ (g = grp[l] /\ p < pos[l] + 1)
          PROVE  Passed(l, t) \/ t = MergedTable(l)
      <4>1. p \in Nat /\ pos[l] \in Nat
        BY PlacesTyped DEF TypeOK
      <4>2. p < pos[l] + 1 => p < pos[l] \/ p = pos[l]
        BY <4>1
      <4> QED
        BY <3>1, <4>2 DEF Passed, MergedTable
    <3>2. ASSUME NEW t \in Table, Passed(l, t) \/ t = MergedTable(l)
          PROVE  Passed(l, t)'
      <4>1. CASE t = MergedTable(l)
        <5>1. pos[l] < pos[l] + 1
          BY DEF TypeOK
        <5> QED
          BY <4>1, <5>1, <2>1, <2>2, <1>1 DEF Passed, Placed, MergedTable
      <4>2. CASE Passed(l, t)
        <5>1. PICK g, p : g \in DOMAIN Transactions /\ p \in DOMAIN Transactions[g] /\
                Transactions[g][p] = t /\ (g < grp[l] \/ (g = grp[l] /\ p < pos[l]))
          BY <4>2 DEF Passed
        <5>2. p < pos[l] => p < pos[l] + 1
          BY <5>1, PlacesTyped DEF TypeOK
        <5> QED
          BY <5>1, <5>2, <2>1, <1>1 DEF Passed
      <4> QED
        BY <3>2, <4>1, <4>2
    <3>3. ASSUME NEW t \in Table, Passed(l, t)' PROVE Passed(l, t) \/ t = MergedTable(l)
      BY <3>3, <3>1, <1>1, <2>1 DEF Passed
    <3> QED
      BY <3>2, <3>3
  <2>4. Merging(l)' /\ Level(phase'[l]) = 0
    BY <2>1 DEF Merging, StatementPhase, Level
  <2>5. AtLastTable(l)'
    BY <2>1 DEF AtLastTable
  <2> QED
    BY <1>1, <1>2, <2>3, <2>4, <2>5, MergedStage DEF Stage
<1> QED
  BY <1>3, <1>4

(***************************************************************************)
(* At the commit of a transaction all its tables are done; the tables of   *)
(* the next one are not begun.                                             *)
(***************************************************************************)
LEMMA GroupDone ==
  ASSUME TypeOK, NEW l \in Loader, AtLastTable(l), phase[l] = "commit"
  PROVE  /\ \A t \in Group(l) : Stage(l)[t] = 5
         /\ ~(grp[l] < Len(Transactions)) => \A t \in Table : Stage(l)[t] = 5
         /\ single => \A t \in Table : t \in Group(l)
<1>1. Merging(l) /\ LastTable(l) /\ single \in SingleChoices /\ Level(phase[l]) = 5
  BY DEF Merging, StatementPhase, AtLastTable, TypeOK, Level
<1>2. Placed(l) /\ Stage(l)[MergedTable(l)] = 5 /\ Group(l) \subseteq Table
  BY <1>1, MergedStage
<1>3. ASSUME NEW g \in DOMAIN Transactions, g < grp[l] \/ g = grp[l],
             NEW p \in DOMAIN Transactions[g]
      PROVE  Stage(l)[Transactions[g][p]] = 5
  <2>1. Transactions[g][p] \in Table
    BY <1>1, PlacesTyped
  <2>2. CASE g = grp[l] /\ p = pos[l]
    BY <2>2, <1>2 DEF MergedTable
  <2>3. CASE g < grp[l] \/ p # pos[l]
    <3>1. g = grp[l] => p \in 1..pos[l]
      BY <1>1, PlacesTyped DEF LastTable
    <3>2. pos[l] \in Nat
      BY DEF TypeOK
    <3>3. g = grp[l] /\ p # pos[l] => p < pos[l]
      BY <3>1, <3>2
    <3>4. Passed(l, Transactions[g][p])
      BY <1>3, <2>3, <3>3 DEF Passed
    <3> QED
      BY <1>1, <2>1, <3>4 DEF Stage
  <2> QED
    BY <1>3, <2>2, <2>3
<1>4. \A t \in Group(l) : Stage(l)[t] = 5
  BY <1>2, <1>3 DEF Group, Placed
<1>5. ASSUME ~(grp[l] < Len(Transactions)), NEW t \in Table PROVE Stage(l)[t] = 5
  <2>1. PICK g, p : g \in DOMAIN Transactions /\ p \in DOMAIN Transactions[g] /\ Transactions[g][p] = t
    BY <1>1, PlanHolds DEF EachOnce, Together
  <2>2. g \in 1..Len(Transactions) /\ grp[l] \in Nat /\ Len(Transactions) \in Nat
    BY <1>1, <2>1, PlacesTyped DEF TypeOK
  <2>3. g < grp[l] \/ g = grp[l]
    BY <1>5, <2>2
  <2> QED
    BY <1>3, <2>1, <2>3
<1>6. ASSUME single, NEW t \in Table PROVE t \in Group(l)
  <2>1. PICK g, p : g \in DOMAIN Transactions /\ p \in DOMAIN Transactions[g] /\ Transactions[g][p] = t
    BY <1>1, PlanHolds DEF EachOnce, Together
  <2>2. DOMAIN Transactions = {1}
    BY <1>6 DEF Transactions
  <2> QED
    BY <2>1, <2>2, <1>2 DEF Placed, Group
<1> QED
  BY <1>4, <1>5, <1>6

LEMMA StageCommitted ==
  ASSUME TypeOK, NEW l \in Loader, AtLastTable(l), Commit(l), single' = single,
         grp[l] < Len(Transactions)
  PROVE  /\ Stage(l)' = Stage(l)
         /\ \A t \in Group(l)' : Stage(l)[t] = 0
         /\ phase'[l] = "start"
<1>1. /\ phase[l] = "commit" /\ phase'[l] = "start" /\ grp'[l] = grp[l] + 1 /\ pos'[l] = 1
      /\ Transactions' = Transactions /\ single \in SingleChoices
  BY DEF Commit, TypeOK, Transactions
<1>2. Merging(l) /\ Merging(l)' /\ Level(phase'[l]) = 0
  BY <1>1 DEF Merging, StatementPhase, Level
<1>3. Placed(l) /\ grp[l] \in Nat /\ grp[l] + 1 \in DOMAIN Transactions
  <2>1. Placed(l) /\ grp[l] \in Nat
    BY <1>2, MergedStage DEF TypeOK
  <2> QED
    BY <2>1, <1>1, PlacesTyped DEF Placed
<1>4. ASSUME NEW t \in Table, Stage(l)[t] = 5 PROVE Passed(l, t)'
  <2>1. PICK g, p : g \in DOMAIN Transactions /\ p \in DOMAIN Transactions[g] /\
          Transactions[g][p] = t /\ (g < grp[l] \/ g = grp[l])
    <3>1. Passed(l, t) \/ t = MergedTable(l)
      BY <1>2, <1>4 DEF Stage
    <3> QED
      BY <3>1, <1>3 DEF Passed, MergedTable, Placed
  <2>2. g < grp[l] + 1
    BY <2>1, <1>1, <1>3, PlacesTyped
  <2> QED
    BY <2>1, <2>2, <1>1 DEF Passed
<1>5. ASSUME NEW t \in Table, Passed(l, t)' PROVE Stage(l)[t] = 5
  <2>1. PICK g, p : g \in DOMAIN Transactions /\ p \in DOMAIN Transactions[g] /\
          Transactions[g][p] = t /\ (g < grp[l] + 1 \/ (g = grp[l] + 1 /\ p < 1))
    BY <1>1, <1>5 DEF Passed
  <2>2. g \in Nat /\ p \in Nat \ {0}
    BY <1>1, <2>1, PlacesTyped
  <2>3. g < grp[l] \/ g = grp[l]
    BY <2>1, <2>2, <1>3
  <2>4. CASE g < grp[l]
    BY <2>1, <2>4, <1>2 DEF Passed, Stage
  <2>5. CASE g = grp[l]
    BY <2>1, <2>5, <1>1, GroupDone DEF Group
  <2> QED
    BY <2>3, <2>4, <2>5
<1>6. \A t \in Table : Passed(l, t)' <=> Stage(l)[t] = 5
  BY <1>4, <1>5
<1>7. \A t \in Table : Stage(l)[t] \in {0, 5}
  BY <1>1, MergedStage DEF Stage, Level
<1>8. \A t \in Table : Stage(l)'[t] = IF Stage(l)[t] = 5 THEN 5 ELSE 0
  BY <1>2, <1>6 DEF Stage
<1>9. Stage(l)' = Stage(l)
  <2>1. Stage(l)' \in [Table -> 0..5] /\ Stage(l) \in [Table -> 0..5]
    BY DEF Stage, Level
  <2> QED
    BY <2>1, <1>7, <1>8
<1>10. ASSUME NEW t \in Group(l)' PROVE Stage(l)[t] = 0
  <2>1. PICK q \in DOMAIN Transactions[grp[l] + 1] : t = Transactions[grp[l] + 1][q]
    BY <1>1 DEF Group
  <2>2. t \in Table
    BY <2>1, <1>1, <1>3, PlacesTyped
  <2>3. ASSUME Stage(l)[t] = 5 PROVE FALSE
    <3>1. PICK g, p : g \in DOMAIN Transactions /\ p \in DOMAIN Transactions[g] /\
            Transactions[g][p] = t /\ (g < grp[l] + 1 \/ (g = grp[l] + 1 /\ p < 1))
      BY <1>1, <1>4, <2>2, <2>3 DEF Passed
    <3>2. g = grp[l] + 1
      BY <1>1, <1>3, <2>1, <3>1, PlacedOnce
    <3>3. p \in Nat \ {0} /\ g \in Nat
      BY <1>1, <3>1, PlacesTyped
    <3> QED
      BY <1>3, <3>1, <3>2, <3>3
  <2> QED
    BY <1>7, <2>2, <2>3
<1> QED
  BY <1>1, <1>9, <1>10

(***************************************************************************)
(* What comes earlier in the plan than a table that is begun, is done.     *)
(***************************************************************************)
LEMMA EarlierDone ==
  ASSUME TypeOK, NEW l \in Loader, Merging(l), NEW t \in Table, NEW u \in Table,
         Earlier(Transactions, u, t), Stage(l)[t] >= 1 \/ t = MergedTable(l)
  PROVE  Stage(l)[u] = 5
<1>2. PICK g, h, p, q :
        /\ g \in DOMAIN Transactions /\ h \in DOMAIN Transactions
        /\ p \in DOMAIN Transactions[g] /\ q \in DOMAIN Transactions[h]
        /\ Transactions[g][p] = u /\ Transactions[h][q] = t
        /\ g < h \/ (g = h /\ p < q)
  BY DEF Earlier
<1>3. Placed(l) /\ single \in SingleChoices
  BY MergedStage DEF TypeOK
<1>4. h < grp[l] \/ (h = grp[l] /\ (q < pos[l] \/ q = pos[l]))
  <2>1. Passed(l, t) \/ t = MergedTable(l)
    BY DEF Stage
  <2>2. CASE t = MergedTable(l)
    BY <1>2, <1>3, <2>2, PlacedOnce DEF MergedTable, Placed
  <2>3. CASE Passed(l, t)
    <3>1. PICK i, j : i \in DOMAIN Transactions /\ j \in DOMAIN Transactions[i] /\
            Transactions[i][j] = t /\ (i < grp[l] \/ (i = grp[l] /\ j < pos[l]))
      BY <2>3 DEF Passed
    <3>2. i = h /\ j = q
      BY <1>2, <1>3, <3>1, PlacedOnce
    <3> QED
      BY <3>1, <3>2
  <2> QED
    BY <2>1, <2>2, <2>3
<1>5. g \in Nat /\ h \in Nat /\ p \in Nat /\ q \in Nat /\ grp[l] \in Nat /\ pos[l] \in Nat
  BY <1>2, <1>3, PlacesTyped DEF TypeOK
<1>6. g < grp[l] \/ (g = grp[l] /\ p < pos[l])
  BY <1>2, <1>4, <1>5
<1>7. Passed(l, u)
  BY <1>2, <1>6 DEF Passed
<1> QED
  BY <1>7 DEF Stage

LEMMA ParentDone ==
  ASSUME TypeOK, NEW l \in Loader, Merging(l), NEW t \in Duplicated
  PROVE  /\ t \in Table /\ TableParent[t] \in Table /\ t # TableParent[t]
         /\ Stage(l)[t] >= 1 \/ t = MergedTable(l) => Stage(l)[TableParent[t]] = 5
         /\ t \in Group(l) <=> TableParent[t] \in Group(l)
<1>1. t \in Table /\ TableParent[t] \in Table /\ single \in SingleChoices /\ Placed(l)
  BY TablesAssumption, MergedStage DEF Duplicated, TypeOK
<1>2. Earlier(Transactions, TableParent[t], t) /\ Together(Transactions, TableParent[t], t)
  BY <1>1, PlanHolds DEF ParentsFirst
<1>3. t # TableParent[t]
  BY <1>1, <1>2, PlanHolds DEF EachOnce
<1>4. PICK g, p, q :
        /\ g \in DOMAIN Transactions /\ p \in DOMAIN Transactions[g] /\ q \in DOMAIN Transactions[g]
        /\ Transactions[g][p] = TableParent[t] /\ Transactions[g][q] = t
  BY <1>2 DEF Together
<1>5. t \in Group(l) => g = grp[l]
  BY <1>1, <1>4, PlacedOnce DEF Group, Placed
<1>6. TableParent[t] \in Group(l) => g = grp[l]
  BY <1>1, <1>4, PlacedOnce DEF Group, Placed
<1> QED
  BY <1>1, <1>2, <1>3, <1>4, <1>5, <1>6, EarlierDone DEF Group

LEMMA ReadsDone ==
  ASSUME TypeOK, NEW l \in Loader, Merging(l), ReadsFollowed, NEW rel \in Rel1 \union RelN,
         From[rel] = MergedTable(l)
  PROVE  Stage(l)[To[rel]] = 5
<1>1. From[rel] \in Table /\ To[rel] \in Table /\ single \in SingleChoices
  BY TablesAssumption DEF TypeOK
<1> QED
  BY <1>1, EarlierDone DEF ReadsFollowed

(***************************************************************************)
(* A step of one loader leaves the others where they are, with what they   *)
(* have staged and inserted; and no step takes a committed row away.       *)
(***************************************************************************)
Untouched(m) ==
  /\ phase'[m] = phase[m] /\ grp'[m] = grp[m] /\ pos'[m] = pos[m]
  /\ pk'[m] = pk[m] /\ exists'[m] = exists[m]
  /\ fkParent'[m] = fkParent[m] /\ fk'[m] = fk[m]
  /\ own'[m] = own[m] /\ ownJoins'[m] = ownJoins[m]
  /\ outcome'[m] = outcome[m] /\ attempt'[m] = attempt[m]

LEMMA OthersUntouched ==
  ASSUME TypeOK, NEW l \in Loader, LoaderStep(l) \/ StatementFails(l), NEW m \in Loader, m # l
  PROVE  Untouched(m)
<1>1. CASE InsertIntoTempTables(l) \/ DropTempTables(l)
  BY <1>1 DEF TypeOK, Untouched, InsertIntoTempTables, DropTempTables, ClearTemp, dbVars
<1>2. CASE \/ MergeIntoTargetTables(l) \/ MarkExisting(l) \/ InheritParent(l)
           \/ ResolveForeignKeys(l) \/ WriteBackKeys(l) \/ LoadAgain(l)
  BY <1>2
  DEF TypeOK, Untouched, MergeIntoTargetTables, MarkExisting, InheritParent, ResolveForeignKeys,
      WriteBackKeys, LoadAgain, Step, dbVars, tempVars, endVars
<1>3. CASE InsertNew(l) \/ InsertJoinRows(l)
  BY <1>3 DEF TypeOK, Untouched, InsertNew, InsertJoinRows, Step, tempVars, endVars
<1>4. CASE Commit(l)
  BY <1>4 DEF TypeOK, Untouched, Commit, tempVars
<1>5. ASSUME NEW why, Abort(l, why) PROVE Untouched(m)
  BY <1>5 DEF TypeOK, Untouched, Abort, tempVars
<1> QED
  BY <1>1, <1>2, <1>3, <1>4, <1>5 DEF LoaderStep, InsertConflict, JoinNotNull, StatementFails

LEMMA StoreGrows == [Next]_vars => db \subseteq db' /\ joins \subseteq joins'
BY DEF Next, LoaderStep, vars, dbVars, InsertIntoTempTables, MergeIntoTargetTables, MarkExisting,
       InheritParent, ResolveForeignKeys, InsertNew, InsertConflict, WriteBackKeys, InsertJoinRows,
       JoinNotNull, Commit, DropTempTables, LoadAgain, StatementFails, Abort, Kill, Finished

LEMMA LastTableStep ==
  ASSUME TypeOK, \A l \in Loader : AtLastTable(l), [Next]_vars
  PROVE  \A l \in Loader : AtLastTable(l)'
<1> SUFFICES ASSUME NEW l \in Loader, phase'[l] = "commit" PROVE LastTable(l)'
  BY DEF AtLastTable
<1>1. single' = single
  BY CallsFixed
<1>2. CASE InsertJoinRows(l)
  BY <1>1, <1>2, StageJoined DEF AtLastTable
<1>3. ASSUME phase[l] = "commit", grp'[l] = grp[l], pos'[l] = pos[l] PROVE LastTable(l)'
  BY <1>1, <1>3 DEF AtLastTable, LastTable, Transactions
<1>4. ASSUME NEW m \in Loader, LoaderStep(m) \/ StatementFails(m), m # l PROVE LastTable(l)'
  BY <1>3, <1>4, OthersUntouched DEF Untouched
<1>5. ASSUME LoaderStep(l) \/ StatementFails(l), ~InsertJoinRows(l) PROVE FALSE
  BY <1>5
  DEF TypeOK, LoaderStep, InsertIntoTempTables, MergeIntoTargetTables, MarkExisting, InheritParent,
      ResolveForeignKeys, InsertNew, InsertConflict, WriteBackKeys, JoinNotNull, Commit,
      DropTempTables, LoadAgain, StatementFails, Abort, Step
<1>6. CASE Kill
  BY <1>6 DEF Kill
<1>7. CASE UNCHANGED vars
  BY <1>3, <1>7 DEF vars, whereVars
<1> QED
  BY <1>2, <1>4, <1>5, <1>6, <1>7 DEF Next, Finished
==============================================================================
