-------------------------------- MODULE Merge --------------------------------
(***************************************************************************)
(* Loading documents into shared target tables:                            *)
(* Document.insert_into_target_tables and the merge statements of reused   *)
(* tables, duplicated tables and relations.                                *)
(*                                                                         *)
(* Every loader is a process with a DataModel and temporary tables of its  *)
(* own (a unique temp_prefix).  It stages its document, then merges it     *)
(* table by table, one SQL statement per action, in one transaction or in  *)
(* one per transaction group.  The database is READ COMMITTED: a statement *)
(* sees the committed rows and those of its own transaction, an insert of  *)
(* a key that another open transaction inserted waits for it, and one of a *)
(* committed key fails.  The statements of one table's relations touch     *)
(* only the loader's temporary tables or insert disjoint join rows, so     *)
(* each group of them is one action.                                       *)
(*                                                                         *)
(* A record is written with its node; a reused node is its record hash.    *)
(***************************************************************************)
EXTENDS Schema, TableOrder

CONSTANTS
  Loader,
  Doc,              \* loader -> the nodes of its flattened document
  TempPk,           \* loader -> node -> temp_pk given by doc_tree_to_flat_data
  TableKeys,        \* the keys of data_model.tables, in the dict's order
  Disciplines,      \* how the callers may serialise: subset of {"phase", "merge", "none"}
  SingleChoices,    \* values of the single_transaction argument
  MaxFaults,        \* bound on the statement failures and kills of a behaviour
  MaxAttempts,      \* bound on the loads of a file by a caller
  NoLoader

ASSUME LoadersAssumption ==
  /\ NoLoader \notin Loader
  /\ Doc \in [Loader -> SUBSET Node]
  /\ \A l \in Loader : Closed(Doc[l])
  /\ TempPk \in [Loader -> [Node -> Nat]]
  /\ \A l \in Loader : \A m, n \in Doc[l] : Tb[m] = Tb[n] /\ TempPk[l][m] = TempPk[l][n] => m = n

ASSUME CallersAssumption ==
  /\ Disciplines \subseteq {"phase", "merge", "none"}
  /\ SingleChoices \subseteq BOOLEAN
  /\ MaxFaults \in Nat /\ MaxAttempts \in Nat

(***************************************************************************)
(* The plan of the merge is the one that _build_model computes for the     *)
(* tables: a table is a number, in the order of the type names.  A model   *)
(* whose tables depend on each other in a circle is not built.             *)
(***************************************************************************)
DataModel ==
  [tables |-> TableKeys, reused |-> Reused,
   fields |-> {[table |-> From[r], other |-> To[r]] : r \in Rel1 \union RelN}
                \union {[table |-> TableParent[t], other |-> t] : t \in Duplicated}]

ASSUME ModelAssumption ==
  /\ TableKeys \in Seq(Nat \ {0}) \ {<<>>}
  /\ IsInjective(TableKeys) /\ Range(TableKeys) = Table
  /\ Acyclic(DataModel)

OrderedTables == StaticOrder(DataModel)              \* fk_ordered_tables
TransactionGroups == TransactionGroupsOf(DataModel)

VARIABLES
  discipline, single,  \* chosen by the callers
  db, joins,           \* committed rows and join rows
  own, ownJoins,       \* rows inserted by the open transaction of a loader
  nextPk,              \* autoincrement of a table; a rollback does not take it back
  phase, grp, pos,     \* where a loader is: step, transaction, table of it
  holder,              \* owner of the callers' lock
  pk, exists,          \* columns pk_<table> and temp_exists of a staged row
  fkParent, fk,        \* columns fk_parent_<table> and <relation>_fk of a staged row
  outcome, attempt,    \* how the last attempt ended, attempts made
  inserted, existing,  \* counters of MergeStats
  faults

callVars == <<discipline, single>>
dbVars == <<db, joins, own, ownJoins, nextPk>>
tempVars == <<pk, exists, fkParent, fk>>
statVars == <<inserted, existing>>
whereVars == <<phase, grp, pos>>
endVars == <<holder, outcome, attempt, faults>>
vars == <<callVars, dbVars, tempVars, statVars, whereVars, endVars>>

NoPk == 0   \* SQL NULL in a key column; autoincrement starts at 1

StatementPhase == {"start", "resolve", "insert", "writeback", "join", "commit"}
Phase == {"idle", "staged", "cleanup", "done", "failed"} \union StatementPhase

(***************************************************************************)
(* The tables of the transaction of l, the table it merges, the staged     *)
(* rows of that table and those marked as not existing.                    *)
(***************************************************************************)
TransactionPerTable == [i \in DOMAIN OrderedTables |-> <<OrderedTables[i]>>]
TransactionPerGroup == TransactionGroups
Transactions == IF single THEN <<OrderedTables>> ELSE TransactionGroups
MergedTable(l) == Transactions[grp[l]][pos[l]]
Staged(l) == {n \in Doc[l] : Tb[n] = MergedTable(l)}
Fresh(l) == {n \in Staged(l) : ~exists[l][n]}
Visible(l) == db \union own[l]

Merging(l) == phase[l] \in StatementPhase

(***************************************************************************)
(* The transactions put the tables that a table reads before it: always    *)
(* for the single transaction, and for the groups of most models.          *)
(***************************************************************************)
ReadsFollowed == \A r \in Rel1 \union RelN : Earlier(Transactions, To[r], From[r])

(***************************************************************************)
(* insert_into_temp_tables: (re)create the temporary tables and stage the  *)
(* rows, with no target key yet and temp_exists at its default.  Dropped   *)
(* tables are cleared ones.                                                *)
(***************************************************************************)
NoKeys == [n \in Node |-> NoPk]
ClearTemp(S) ==
  /\ pk' = [l \in Loader |-> IF l \in S THEN NoKeys ELSE pk[l]]
  /\ exists' = [l \in Loader |-> IF l \in S THEN [n \in Node |-> FALSE] ELSE exists[l]]
  /\ fkParent' = [l \in Loader |-> IF l \in S THEN NoKeys ELSE fkParent[l]]
  /\ fk' = [l \in Loader |-> IF l \in S THEN [r \in Rel1 |-> NoKeys] ELSE fk[l]]

TakeNothing(l, which) == UNCHANGED holder
Take(l, which) ==
  IF discipline = which THEN holder = NoLoader /\ holder' = l ELSE UNCHANGED holder
KeepHolding(l) == UNCHANGED holder
Release(l) == holder' = IF holder = l THEN NoLoader ELSE holder

InsertIntoTempTables(l) ==
  /\ phase[l] = "idle"
  /\ Take(l, "phase")
  /\ ClearTemp({l})
  /\ phase' = [phase EXCEPT ![l] = "staged"]
  /\ attempt' = [attempt EXCEPT ![l] = @ + 1]
  /\ outcome' = [outcome EXCEPT ![l] = "none"]
  /\ UNCHANGED <<callVars, dbVars, statVars, grp, pos, faults>>

(***************************************************************************)
(* create_all_tables, then merge_into_target_tables up to the first        *)
(* statement of the first transaction.                                     *)
(***************************************************************************)
MergeIntoTargetTables(l) ==
  /\ phase[l] = "staged"
  /\ Take(l, "merge")
  /\ phase' = [phase EXCEPT ![l] = "start"]
  /\ grp' = [grp EXCEPT ![l] = 1]
  /\ pos' = [pos EXCEPT ![l] = 1]
  /\ inserted' = [inserted EXCEPT ![l] = 0]
  /\ existing' = [existing EXCEPT ![l] = 0]
  /\ UNCHANGED <<callVars, dbVars, tempVars, outcome, attempt, faults>>

Step(l, from, to) == phase[l] = from /\ phase' = [phase EXCEPT ![l] = to]

(***************************************************************************)
(* Reused table: mark the staged rows whose hash is in the target table.   *)
(***************************************************************************)
HashRows(l, n) == {r \in Visible(l) : r.node = n}

MarkExisting(l) ==
  /\ Step(l, "start", "resolve")
  /\ MergedTable(l) \in Reused
  /\ exists' = [exists EXCEPT ![l] =
       [n \in Node |-> exists[l][n] \/ (n \in Staged(l) /\ HashRows(l, n) # {})]]
  /\ UNCHANGED <<callVars, dbVars, pk, fkParent, fk, statVars, grp, pos, endVars>>

(***************************************************************************)
(* Duplicated table: take the foreign key and temp_exists of the staged    *)
(* parent row.                                                             *)
(***************************************************************************)
ParentIgnored(l, n) == FALSE
ParentExists(l, n) == exists[l][NodeParent[n]]

InheritParent(l) ==
  /\ Step(l, "start", "resolve")
  /\ MergedTable(l) \in Duplicated
  /\ fkParent' = [fkParent EXCEPT ![l] =
       [n \in Node |-> IF n \in Staged(l) THEN pk[l][NodeParent[n]] ELSE @[n]]]
  /\ exists' = [exists EXCEPT ![l] =
       [n \in Node |-> IF n \in Staged(l) THEN ParentExists(l, n) ELSE @[n]]]
  /\ UNCHANGED <<callVars, dbVars, pk, fk, statVars, grp, pos, endVars>>

(***************************************************************************)
(* DataModelRelation1: for every n-1 relation of the table, the staged key *)
(* column becomes the target key of the staged child, if it has one.       *)
(***************************************************************************)
KeyOfStagedChild(l, r, n) == TempPk[l][Child1[r][n]]
KeyOfChild(l, r, n) == pk[l][Child1[r][n]]
HasChild(l, r, n) == n \in Staged(l) /\ From[r] = Tb[n] /\ Child1[r][n] # NoNode

ResolveForeignKeys(l) ==
  /\ Step(l, "resolve", "insert")
  /\ fk' = [fk EXCEPT ![l] =
       [r \in Rel1 |-> [n \in Node |-> IF HasChild(l, r, n) THEN KeyOfChild(l, r, n) ELSE @[r][n]]]]
  /\ UNCHANGED <<callVars, dbVars, pk, exists, fkParent, statVars, grp, pos, endVars>>

(***************************************************************************)
(* Failure of a statement: the transaction is rolled back and the finally  *)
(* clause of insert_into_target_tables drops the temporary tables.         *)
(***************************************************************************)
LeaveMerge(l) == IF discipline = "merge" THEN Release(l) ELSE UNCHANGED holder

Abort(l, why) ==
  /\ own' = [own EXCEPT ![l] = {}]
  /\ ownJoins' = [ownJoins EXCEPT ![l] = {}]
  /\ phase' = [phase EXCEPT ![l] = "cleanup"]
  /\ outcome' = [outcome EXCEPT ![l] = why]
  /\ inserted' = [inserted EXCEPT ![l] = 0]
  /\ existing' = [existing EXCEPT ![l] = 0]
  /\ LeaveMerge(l)
  /\ UNCHANGED <<callVars, db, joins, nextPk, tempVars, grp, pos, attempt>>

(***************************************************************************)
(* Insert the rows not marked as existing.  The unique constraint on the   *)
(* hash of a reused table makes the statement wait for another open        *)
(* transaction that inserted one of the hashes, and fail when one is in    *)
(* the table.  The keys follow the table's autoincrement, in the order the *)
(* database scans the rows in.  A row of a duplicated table keeps its      *)
(* temp_pk when the table is referenced.                                   *)
(***************************************************************************)
NewRow(l, n, key) ==
  [node |-> n, pk |-> key, parent |-> fkParent[l][n],
   tmp |-> IF MergedTable(l) \in Duplicated /\ ReferencedAsFk(MergedTable(l))
           THEN TempPk[l][n] ELSE NoPk,
   fk |-> [r \in Rel1 |-> fk[l][r][n]],
   by |-> <<l, attempt[l]>>]

NoUniqueHash(l) == FALSE
UniqueHash(l) == MergedTable(l) \in Reused
TakenHashes(rows) == {r.node : r \in rows}

CountSwapped(l, count) ==
  IF MergedTable(l) \in Reused THEN count - Cardinality(Staged(l)) ELSE 0
CountEveryTable(l, count) == Cardinality(Staged(l)) - count
CountExisting(l, count) ==
  IF MergedTable(l) \in Reused THEN Cardinality(Staged(l)) - count ELSE 0

InsertNew(l) ==
  LET t == MergedTable(l)
      new == Fresh(l)
      count == Cardinality(new)
  IN
  /\ Step(l, "insert", "writeback")
  /\ UniqueHash(l) =>
       /\ new \intersect TakenHashes(Visible(l)) = {}
       /\ \A other \in Loader \ {l} : new \intersect TakenHashes(own[other]) = {}
  /\ \E key \in Injection(new, nextPk[t]..(nextPk[t] + count - 1)) :
       own' = [own EXCEPT ![l] = @ \union {NewRow(l, n, key[n]) : n \in new}]
  /\ nextPk' = [nextPk EXCEPT ![t] = @ + count]
  /\ inserted' = [inserted EXCEPT ![l] = @ + count]
  /\ existing' = [existing EXCEPT ![l] = @ + CountExisting(l, count)]
  /\ UNCHANGED <<callVars, db, joins, ownJoins, tempVars, grp, pos, endVars>>

InsertConflict(l) ==
  /\ phase[l] = "insert"
  /\ UniqueHash(l)
  /\ Fresh(l) \intersect TakenHashes(Visible(l)) # {}
  /\ Abort(l, "conflict")
  /\ UNCHANGED faults

(***************************************************************************)
(* Write the target keys back to the staged rows, existing ones included:  *)
(* by hash for a reused table; for a duplicated one that is referenced, by *)
(* parent and temp_pk, whichever load stored that temp_pk.                 *)
(***************************************************************************)
SiblingRows(l, n) ==
  {r \in Visible(l) : /\ Tb[r.node] = Tb[n]
                      /\ fkParent[l][n] # NoPk
                      /\ r.parent = fkParent[l][n]
                      /\ r.tmp = TempPk[l][n]}
InsertedRows(l, n) == {r \in own[l] : r.node = n}
TargetRows(l, n) == IF Tb[n] \in Reused THEN HashRows(l, n) ELSE SiblingRows(l, n)
WritesBackReused(t) == t \in Reused
WritesBack(t) == t \in Reused \/ ReferencedAsFk(t)

WriteBackKeys(l) ==
  /\ Step(l, "writeback", "join")
  /\ pk' = IF WritesBack(MergedTable(l))
           THEN [pk EXCEPT ![l] =
                  [n \in Node |-> IF n \in Staged(l) /\ TargetRows(l, n) # {}
                                  THEN (CHOOSE r \in TargetRows(l, n) : TRUE).pk
                                  ELSE @[n]]]
           ELSE pk
  /\ UNCHANGED <<callVars, dbVars, exists, fkParent, fk, statVars, grp, pos, endVars>>

(***************************************************************************)
(* DataModelRelationN: the join rows of the rows that did not exist, with  *)
(* the target keys of both ends; no row for an unknown own key, an error   *)
(* for an unknown key of the child (NOT NULL).                             *)
(***************************************************************************)
KnownSlots(l) == {s \in Slot : s.node \in Staged(l) /\ pk[l][s.node] # NoPk}
NewSlots(l) == {s \in Slot : s.node \in Fresh(l) /\ pk[l][s.node] # NoPk}
JoinRow(l, s) ==
  [rel |-> s.rel, self |-> pk[l][s.node], num |-> s.num, other |-> pk[l][SlotChild(s)],
   by |-> <<l, attempt[l]>>]
AnyChildKey(l) == TRUE
ChildKeysKnown(l) == \A s \in NewSlots(l) : pk[l][SlotChild(s)] # NoPk

(***************************************************************************)
(* Then the next table of the transaction, or its commit.                  *)
(***************************************************************************)
LastTable(l) == pos[l] = Len(Transactions[grp[l]])

InsertJoinRows(l) ==
  /\ phase[l] = "join"
  /\ ChildKeysKnown(l)
  /\ ownJoins' = [ownJoins EXCEPT ![l] = @ \union {JoinRow(l, s) : s \in NewSlots(l)}]
  /\ phase' = [phase EXCEPT ![l] = IF LastTable(l) THEN "commit" ELSE "start"]
  /\ pos' = [pos EXCEPT ![l] = IF LastTable(l) THEN @ ELSE @ + 1]
  /\ UNCHANGED <<callVars, db, joins, own, nextPk, tempVars, statVars, grp, endVars>>

JoinNotNull(l) ==
  /\ phase[l] = "join"
  /\ ~ChildKeysKnown(l)
  /\ Abort(l, "notnull")
  /\ UNCHANGED faults

Commit(l) ==
  /\ phase[l] = "commit"
  /\ db' = db \union own[l]
  /\ joins' = joins \union ownJoins[l]
  /\ own' = [own EXCEPT ![l] = {}]
  /\ ownJoins' = [ownJoins EXCEPT ![l] = {}]
  /\ IF grp[l] < Len(Transactions)
     THEN /\ phase' = [phase EXCEPT ![l] = "start"]
          /\ grp' = [grp EXCEPT ![l] = @ + 1]
          /\ pos' = [pos EXCEPT ![l] = 1]
          /\ UNCHANGED <<outcome, holder>>
     ELSE /\ phase' = [phase EXCEPT ![l] = "cleanup"]
          /\ outcome' = [outcome EXCEPT ![l] = "ok"]
          /\ LeaveMerge(l)
          /\ UNCHANGED <<grp, pos>>
  /\ UNCHANGED <<callVars, nextPk, tempVars, statVars, attempt, faults>>

DropTempTables(l) ==
  /\ phase[l] = "cleanup"
  /\ phase' = [phase EXCEPT ![l] = IF outcome[l] = "ok" THEN "done" ELSE "failed"]
  /\ ClearTemp({l})
  /\ Release(l)
  /\ UNCHANGED <<callVars, dbVars, statVars, grp, pos, outcome, attempt, faults>>

(***************************************************************************)
(* Faults.  Any statement may fail.  The callers' program may be killed:   *)
(* open transactions are rolled back, the lock is gone with the program,   *)
(* and the files not loaded are loaded again.  A caller whose load raised  *)
(* loads its file again.                                                   *)
(***************************************************************************)
StatementFails(l) ==
  /\ Merging(l) \/ phase[l] = "staged"
  /\ faults < MaxFaults
  /\ faults' = faults + 1
  /\ Abort(l, "error")

Kill ==
  /\ faults < MaxFaults
  /\ \E l \in Loader : phase[l] \notin {"idle", "done"}
  /\ faults' = faults + 1
  /\ own' = [l \in Loader |-> {}]
  /\ ownJoins' = [l \in Loader |-> {}]
  /\ holder' = NoLoader
  /\ phase' = [l \in Loader |-> IF phase[l] = "done" THEN "done" ELSE "idle"]
  /\ ClearTemp(Loader)
  /\ UNCHANGED <<callVars, db, joins, nextPk, statVars, grp, pos, outcome, attempt>>

LoadAgain(l) ==
  /\ attempt[l] < MaxAttempts
  /\ Step(l, "failed", "idle")
  /\ UNCHANGED <<callVars, dbVars, tempVars, statVars, grp, pos, endVars>>

(***************************************************************************)
(* The callers are gone.                                                   *)
(***************************************************************************)
Finished ==
  /\ \A l \in Loader : phase[l] = "done" \/ (phase[l] = "failed" /\ attempt[l] >= MaxAttempts)
  /\ UNCHANGED vars

Init ==
  /\ discipline \in Disciplines
  /\ single \in SingleChoices
  /\ db = {} /\ joins = {}
  /\ own = [l \in Loader |-> {}]
  /\ ownJoins = [l \in Loader |-> {}]
  /\ nextPk = [t \in Table |-> 1]
  /\ phase = [l \in Loader |-> "idle"]
  /\ grp = [l \in Loader |-> 1]
  /\ pos = [l \in Loader |-> 1]
  /\ holder = NoLoader
  /\ pk = [l \in Loader |-> [n \in Node |-> NoPk]]
  /\ exists = [l \in Loader |-> [n \in Node |-> FALSE]]
  /\ fkParent = [l \in Loader |-> [n \in Node |-> NoPk]]
  /\ fk = [l \in Loader |-> [r \in Rel1 |-> [n \in Node |-> NoPk]]]
  /\ outcome = [l \in Loader |-> "none"]
  /\ attempt = [l \in Loader |-> 0]
  /\ inserted = [l \in Loader |-> 0]
  /\ existing = [l \in Loader |-> 0]
  /\ faults = 0

LoaderStep(l) ==
  \/ InsertIntoTempTables(l)
  \/ MergeIntoTargetTables(l)
  \/ MarkExisting(l)
  \/ InheritParent(l)
  \/ ResolveForeignKeys(l)
  \/ InsertNew(l)
  \/ InsertConflict(l)
  \/ WriteBackKeys(l)
  \/ InsertJoinRows(l)
  \/ JoinNotNull(l)
  \/ Commit(l)
  \/ DropTempTables(l)
  \/ LoadAgain(l)

Next ==
  \/ \E l \in Loader : LoaderStep(l) \/ StatementFails(l)
  \/ Kill
  \/ Finished

(***************************************************************************)
(* A running process goes on, a caller whose load failed tries again, and  *)
(* the lock, once free for good, is taken by who waits for it.             *)
(***************************************************************************)
Fairness == \A l \in Loader : WF_vars(LoaderStep(l))

Spec == Init /\ [][Next]_vars
FairSpec == Spec /\ Fairness

-----------------------------------------------------------------------------
Key == Nat
Row == [node : Node, pk : Key, parent : Key, tmp : Nat, fk : [Rel1 -> Key], by : Loader \X Nat]
Join == [rel : RelN, self : Key, num : Nat, other : Key, by : Loader \X Nat]

Placed(l) == grp[l] \in DOMAIN Transactions /\ pos[l] \in DOMAIN Transactions[grp[l]]
AllPlaced == \A l \in Loader : Merging(l) => Placed(l)

(***************************************************************************)
(* Types of the state.                                                     *)
(***************************************************************************)
TypeOK ==
  /\ discipline \in Disciplines /\ single \in SingleChoices
  /\ db \subseteq Row /\ joins \subseteq Join
  /\ own \in [Loader -> SUBSET Row] /\ ownJoins \in [Loader -> SUBSET Join]
  /\ nextPk \in [Table -> Nat \ {0}]
  /\ phase \in [Loader -> Phase]
  /\ grp \in [Loader -> Nat] /\ pos \in [Loader -> Nat]
  /\ AllPlaced
  /\ holder \in Loader \union {NoLoader}
  /\ pk \in [Loader -> [Node -> Key]]
  /\ exists \in [Loader -> [Node -> BOOLEAN]]
  /\ fkParent \in [Loader -> [Node -> Key]]
  /\ fk \in [Loader -> [Rel1 -> [Node -> Key]]]
  /\ outcome \in [Loader -> {"none", "ok", "conflict", "notnull", "error"}]
  /\ attempt \in [Loader -> Nat]
  /\ inserted \in [Loader -> Nat] /\ existing \in [Loader -> Nat]
  /\ faults \in Nat

(***************************************************************************)
(* Every row, committed or not, references the rows its record refers to:  *)
(* its parent's and those of its n-1 children, and nothing where the       *)
(* record has no child.  The keys come from staged rows of other tables,   *)
(* filled by other statements of the merge, some from earlier loads.       *)
(***************************************************************************)
Refers(rows, n, key) == \E r \in rows : r.node = n /\ r.pk = key

RowFaithful(rows, r) ==
  /\ r.node \in DuplicatedNode => Refers(rows, NodeParent[r.node], r.parent)
  /\ \A rel \in Rel1 : From[rel] = Tb[r.node] =>
       IF Child1[rel][r.node] = NoNode THEN r.fk[rel] = NoPk
       ELSE Refers(rows, Child1[rel][r.node], r.fk[rel])

KeysFaithful ==
  /\ \A r \in db : RowFaithful(db, r)
  /\ \A l \in Loader : \A r \in own[l] : RowFaithful(Visible(l), r)

(***************************************************************************)
(* Loads of documents that share records, however they interleave, fail or *)
(* are repeated, store every record once: not only the reused ones, which  *)
(* have a unique hash, but the duplicated ones, which nothing in the       *)
(* database keeps apart.                                                   *)
(***************************************************************************)
OneRowPerRecord == \A r, q \in db : r.node = q.node => r = q

(***************************************************************************)
(* A committed row has all its children: one join row per child of a join  *)
(* relation, to the child's row, and the rows of its duplicated children.  *)
(* So a failure or a kill between two transactions leaves whole subtrees   *)
(* only, and marking a record as existing may skip everything below it.    *)
(***************************************************************************)
JoinOf(j, r, s) == j.rel = s.rel /\ j.self = r.pk /\ j.num = s.num

RowComplete(r) ==
  /\ \A s \in Slot : s.node = r.node =>
       \E j \in joins : JoinOf(j, r, s) /\ Refers(db, SlotChild(s), j.other)
  /\ \A n \in DuplicatedNode : NodeParent[n] = r.node =>
       \E d \in db : d.node = n /\ d.parent = r.pk

CommittedComplete == \A r \in db : RowComplete(r)

(***************************************************************************)
(* No join row but those, and none twice: a record that was in the target  *)
(* table gets no second set of join rows from a later load, although its   *)
(* staged join rows are there and its target key is known.                 *)
(***************************************************************************)
JoinsExact ==
  /\ \A j \in joins : \E r \in db, s \in Slot : s.node = r.node /\ JoinOf(j, r, s)
  /\ \A i, j \in joins : i.rel = j.rel /\ i.self = j.self /\ i.num = j.num => i = j

(***************************************************************************)
(* Under a lock around the whole load or around the merge, the mark of the *)
(* staged rows is still right when they are inserted: no loader meets a    *)
(* unique violation.                                                       *)
(***************************************************************************)
NoConflict == discipline # "none" => \A l \in Loader : outcome[l] # "conflict"

(***************************************************************************)
(* However the callers synchronise, the key of the child of a join row is  *)
(* known when the join row is inserted, whichever load stored the child.   *)
(***************************************************************************)
NoMissingKey == \A l \in Loader : outcome[l] # "notnull"

(***************************************************************************)
(* MergeStats: inserted counts the rows this attempt wrote, existing the   *)
(* records of reused tables that others wrote.                             *)
(***************************************************************************)
WrittenBy(l) == {r \in db : r.by = <<l, attempt[l]>>}
StatsMatchStore ==
  \A l \in Loader : outcome[l] = "ok" =>
    /\ inserted[l] = Cardinality(WrittenBy(l))
    /\ existing[l] = Cardinality((Doc[l] \intersect ReusedNode) \ {r.node : r \in WrittenBy(l)})

(***************************************************************************)
(* MergeStats.existing as documented: the rows of the document that were   *)
(* not written, "or because a parent record was already existing for       *)
(* duplicated tables" included.                                            *)
(***************************************************************************)
StatsCoverDocument ==
  \A l \in Loader : outcome[l] = "ok" => inserted[l] + existing[l] = Cardinality(Doc[l])

(***************************************************************************)
(* Merging implements the store of Store.tla: what is committed is the     *)
(* store, and a load that returned is loaded.                              *)
(***************************************************************************)
Target == INSTANCE Store WITH
  atomic <- single,
  stored <- {r.node : r \in db},
  loaded <- {l \in Loader : phase[l] = "done"}

ImplementsStore == Target!Spec

(***************************************************************************)
(* Every file is loaded in the end.                                        *)
(***************************************************************************)
EventuallyLoaded == \A l \in Loader : <>(phase[l] = "done")
=============================================================================
