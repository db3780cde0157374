---------------------------- MODULE StoreProofs -----------------------------
(***************************************************************************)
(* What the target tables hold, for any data model, documents, loaders,    *)
(* failures and kills, with or without a lock: one row per record, whole   *)
(* subtrees, and one join row per child.  What the rows refer to, and that *)
(* loading is the store of Store.tla, for any data model whose             *)
(* transactions read the tables merged before them: any loaded in a single *)
(* transaction.  And what MergeStats counts.                               *)
(***************************************************************************)
EXTENDS MergeProofs

Stored(rows, n) == \E r \in rows : r.node = n

(***************************************************************************)
(* The marks of the staged rows.  Only what is committed is marked as      *)
(* existing, and a duplicated row goes with its parent.  The temporary     *)
(* tables say nothing once the merge has failed.                           *)
(***************************************************************************)
MarkRight(l, n) ==
  /\ Stage(l)[Tb[n]] < 1 => ~exists[l][n]
  /\ exists[l][n] => Stored(db, n)
  /\ n \in DuplicatedNode /\ Stage(l)[Tb[n]] >= 1 =>
       (exists[l][n] <=> exists[l][NodeParent[n]]) /\ fkParent[l][n] = pk[l][NodeParent[n]]

(***************************************************************************)
(* A record whose table is inserted is in the target table: by this        *)
(* transaction, by an earlier one of the merge, or it was there before.    *)
(***************************************************************************)
PresentRight(l, n) ==
  Stage(l)[Tb[n]] >= 3 /\ ~exists[l][n] =>
    Stored(own[l], n) \/ (Stored(db, n) /\ Tb[n] \notin Group(l))

(***************************************************************************)
(* The staged key of a reused record leads to its row, whoever inserted    *)
(* it; nothing is said of the duplicated records that were there before,   *)
(* whose key is looked for by a temp_pk of another load.                   *)
(***************************************************************************)
KeyRight(l, n) ==
  /\ Stage(l)[Tb[n]] < 4 => pk[l][n] = NoPk
  /\ n \in ReusedNode /\ pk[l][n] # NoPk => Refers(Visible(l), n, pk[l][n])
  /\ n \in ReusedNode /\ Stage(l)[Tb[n]] >= 4 => pk[l][n] # NoPk

StagedRight(l) ==
  phase[l] # "cleanup" =>
    \A n \in Doc[l] : MarkRight(l, n) /\ PresentRight(l, n) /\ KeyRight(l, n)

(***************************************************************************)
(* The rows of the open transaction are those of the new staged records of *)
(* its tables, with their parent's row among them, and their key is the    *)
(* one written back.                                                       *)
(***************************************************************************)
OwnRow(l, r) ==
  /\ r.node \in Doc[l] /\ Stage(l)[Tb[r.node]] >= 3 /\ Tb[r.node] \in Group(l)
  /\ ~exists[l][r.node]
  /\ r.by = <<l, attempt[l]>>
  /\ r.parent = fkParent[l][r.node]
  /\ \A rel \in Rel1 : r.fk[rel] = fk[l][rel][r.node]
  /\ Tb[r.node] \in Duplicated /\ ReferencedAsFk(Tb[r.node]) => r.tmp = TempPk[l][r.node]
  /\ Tb[r.node] \in Duplicated => Refers(own[l], NodeParent[r.node], r.parent)
  /\ Stage(l)[Tb[r.node]] >= 4 /\ WritesBack(Tb[r.node]) => pk[l][r.node] = r.pk

OwnRight(l) == \A r \in own[l] : OwnRow(l, r)

(***************************************************************************)
(* The join rows of the open transaction are those of its rows.            *)
(***************************************************************************)
JoinsSound(l) ==
  \A j \in ownJoins[l] : \E r \in own[l], s \in Slot :
    s.node = r.node /\ JoinOf(j, r, s) /\ Stage(l)[Tb[r.node]] = 5
JoinsOnce(l) ==
  \A i, j \in ownJoins[l] : i.rel = j.rel /\ i.self = j.self /\ i.num = j.num => i = j
JoinsWhole(l) ==
  \A r \in own[l], s \in Slot : s.node = r.node /\ Stage(l)[Tb[r.node]] = 5 =>
    \E j \in ownJoins[l] : JoinOf(j, r, s) /\ Refers(Visible(l), SlotChild(s), j.other)

LoaderInv(l) ==
  StagedRight(l) /\ OwnRight(l) /\ JoinsSound(l) /\ JoinsOnce(l) /\ JoinsWhole(l)

(***************************************************************************)
(* All rows, committed or not: one per record, and one per key of a table. *)
(***************************************************************************)
Rows == db \union UNION {own[l] : l \in Loader}

OneRow == \A r, q \in Rows : r.node = q.node => r = q
OneKey == \A r, q \in Rows : Tb[r.node] = Tb[q.node] /\ r.pk = q.pk => r = q
KeysUsed == \A r \in Rows : 1 <= r.pk /\ r.pk < nextPk[Tb[r.node]]
OwnNew == \A l \in Loader : own[l] \intersect db = {}
ParentsStored == \A r \in db : r.node \in DuplicatedNode => Refers(db, NodeParent[r.node], r.parent)

StoreInv ==
  /\ OneRow /\ OneKey /\ KeysUsed /\ OwnNew
  /\ ParentsStored /\ CommittedComplete /\ JoinsExact

RowInv ==
  /\ TypeOK
  /\ \A l \in Loader : AtLastTable(l) /\ LoaderInv(l)
  /\ StoreInv

-----------------------------------------------------------------------------
(***************************************************************************)
(* The records of a document have their parents and children with them.    *)
(***************************************************************************)
LEMMA DocClosed ==
  ASSUME NEW l \in Loader, NEW n \in Doc[l]
  PROVE  /\ n \in Node /\ Tb[n] \in Table
         /\ n \in ReusedNode <=> Tb[n] \in Reused
         /\ n \in DuplicatedNode <=> Tb[n] \in Duplicated
         /\ n \in DuplicatedNode => /\ NodeParent[n] \in Doc[l]
                                    /\ Tb[NodeParent[n]] = TableParent[Tb[n]]
         /\ \A r \in Rel1 : Tb[n] = From[r] => Child1[r][n] \in Doc[l] \union {NoNode}
         /\ \A s \in Slot : s.node = n => SlotChild(s) \in Doc[l]
         /\ \A m \in DuplicatedNode : NodeParent[m] = n => m \in Doc[l]
<1>1. n \in Node /\ Tb[n] \in Table /\ Closed(Doc[l])
  BY LoadersAssumption, NodesAssumption
<1>2. /\ n \in ReusedNode <=> Tb[n] \in Reused
      /\ n \in DuplicatedNode <=> Tb[n] \in Duplicated
  BY <1>1 DEF ReusedNode, DuplicatedNode, Duplicated
<1>3. n \in DuplicatedNode => NodeParent[n] \in Doc[l] /\ Tb[NodeParent[n]] = TableParent[Tb[n]]
  BY <1>1, NodesAssumption DEF Closed, DuplicatedNode
<1> QED
  BY <1>1, <1>2, <1>3 DEF Closed

(***************************************************************************)
(* The tables whose keys are asked for are those that write them back.     *)
(***************************************************************************)
LEMMA KeysAsked ==
  /\ \A t \in Duplicated : WritesBack(TableParent[t])
  /\ \A s \in Slot : WritesBack(Tb[s.node]) /\ Tb[SlotChild(s)] \in Reused /\ Tb[SlotChild(s)] = To[s.rel]
<1>1. \A t \in Duplicated : WritesBack(TableParent[t])
  BY DEF WritesBack, ReferencedAsFk
<1>2. ASSUME NEW s \in Slot
      PROVE  WritesBack(Tb[s.node]) /\ Tb[SlotChild(s)] \in Reused /\ Tb[SlotChild(s)] = To[s.rel]
  <2>1. s.rel \in RelN /\ Tb[s.node] = From[s.rel]
    BY <1>2, SlotTyped
  <2>2. WritesBack(Tb[s.node])
    BY <2>1 DEF WritesBack, ReferencedAsFk
  <2>3. Tb[SlotChild(s)] = To[s.rel]
    <3>1. PICK r \in RelN : s \in UNION {SlotsOf(r, n) : n \in NodesOf(From[r])}
      BY DEF Slot
    <3>2. PICK n \in NodesOf(From[r]) : s \in SlotsOf(r, n)
      BY <3>1
    <3>3. PICK i \in 1..Len(ChildN[r][n]) : s = [rel |-> r, node |-> n, num |-> i]
      BY <3>2 DEF SlotsOf
    <3>4. ChildN[r][n] \in Seq(NodesOf(To[r]))
      BY ChildrenAssumption
    <3>5. ChildN[r][n][i] \in NodesOf(To[r])
      BY <3>4
    <3> QED
      BY <3>3, <3>5 DEF SlotChild, NodesOf
  <2> QED
    BY <2>1, <2>2, <2>3, TablesAssumption
<1> QED
  BY <1>1, <1>2

LEMMA RowsTyped ==
  ASSUME TypeOK
  PROVE  /\ Rows \subseteq Row
         /\ \A l \in Loader : own[l] \subseteq Rows /\ Visible(l) \subseteq Rows
         /\ db \subseteq Rows
         /\ \A r \in Rows : r.node \in Node /\ r.pk \in Nat /\ r.parent \in Nat
<1>1. Rows \subseteq Row
  BY DEF TypeOK, Rows
<1>2. \A r \in Row : r.node \in Node /\ r.pk \in Nat /\ r.parent \in Nat
  BY DEF Row, Key
<1> QED
  BY <1>1, <1>2 DEF Rows, Visible

(***************************************************************************)
(* Nothing to prove of a loader that is not merging: it has no rows, and   *)
(* its temporary tables are cleared or the merge failed.                   *)
(***************************************************************************)
LEMMA NothingOwn ==
  ASSUME NEW l \in Loader, LoaderInv(l), \A t \in Table : Stage(l)[t] = 0
  PROVE  own[l] = {} /\ ownJoins[l] = {}
<1>1. own[l] = {}
  <2> SUFFICES ASSUME NEW r \in own[l] PROVE FALSE
    OBVIOUS
  <2>1. OwnRow(l, r)
    BY DEF LoaderInv, OwnRight
  <2>2. r.node \in Doc[l] /\ Stage(l)[Tb[r.node]] >= 3
    BY <2>1 DEF OwnRow
  <2> QED
    BY <2>2, DocClosed
<1> QED
  BY <1>1 DEF LoaderInv, JoinsSound

LEMMA LoaderReset ==
  ASSUME NEW l \in Loader, ~Merging(l)', own'[l] = {}, ownJoins'[l] = {},
         \/ phase'[l] = "cleanup"
         \/ \A n \in Node : pk'[l][n] = NoPk /\ ~exists'[l][n]
  PROVE  LoaderInv(l)'
<1>1. \A t \in Table : Stage(l)'[t] = 0
  BY DEF Stage
<1>2. StagedRight(l)'
  BY <1>1, DocClosed DEF StagedRight, MarkRight, PresentRight, KeyRight
<1> QED
  BY <1>2 DEF LoaderInv, OwnRight, JoinsSound, JoinsOnce, JoinsWhole

LEMMA LoaderKept ==
  ASSUME TypeOK, NEW l \in Loader, LoaderInv(l), Untouched(l), single' = single, db \subseteq db'
  PROVE  LoaderInv(l)'
<1>1. Stage(l)' = Stage(l) /\ Group(l)' = Group(l)
  BY StageKept DEF Untouched
<1>2. \A n : Stored(db, n) => Stored(db, n)'
  BY DEF Stored
<1>3. Visible(l) \subseteq Visible(l)'
  BY DEF Visible, Untouched
<1>4. \A n, key : Refers(Visible(l), n, key) => Refers(Visible(l), n, key)'
  BY <1>3 DEF Refers
<1>5. StagedRight(l)'
  BY <1>1, <1>2, <1>4 DEF Untouched, LoaderInv, StagedRight, MarkRight, PresentRight, KeyRight, Stored
<1>6. OwnRight(l)'
  BY <1>1 DEF Untouched, LoaderInv, OwnRight, OwnRow, Refers
<1>7. JoinsSound(l)' /\ JoinsOnce(l)'
  BY <1>1 DEF Untouched, LoaderInv, JoinsSound, JoinsOnce, JoinOf
<1>8. JoinsWhole(l)'
  <2> SUFFICES ASSUME NEW r \in own[l], NEW s \in Slot, s.node = r.node, Stage(l)[Tb[r.node]] = 5
               PROVE  \E j \in ownJoins[l] :
                        JoinOf(j, r, s) /\ Refers(Visible(l), SlotChild(s), j.other)'
    BY <1>1 DEF Untouched, JoinsWhole, JoinOf, Refers
  <2> QED
    BY <1>4 DEF LoaderInv, JoinsWhole
<1> QED
  BY <1>5, <1>6, <1>7, <1>8 DEF LoaderInv

-----------------------------------------------------------------------------
(***************************************************************************)
(* The parent of a staged duplicated row was merged before, in the same    *)
(* transaction; if the row is new, so is its parent, with its key.         *)
(***************************************************************************)
LEMMA ParentMerged ==
  ASSUME TypeOK, NEW l \in Loader, Merging(l), phase[l] # "commit", NEW n \in Doc[l],
         Tb[n] \in Duplicated, Stage(l)[Tb[n]] >= 1 \/ n \in Staged(l)
  PROVE  /\ NodeParent[n] \in Doc[l] /\ Stage(l)[Tb[NodeParent[n]]] = 5
         /\ Tb[NodeParent[n]] # MergedTable(l)
         /\ Tb[n] \in Group(l) => Tb[NodeParent[n]] \in Group(l)
<1>1. /\ NodeParent[n] \in Doc[l] /\ Stage(l)[Tb[NodeParent[n]]] = 5
      /\ Tb[n] \in Group(l) => Tb[NodeParent[n]] \in Group(l)
  BY DocClosed, ParentDone DEF Staged
<1>2. Stage(l)[MergedTable(l)] # 5
  BY MergedStage DEF Level
<1> QED
  BY <1>1, <1>2

LEMMA ParentRow ==
  ASSUME TypeOK, NEW l \in Loader, LoaderInv(l), Merging(l), NEW n \in Doc[l],
         Tb[n] \in Duplicated, Stage(l)[Tb[n]] >= 1, ~exists[l][n], Tb[n] \in Group(l)
  PROVE  \E q \in own[l] : q.node = NodeParent[n] /\ q.pk = fkParent[l][n]
<1> DEFINE p == NodeParent[n]
<1>1. /\ p \in Doc[l] /\ Tb[p] = TableParent[Tb[n]] /\ Stage(l)[Tb[p]] = 5 /\ Tb[p] \in Group(l)
      /\ n \in DuplicatedNode
  BY DocClosed, ParentDone
<1>2. phase[l] # "cleanup"
  BY DEF Merging, StatementPhase
<1>3. ~exists[l][p] /\ fkParent[l][n] = pk[l][p]
  BY <1>1, <1>2 DEF LoaderInv, StagedRight, MarkRight
<1>4. Stored(own[l], p)
  BY <1>1, <1>2, <1>3 DEF LoaderInv, StagedRight, PresentRight
<1>5. PICK q \in own[l] : q.node = p
  BY <1>4 DEF Stored
<1>6. q.pk = pk[l][p]
  BY <1>1, <1>5, KeysAsked DEF LoaderInv, OwnRight, OwnRow
<1> QED
  BY <1>3, <1>5, <1>6

(***************************************************************************)
(* A statement that brings no table to stage 5 or away from it leaves what *)
(* is known of the join rows.                                              *)
(***************************************************************************)
LEMMA JoinsKept ==
  ASSUME NEW l \in Loader, LoaderInv(l), own[l] \subseteq own'[l], db \subseteq db',
         ownJoins'[l] = ownJoins[l],
         \A r \in own[l] : Stage(l)[Tb[r.node]] = 5 => Stage(l)'[Tb[r.node]] = 5,
         \A r \in own'[l] : Stage(l)'[Tb[r.node]] = 5 => r \in own[l] /\ Stage(l)[Tb[r.node]] = 5
  PROVE  JoinsSound(l)' /\ JoinsOnce(l)' /\ JoinsWhole(l)'
<1>1. JoinsSound(l)' /\ JoinsOnce(l)'
  BY DEF LoaderInv, JoinsSound, JoinsOnce, JoinOf
<1>2. \A n, key : Refers(Visible(l), n, key) => Refers(Visible(l), n, key)'
  BY DEF Refers, Visible
<1>3. ASSUME NEW r \in own'[l], NEW s \in Slot, s.node = r.node, Stage(l)'[Tb[r.node]] = 5
      PROVE  \E j \in ownJoins'[l] :
               JoinOf(j, r, s) /\ Refers(Visible(l), SlotChild(s), j.other)'
  BY <1>2, <1>3 DEF LoaderInv, JoinsWhole
<1> QED
  BY <1>1, <1>3 DEF JoinsWhole, JoinOf, Refers

LEMMA MarkStep ==
  ASSUME RowInv, NEW l \in Loader, MarkExisting(l), single' = single
  PROVE  LoaderInv(l)'
<1> DEFINE T == MergedTable(l)
<1>1. /\ TypeOK /\ LoaderInv(l) /\ Merging(l) /\ phase[l] = "start" /\ phase'[l] = "resolve"
      /\ Merging(l)'
  BY DEF RowInv, MarkExisting, Step, Merging, StatementPhase, TypeOK
<1>2. /\ db' = db /\ own' = own /\ ownJoins' = ownJoins /\ pk' = pk /\ fkParent' = fkParent
      /\ fk' = fk /\ attempt' = attempt /\ grp' = grp /\ pos' = pos
      /\ \A n \in Node : exists'[l][n] = (exists[l][n] \/ (n \in Staged(l) /\ HashRows(l, n) # {}))
  BY <1>1 DEF MarkExisting, dbVars, endVars, TypeOK
<1>3. T \in Table /\ T \in Reused /\ Stage(l)[T] = 0 /\ Stage(l) \in [Table -> 0..5]
  BY <1>1, MergedStage, StageTyped DEF Level, MarkExisting
<1>4. Stage(l)' = [Stage(l) EXCEPT ![T] = 1] /\ Group(l)' = Group(l)
  BY <1>1, <1>2, StageNext DEF Level
<1> HIDE DEF T
<1>5. \A t \in Table : t # T => Stage(l)'[t] = Stage(l)[t]
  BY <1>3, <1>4
<1>6. Stage(l)'[T] = 1
  BY <1>3, <1>4
<1>7. \A r \in own[l] : OwnRow(l, r) /\ Tb[r.node] # T /\ r.node \in Doc[l]
  BY <1>1, <1>3 DEF LoaderInv, OwnRight, OwnRow
<1>8. ASSUME NEW n \in Doc[l] PROVE MarkRight(l, n)' /\ PresentRight(l, n)' /\ KeyRight(l, n)'
  <2>1. /\ n \in Node /\ Tb[n] \in Table
        /\ MarkRight(l, n) /\ PresentRight(l, n) /\ KeyRight(l, n)
    BY <1>1, DocClosed DEF LoaderInv, StagedRight
  <2>2. CASE Tb[n] = T
    <3>1. ~exists[l][n] /\ Tb[n] \notin Duplicated
      BY <1>3, <2>1, <2>2 DEF MarkRight, Duplicated
    <3>2. exists'[l][n] => Stored(db, n)
      BY <1>2, <1>7, <2>1, <2>2, <3>1 DEF HashRows, Visible, Stored
    <3>3. MarkRight(l, n)'
      BY <1>2, <1>6, <2>2, <3>1, <3>2, DocClosed DEF MarkRight, Stored
    <3> QED
      BY <1>2, <1>3, <1>6, <2>1, <2>2, <3>3 DEF PresentRight, KeyRight, Refers, Visible
  <2>3. CASE Tb[n] # T
    <3>1. Stage(l)'[Tb[n]] = Stage(l)[Tb[n]] /\ (exists'[l][n] <=> exists[l][n])
      BY <1>2, <1>5, <2>1, <2>3 DEF Staged, T
    <3>2. ASSUME n \in DuplicatedNode, Stage(l)[Tb[n]] >= 1
          PROVE  exists'[l][NodeParent[n]] <=> exists[l][NodeParent[n]]
      <4>1. NodeParent[n] \in Node /\ Tb[NodeParent[n]] # T
        BY <1>1, <3>2, DocClosed, ParentMerged DEF T
      <4> QED
        BY <1>2, <4>1 DEF Staged, T
    <3>3. MarkRight(l, n)'
      BY <1>2, <2>1, <3>1, <3>2 DEF MarkRight, Stored
    <3> QED
      BY <1>2, <1>4, <2>1, <3>1, <3>3 DEF PresentRight, KeyRight, Refers, Visible, Stored
  <2> QED
    BY <2>2, <2>3
<1>9. OwnRight(l)'
  <2>1. \A r \in own[l] : Stage(l)'[Tb[r.node]] = Stage(l)[Tb[r.node]] /\ ~exists'[l][r.node]
    BY <1>2, <1>5, <1>7, DocClosed DEF Staged, T, OwnRow
  <2> QED
    BY <1>2, <1>4, <1>7, <2>1 DEF OwnRight, OwnRow, Refers
<1>10. JoinsSound(l)' /\ JoinsOnce(l)' /\ JoinsWhole(l)'
  BY <1>1, <1>2, <1>5, <1>7, DocClosed, JoinsKept
<1> QED
  BY <1>8, <1>9, <1>10 DEF LoaderInv, StagedRight

LEMMA InheritStep ==
  ASSUME RowInv, NEW l \in Loader, InheritParent(l), single' = single
  PROVE  LoaderInv(l)'
<1> DEFINE T == MergedTable(l)
<1>1. /\ TypeOK /\ LoaderInv(l) /\ Merging(l) /\ phase[l] = "start" /\ phase'[l] = "resolve"
      /\ Merging(l)' /\ CommittedComplete
  BY DEF RowInv, StoreInv, InheritParent, Step, Merging, StatementPhase, TypeOK
<1>2. /\ db' = db /\ own' = own /\ ownJoins' = ownJoins /\ pk' = pk
      /\ fk' = fk /\ attempt' = attempt /\ grp' = grp /\ pos' = pos
      /\ \A n \in Node : n \in Staged(l) => /\ exists'[l][n] = exists[l][NodeParent[n]]
                                            /\ fkParent'[l][n] = pk[l][NodeParent[n]]
      /\ \A n \in Node : n \notin Staged(l) => /\ exists'[l][n] = exists[l][n]
                                               /\ fkParent'[l][n] = fkParent[l][n]
  BY <1>1 DEF InheritParent, ParentExists, dbVars, endVars, TypeOK
<1>3. T \in Table /\ T \in Duplicated /\ Stage(l)[T] = 0 /\ Stage(l) \in [Table -> 0..5]
  BY <1>1, MergedStage, StageTyped DEF Level, InheritParent
<1>4. Stage(l)' = [Stage(l) EXCEPT ![T] = 1] /\ Group(l)' = Group(l)
  BY <1>1, <1>2, StageNext DEF Level
<1> HIDE DEF T
<1>5. \A t \in Table : t # T => Stage(l)'[t] = Stage(l)[t]
  BY <1>3, <1>4
<1>6. Stage(l)'[T] = 1
  BY <1>3, <1>4
<1>7. \A r \in own[l] : OwnRow(l, r) /\ Tb[r.node] # T /\ r.node \in Doc[l]
  BY <1>1, <1>3 DEF LoaderInv, OwnRight, OwnRow
<1>8. ASSUME NEW n \in Doc[l] PROVE MarkRight(l, n)' /\ PresentRight(l, n)' /\ KeyRight(l, n)'
  <2>1. /\ n \in Node /\ Tb[n] \in Table
        /\ MarkRight(l, n) /\ PresentRight(l, n) /\ KeyRight(l, n)
    BY <1>1, DocClosed DEF LoaderInv, StagedRight
  <2>2. ASSUME Tb[n] \in Duplicated, Stage(l)[Tb[n]] >= 1 \/ n \in Staged(l)
        PROVE  /\ NodeParent[n] \in Doc[l] /\ Tb[NodeParent[n]] # T
               /\ exists'[l][NodeParent[n]] <=> exists[l][NodeParent[n]]
    <3>1. NodeParent[n] \in Doc[l] /\ Tb[NodeParent[n]] # T
      BY <1>1, <2>2, ParentMerged DEF T
    <3> QED
      BY <1>2, <3>1, DocClosed DEF Staged, T
  <2>3. CASE Tb[n] = T
    <3>1. n \in Staged(l) /\ n \in DuplicatedNode
      BY <1>3, <2>3, DocClosed DEF Staged, T
    <3>2. MarkRight(l, NodeParent[n])
      BY <1>1, <1>3, <2>2, <2>3, <3>1 DEF LoaderInv, StagedRight
    <3>3. exists'[l][n] => Stored(db, n)
      <4> SUFFICES ASSUME exists'[l][n] PROVE Stored(db, n)
        OBVIOUS
      <4>1. Stored(db, NodeParent[n])
        BY <1>2, <2>1, <3>1, <3>2 DEF MarkRight
      <4>2. PICK r \in db : r.node = NodeParent[n]
        BY <4>1 DEF Stored
      <4>3. \E d \in db : d.node = n
        BY <1>1, <3>1, <4>2 DEF CommittedComplete, RowComplete
      <4> QED
        BY <4>3 DEF Stored
    <3>4. MarkRight(l, n)'
      BY <1>2, <1>3, <1>6, <2>1, <2>2, <2>3, <3>1, <3>3 DEF MarkRight, Stored
    <3> QED
      BY <1>2, <1>3, <1>6, <2>1, <2>3, <3>4 DEF PresentRight, KeyRight, Refers, Visible
  <2>4. CASE Tb[n] # T
    <3>1. /\ Stage(l)'[Tb[n]] = Stage(l)[Tb[n]] /\ (exists'[l][n] <=> exists[l][n])
          /\ fkParent'[l][n] = fkParent[l][n]
      BY <1>2, <1>5, <2>1, <2>4 DEF Staged, T
    <3>2. MarkRight(l, n)'
      BY <1>2, <2>1, <2>2, <3>1, DocClosed DEF MarkRight, Stored
    <3> QED
      BY <1>2, <1>4, <2>1, <3>1, <3>2 DEF PresentRight, KeyRight, Refers, Visible, Stored
  <2> QED
    BY <2>3, <2>4
<1>9. OwnRight(l)'
  <2>1. \A r \in own[l] : /\ Stage(l)'[Tb[r.node]] = Stage(l)[Tb[r.node]]
                          /\ ~exists'[l][r.node] /\ fkParent'[l][r.node] = fkParent[l][r.node]
    BY <1>2, <1>5, <1>7, DocClosed DEF Staged, T, OwnRow
  <2> QED
    BY <1>2, <1>4, <1>7, <2>1 DEF OwnRight, OwnRow, Refers
<1>10. JoinsSound(l)' /\ JoinsOnce(l)' /\ JoinsWhole(l)'
  BY <1>1, <1>2, <1>5, <1>7, DocClosed, JoinsKept
<1> QED
  BY <1>8, <1>9, <1>10 DEF LoaderInv, StagedRight

LEMMA ResolveStep ==
  ASSUME RowInv, NEW l \in Loader, ResolveForeignKeys(l), single' = single
  PROVE  LoaderInv(l)'
<1> DEFINE T == MergedTable(l)
<1>1. /\ TypeOK /\ LoaderInv(l) /\ Merging(l) /\ phase[l] = "resolve" /\ phase'[l] = "insert"
      /\ Merging(l)'
  BY DEF RowInv, ResolveForeignKeys, Step, Merging, StatementPhase, TypeOK
<1>2. /\ db' = db /\ own' = own /\ ownJoins' = ownJoins /\ pk' = pk
      /\ exists' = exists /\ fkParent' = fkParent /\ attempt' = attempt /\ grp' = grp /\ pos' = pos
      /\ \A rel \in Rel1, n \in Node : n \notin Staged(l) => fk'[l][rel][n] = fk[l][rel][n]
  BY <1>1 DEF ResolveForeignKeys, HasChild, dbVars, endVars, TypeOK
<1>3. T \in Table /\ Stage(l)[T] = 1 /\ Stage(l) \in [Table -> 0..5]
  BY <1>1, MergedStage, StageTyped DEF Level
<1>4. Stage(l)' = [Stage(l) EXCEPT ![T] = 2] /\ Group(l)' = Group(l)
  BY <1>1, <1>2, StageNext DEF Level
<1> HIDE DEF T
<1>5. \A t \in Table : t # T => Stage(l)'[t] = Stage(l)[t]
  BY <1>3, <1>4
<1>6. Stage(l)'[T] = 2
  BY <1>3, <1>4
<1>7. \A r \in own[l] : OwnRow(l, r) /\ Tb[r.node] # T /\ r.node \in Doc[l]
  BY <1>1, <1>3 DEF LoaderInv, OwnRight, OwnRow
<1>8. ASSUME NEW n \in Doc[l] PROVE MarkRight(l, n)' /\ PresentRight(l, n)' /\ KeyRight(l, n)'
  <2>1. /\ Tb[n] \in Table
        /\ MarkRight(l, n) /\ PresentRight(l, n) /\ KeyRight(l, n)
    BY <1>1, DocClosed DEF LoaderInv, StagedRight
  <2>2. /\ Stage(l)'[Tb[n]] = Stage(l)[Tb[n]] \/ (Stage(l)'[Tb[n]] = 2 /\ Stage(l)[Tb[n]] = 1)
        /\ Stage(l)[Tb[n]] \in 0..5
    BY <1>3, <1>5, <1>6, <2>1
  <2> QED
    BY <1>2, <1>4, <2>1, <2>2 DEF MarkRight, PresentRight, KeyRight, Refers, Visible, Stored
<1>9. OwnRight(l)'
  <2>1. \A r \in own[l] : /\ Stage(l)'[Tb[r.node]] = Stage(l)[Tb[r.node]]
                          /\ \A rel \in Rel1 : fk'[l][rel][r.node] = fk[l][rel][r.node]
    BY <1>2, <1>5, <1>7, DocClosed DEF Staged, T
  <2> QED
    BY <1>2, <1>4, <1>7, <2>1 DEF OwnRight, OwnRow, Refers
<1>10. JoinsSound(l)' /\ JoinsOnce(l)' /\ JoinsWhole(l)'
  BY <1>1, <1>2, <1>5, <1>7, DocClosed, JoinsKept
<1> QED
  BY <1>8, <1>9, <1>10 DEF LoaderInv, StagedRight

(***************************************************************************)
(* The insert gives every new staged row a key of its own, past those      *)
(* that were given.                                                        *)
(***************************************************************************)
LEMMA Inserted ==
  ASSUME RowInv, NEW l \in Loader, InsertNew(l)
  PROVE  \E key \in [Fresh(l) -> Nat] :
           /\ \A n \in Fresh(l) : /\ key[n] >= nextPk[MergedTable(l)]
                                  /\ key[n] < nextPk'[MergedTable(l)]
           /\ \A m, n \in Fresh(l) : key[m] = key[n] => m = n
           /\ own' = [own EXCEPT ![l] = @ \union {NewRow(l, n, key[n]) : n \in Fresh(l)}]
<1> DEFINE t == MergedTable(l)
           count == Cardinality(Fresh(l))
<1>1. PICK key \in Injection(Fresh(l), nextPk[t]..(nextPk[t] + count - 1)) :
        own' = [own EXCEPT ![l] = @ \union {NewRow(l, n, key[n]) : n \in Fresh(l)}]
  BY DEF InsertNew
<1>2. TypeOK /\ t \in Table /\ count \in Nat /\ nextPk[t] \in Nat
  BY MergedStage, StagedAreNodes DEF RowInv, TypeOK, InsertNew, Step, Merging, StatementPhase
<1>3. nextPk'[t] = nextPk[t] + count
  <2> HIDE DEF count
  <2> QED
    BY <1>2 DEF InsertNew, TypeOK, count
<1> HIDE DEF t, count
<1>4. key \in [Fresh(l) -> nextPk[t]..(nextPk[t] + count - 1)]
  BY <1>1 DEF Injection
<1>5. \A n \in Fresh(l) : key[n] \in Nat /\ key[n] >= nextPk[t] /\ key[n] < nextPk[t] + count
  BY <1>2, <1>4
<1>6. \A m, n \in Fresh(l) : key[m] = key[n] => m = n
  BY <1>1 DEF Injection, IsInjective
<1>7. key \in [Fresh(l) -> Nat]
  BY <1>4, <1>5
<1> QED
  BY <1>1, <1>3, <1>5, <1>6, <1>7 DEF t

LEMMA InsertStep ==
  ASSUME RowInv, NEW l \in Loader, InsertNew(l), single' = single
  PROVE  LoaderInv(l)'
<1> DEFINE T == MergedTable(l)
<1>1. /\ TypeOK /\ LoaderInv(l) /\ Merging(l) /\ phase[l] = "insert" /\ phase'[l] = "writeback"
      /\ Merging(l)'
  BY DEF RowInv, InsertNew, Step, Merging, StatementPhase, TypeOK
<1>2. /\ db' = db /\ ownJoins' = ownJoins /\ pk' = pk /\ fk' = fk
      /\ exists' = exists /\ fkParent' = fkParent /\ attempt' = attempt /\ grp' = grp /\ pos' = pos
  BY DEF InsertNew, tempVars, endVars
<1>3. PICK key \in [Fresh(l) -> Nat] :
        own' = [own EXCEPT ![l] = @ \union {NewRow(l, n, key[n]) : n \in Fresh(l)}]
  BY Inserted
<1>4. own'[l] = own[l] \union {NewRow(l, n, key[n]) : n \in Fresh(l)}
  BY <1>1, <1>3 DEF TypeOK
<1>5. /\ T \in Table /\ T \in Group(l) /\ Stage(l)[T] = 2 /\ Stage(l) \in [Table -> 0..5]
  BY <1>1, MergedStage, StageTyped DEF Level
<1>6. Stage(l)' = [Stage(l) EXCEPT ![T] = 3] /\ Group(l)' = Group(l)
  BY <1>1, <1>2, StageNext DEF Level
<1>7. \A n \in Fresh(l) : n \in Doc[l] /\ Tb[n] = T /\ ~exists[l][n]
  BY DEF Fresh, Staged
<1>8. \A n \in Doc[l] : Tb[n] = T => exists[l][n] \/ n \in Fresh(l)
  BY DEF Fresh, Staged
<1>9. \A n : NewRow(l, n, key[n]).node = n
  BY DEF NewRow
<1>10. \A t \in Table : t # T => Stage(l)'[t] = Stage(l)[t]
  BY <1>5, <1>6
<1>11. Stage(l)'[T] = 3
  BY <1>5, <1>6
<1>12. \A r \in own[l] : OwnRow(l, r) /\ Tb[r.node] # T /\ r.node \in Doc[l]
  BY <1>1, <1>5 DEF LoaderInv, OwnRight, OwnRow
<1>13. \A n, k : Refers(own[l], n, k) => Refers(own[l], n, k)'
  BY <1>4 DEF Refers
<1>14. \A n, k : Refers(Visible(l), n, k) => Refers(Visible(l), n, k)'
  BY <1>2, <1>4 DEF Refers, Visible
<1>15. ASSUME NEW n \in Doc[l] PROVE MarkRight(l, n)' /\ PresentRight(l, n)' /\ KeyRight(l, n)'
  <2>1. Tb[n] \in Table /\ MarkRight(l, n) /\ PresentRight(l, n) /\ KeyRight(l, n)
    BY <1>1, DocClosed DEF LoaderInv, StagedRight
  <2>2. /\ Stage(l)'[Tb[n]] = Stage(l)[Tb[n]]
           \/ (Tb[n] = T /\ Stage(l)'[Tb[n]] = 3 /\ Stage(l)[Tb[n]] = 2)
        /\ Stage(l)[Tb[n]] \in 0..5
    BY <1>5, <1>10, <1>11, <2>1
  <2>3. MarkRight(l, n)'
    BY <1>2, <2>1, <2>2 DEF MarkRight, Stored
  <2>4. KeyRight(l, n)'
    BY <1>2, <1>14, <2>1, <2>2 DEF KeyRight
  <2>5. PresentRight(l, n)'
    <3>1. CASE Tb[n] = T
      <4>1. n \in Fresh(l) => Stored(own[l], n)'
        BY <1>4, <1>9 DEF Stored
      <4> QED
        BY <1>2, <1>8, <3>1, <4>1 DEF PresentRight
    <3>2. CASE Tb[n] # T
      <4>1. Stored(own[l], n) => Stored(own[l], n)'
        BY <1>4 DEF Stored
      <4>2. Stored(db, n) => Stored(db, n)'
        BY <1>2
      <4> QED
        BY <1>2, <1>6, <2>1, <2>2, <3>2, <4>1, <4>2 DEF PresentRight
    <3> QED
      BY <3>1, <3>2
  <2> QED
    BY <2>3, <2>4, <2>5
<1>16. ASSUME NEW r \in own[l] PROVE OwnRow(l, r)'
  <2>1. Stage(l)'[Tb[r.node]] = Stage(l)[Tb[r.node]]
    BY <1>10, <1>12, DocClosed
  <2> QED
    BY <1>2, <1>6, <1>12, <1>13, <2>1 DEF OwnRow
<1>17. ASSUME NEW n \in Fresh(l), NEW r, r = NewRow(l, n, key[n]) PROVE OwnRow(l, r)'
  <2>1. /\ r.node = n /\ r.by = <<l, attempt[l]>> /\ r.parent = fkParent[l][n]
        /\ \A rel \in Rel1 : r.fk[rel] = fk[l][rel][n]
        /\ Tb[n] \in Duplicated /\ ReferencedAsFk(Tb[n]) => r.tmp = TempPk[l][n]
    BY <1>7, <1>17 DEF NewRow
  <2>2. n \in Doc[l] /\ Tb[n] = T /\ ~exists[l][n] /\ Stage(l)'[Tb[n]] = 3
    BY <1>7, <1>11
  <2>3. Tb[n] \in Duplicated => Refers(own[l], NodeParent[n], fkParent[l][n])
    BY <1>1, <1>5, <2>2, ParentRow DEF Refers
  <2> QED
    BY <1>2, <1>5, <1>6, <1>13, <2>1, <2>2, <2>3 DEF OwnRow
<1>18. OwnRight(l)'
  BY <1>4, <1>16, <1>17 DEF OwnRight
<1>19. JoinsSound(l)' /\ JoinsOnce(l)' /\ JoinsWhole(l)'
  <2>1. \A r \in own[l] : Stage(l)'[Tb[r.node]] = Stage(l)[Tb[r.node]]
    BY <1>10, <1>12, DocClosed
  <2>2. \A r \in own'[l] : r \in own[l] \/ Stage(l)'[Tb[r.node]] = 3
    BY <1>4, <1>7, <1>9, <1>11
  <2> QED
    BY <1>1, <1>2, <1>4, <2>1, <2>2, JoinsKept
<1> QED
  BY <1>15, <1>18, <1>19 DEF LoaderInv, StagedRight

(***************************************************************************)
(* The row that a parent and a temp_pk lead to is the new row inserted     *)
(* with them: a row of another load may have the temp_pk, but not the      *)
(* parent, which is new too.                                               *)
(***************************************************************************)
LEMMA SiblingIsOwn ==
  ASSUME RowInv, NEW l \in Loader, NEW r \in own[l],
         Tb[r.node] \in Duplicated, ReferencedAsFk(Tb[r.node])
  PROVE  SiblingRows(l, r.node) = {r}
<1>1. /\ TypeOK /\ OwnRight(l) /\ OneRow /\ OneKey /\ KeysUsed /\ OwnNew /\ ParentsStored
  BY DEF RowInv, LoaderInv, StoreInv
<1>2. /\ OwnRow(l, r) /\ r.node \in Doc[l] /\ r.node \in DuplicatedNode
      /\ r.parent = fkParent[l][r.node] /\ r.tmp = TempPk[l][r.node]
      /\ Refers(own[l], NodeParent[r.node], r.parent)
      /\ Tb[NodeParent[r.node]] = TableParent[Tb[r.node]]
  BY <1>1, DocClosed DEF OwnRight, OwnRow
<1>3. PICK q \in own[l] : q.node = NodeParent[r.node] /\ q.pk = r.parent
  BY <1>2 DEF Refers
<1>4. fkParent[l][r.node] # NoPk /\ q \in Rows /\ r \in Rows
  BY <1>1, <1>2, <1>3, RowsTyped DEF KeysUsed, NoPk
<1>5. r \in SiblingRows(l, r.node)
  BY <1>2, <1>4 DEF SiblingRows, Visible
<1>6. ASSUME NEW s \in SiblingRows(l, r.node) PROVE s = r
  <2>1. /\ s \in Visible(l) /\ Tb[s.node] = Tb[r.node] /\ s.parent = r.parent
        /\ s.tmp = TempPk[l][r.node]
    BY <1>2, <1>6 DEF SiblingRows
  <2>2. CASE s \in own[l]
    <3>1. s.node \in Doc[l] /\ s.tmp = TempPk[l][s.node]
      BY <1>1, <2>1, <2>2 DEF OwnRight, OwnRow
    <3>2. s.node = r.node
      BY <1>2, <2>1, <3>1, LoadersAssumption
    <3> QED
      BY <1>1, <1>4, <2>2, <3>2, RowsTyped DEF OneRow
  <2>3. CASE s \in db
    <3>1. s.node \in Node /\ s.node \in DuplicatedNode
      BY <1>1, <2>1, <2>3, RowsTyped DEF DuplicatedNode, ReusedNode, Duplicated
    <3>2. PICK p \in db : p.node = NodeParent[s.node] /\ p.pk = s.parent
      BY <1>1, <2>3, <3>1 DEF ParentsStored, Refers
    <3>3. Tb[p.node] = Tb[q.node] /\ p.pk = q.pk
      BY <1>2, <1>3, <2>1, <3>1, <3>2, NodesAssumption
    <3>4. p = q
      BY <1>1, <1>4, <3>2, <3>3, RowsTyped DEF OneKey
    <3> QED
      BY <1>1, <1>3, <3>2, <3>4 DEF OwnNew
  <2> QED
    BY <2>1, <2>2, <2>3 DEF Visible
<1> QED
  BY <1>5, <1>6

LEMMA WriteBackStep ==
  ASSUME RowInv, NEW l \in Loader, WriteBackKeys(l), single' = single
  PROVE  LoaderInv(l)'
<1> DEFINE T == MergedTable(l)
<1>1. /\ TypeOK /\ LoaderInv(l) /\ Merging(l) /\ phase[l] = "writeback" /\ phase'[l] = "join"
      /\ Merging(l)' /\ OneRow /\ KeysUsed
  BY DEF RowInv, StoreInv, WriteBackKeys, Step, Merging, StatementPhase, TypeOK
<1>2. /\ db' = db /\ own' = own /\ ownJoins' = ownJoins /\ fk' = fk /\ exists' = exists
      /\ fkParent' = fkParent /\ attempt' = attempt /\ grp' = grp /\ pos' = pos
  BY DEF WriteBackKeys, dbVars, endVars
<1>3. T \in Table /\ Stage(l)[T] = 3 /\ Stage(l) \in [Table -> 0..5]
  BY <1>1, MergedStage, StageTyped DEF Level
<1>4. Stage(l)' = [Stage(l) EXCEPT ![T] = 4] /\ Group(l)' = Group(l)
  BY <1>1, <1>2, StageNext DEF Level
<1>5. \A n \in Node : n \notin Staged(l) \/ ~WritesBack(T) => pk'[l][n] = pk[l][n]
  BY <1>1 DEF WriteBackKeys, TypeOK
<1>6. ASSUME NEW n \in Node, n \in Staged(l), WritesBack(T), TargetRows(l, n) # {}
      PROVE  \E c \in TargetRows(l, n) : pk'[l][n] = c.pk
  <2> DEFINE c == CHOOSE r \in TargetRows(l, n) : TRUE
  <2>1. c \in TargetRows(l, n)
    BY <1>6
  <2>2. pk'[l][n] = c.pk
    BY <1>1, <1>6 DEF WriteBackKeys, TypeOK
  <2> QED
    BY <2>1, <2>2
<1>7. Visible(l)' = Visible(l)
  BY <1>2 DEF Visible
<1> HIDE DEF T
<1>8. \A t \in Table : t # T => Stage(l)'[t] = Stage(l)[t]
  BY <1>3, <1>4
<1>9. Stage(l)'[T] = 4
  BY <1>3, <1>4
<1>10. \A n \in Doc[l] : n \in Staged(l) <=> Tb[n] = T
  BY DEF Staged, T
<1>11. ASSUME NEW n \in Doc[l], Tb[n] = T, n \in ReusedNode
       PROVE  /\ pk'[l][n] # NoPk
              /\ \E c \in Visible(l) : c.node = n /\ c.pk = pk'[l][n]
  <2>1. MarkRight(l, n) /\ PresentRight(l, n) /\ n \in Node /\ n \in Staged(l) /\ Tb[n] \in Reused
    BY <1>1, <1>10, <1>11, DocClosed DEF LoaderInv, StagedRight
  <2>2. WritesBack(T) /\ TargetRows(l, n) = HashRows(l, n)
    BY <1>11, <2>1 DEF WritesBack, TargetRows
  <2>3. HashRows(l, n) # {}
    BY <1>3, <1>11, <2>1 DEF MarkRight, PresentRight, Stored, HashRows, Visible
  <2>4. PICK c \in HashRows(l, n) : pk'[l][n] = c.pk
    BY <1>6, <2>1, <2>2, <2>3
  <2>5. c \in Visible(l) /\ c.node = n
    BY <2>4 DEF HashRows
  <2>6. c.pk # NoPk
    BY <1>1, <2>5, RowsTyped DEF KeysUsed, NoPk
  <2> QED
    BY <2>4, <2>5, <2>6
<1>12. ASSUME NEW n \in Doc[l] PROVE MarkRight(l, n)' /\ PresentRight(l, n)' /\ KeyRight(l, n)'
  <2>1. /\ Tb[n] \in Table /\ n \in Node
        /\ MarkRight(l, n) /\ PresentRight(l, n) /\ KeyRight(l, n)
    BY <1>1, DocClosed DEF LoaderInv, StagedRight
  <2>2. /\ Stage(l)'[Tb[n]] = Stage(l)[Tb[n]]
           \/ (Tb[n] = T /\ Stage(l)'[Tb[n]] = 4 /\ Stage(l)[Tb[n]] = 3)
        /\ Stage(l)[Tb[n]] \in 0..5
    BY <1>3, <1>8, <1>9, <2>1
  <2>3. MarkRight(l, n)'
    <3>1. n \in DuplicatedNode /\ Stage(l)[Tb[n]] >= 1 => pk'[l][NodeParent[n]] = pk[l][NodeParent[n]]
      BY <1>1, <1>5, <1>10, DocClosed, ParentMerged DEF T
    <3> QED
      BY <1>2, <2>1, <2>2, <3>1 DEF MarkRight, Stored
  <2>4. PresentRight(l, n)'
    BY <1>2, <1>4, <2>1, <2>2 DEF PresentRight, Stored
  <2>5. KeyRight(l, n)'
    <3>1. CASE Tb[n] = T
      BY <1>7, <1>9, <1>11, <3>1 DEF KeyRight, Refers
    <3>2. CASE Tb[n] # T
      BY <1>5, <1>7, <1>8, <1>10, <2>1, <3>2 DEF KeyRight, Refers
    <3> QED
      BY <3>1, <3>2
  <2> QED
    BY <2>3, <2>4, <2>5
<1>13. ASSUME NEW r \in own[l] PROVE OwnRow(l, r)'
  <2>1. OwnRow(l, r) /\ r.node \in Doc[l] /\ r.node \in Node /\ Tb[r.node] \in Table
    BY <1>1, DocClosed DEF LoaderInv, OwnRight, OwnRow
  <2>2. Stage(l)'[Tb[r.node]] >= 4 /\ WritesBack(Tb[r.node]) => pk'[l][r.node] = r.pk
    <3>1. CASE Tb[r.node] # T
      BY <1>5, <1>8, <1>10, <2>1, <3>1 DEF OwnRow
    <3>2. ASSUME Tb[r.node] = T, T \in Reused PROVE pk'[l][r.node] = r.pk
      <4>1. PICK c \in Visible(l) : c.node = r.node /\ c.pk = pk'[l][r.node]
        BY <1>11, <2>1, <3>2, DocClosed
      <4> QED
        BY <1>1, <4>1, RowsTyped DEF OneRow
    <3>3. ASSUME Tb[r.node] = T, T \notin Reused, WritesBack(T) PROVE pk'[l][r.node] = r.pk
      <4>1. Tb[r.node] \in Duplicated /\ ReferencedAsFk(Tb[r.node])
        BY <2>1, <3>3 DEF WritesBack, Duplicated
      <4>2. TargetRows(l, r.node) = {r}
        BY <3>3, <4>1, SiblingIsOwn DEF TargetRows
      <4> QED
        BY <1>6, <1>10, <2>1, <3>3, <4>2
    <3> QED
      BY <3>1, <3>2, <3>3
  <2>3. Stage(l)'[Tb[r.node]] >= 3
    BY <1>8, <1>9, <2>1 DEF OwnRow
  <2> QED
    BY <1>2, <1>4, <2>1, <2>2, <2>3 DEF OwnRow, Refers
<1>14. OwnRight(l)'
  BY <1>2, <1>13 DEF OwnRight
<1>15. JoinsSound(l)' /\ JoinsOnce(l)' /\ JoinsWhole(l)'
  <2>1. \A r \in own[l] : Stage(l)'[Tb[r.node]] = 5 <=> Stage(l)[Tb[r.node]] = 5
    BY <1>1, <1>3, <1>8, <1>9, DocClosed DEF LoaderInv, OwnRight, OwnRow
  <2> QED
    BY <1>1, <1>2, <2>1, JoinsKept
<1> QED
  BY <1>12, <1>14, <1>15 DEF LoaderInv, StagedRight

LEMMA SlotsDiffer ==
  ASSUME NEW s \in Slot, NEW u \in Slot, s.rel = u.rel, s.node = u.node, s.num = u.num
  PROVE  s = u
<1> DEFINE IsSlot(x) == \E r, n, i : x = [rel |-> r, node |-> n, num |-> i]
<1>1. \A x \in Slot : IsSlot(x)
  BY DEF Slot, SlotsOf
<1>2. IsSlot(s) /\ IsSlot(u)
  BY <1>1
<1> QED
  BY <1>2

(***************************************************************************)
(* The insert of join rows: those of the new rows of the table, with the   *)
(* key of their own row, and that of the child's row.                      *)
(***************************************************************************)
LEMMA NewSlotRow ==
  ASSUME RowInv, NEW l \in Loader, InsertJoinRows(l), NEW s \in NewSlots(l)
  PROVE  \E r \in own[l] : /\ s.node = r.node /\ JoinOf(JoinRow(l, s), r, s)
                           /\ Tb[r.node] = MergedTable(l) /\ From[s.rel] = MergedTable(l)
<1>1. /\ TypeOK /\ LoaderInv(l) /\ Merging(l) /\ phase[l] = "join"
  BY DEF RowInv, InsertJoinRows, Merging, StatementPhase
<1>2. Stage(l)[MergedTable(l)] = 4 /\ MergedTable(l) \in Group(l)
  BY <1>1, MergedStage DEF Level
<1>3. s \in Slot /\ s.node \in Doc[l] /\ Tb[s.node] = MergedTable(l) /\ ~exists[l][s.node]
  BY DEF NewSlots, Fresh, Staged
<1>4. Stored(own[l], s.node)
  BY <1>1, <1>2, <1>3 DEF LoaderInv, StagedRight, PresentRight
<1>5. PICK r \in own[l] : r.node = s.node
  BY <1>4 DEF Stored
<1>6. pk[l][s.node] = r.pk
  BY <1>1, <1>2, <1>3, <1>5, KeysAsked DEF LoaderInv, OwnRight, OwnRow
<1> QED
  BY <1>3, <1>5, <1>6, SlotTyped DEF JoinOf, JoinRow

LEMMA JoinStep ==
  ASSUME RowInv, NEW l \in Loader, InsertJoinRows(l), single' = single
  PROVE  LoaderInv(l)'
<1> DEFINE T == MergedTable(l)
<1>1. /\ TypeOK /\ LoaderInv(l) /\ Merging(l) /\ phase[l] = "join" /\ phase'[l] # "cleanup"
      /\ OneKey /\ KeysUsed
  BY DEF RowInv, StoreInv, InsertJoinRows, Merging, StatementPhase, TypeOK
<1>2. /\ db' = db /\ own' = own /\ pk' = pk /\ fk' = fk /\ exists' = exists
      /\ fkParent' = fkParent /\ attempt' = attempt
      /\ ownJoins'[l] = ownJoins[l] \union {JoinRow(l, s) : s \in NewSlots(l)}
  BY <1>1 DEF InsertJoinRows, tempVars, endVars, TypeOK
<1>3. T \in Table /\ Stage(l)[T] = 4 /\ Stage(l) \in [Table -> 0..5]
  BY <1>1, MergedStage, StageTyped DEF Level
<1>4. Stage(l)' = [Stage(l) EXCEPT ![T] = 5] /\ Group(l)' = Group(l)
  BY <1>1, StageJoined
<1>5. Visible(l)' = Visible(l)
  BY <1>2 DEF Visible
<1> HIDE DEF T
<1>6. \A t \in Table : t # T => Stage(l)'[t] = Stage(l)[t]
  BY <1>3, <1>4
<1>7. Stage(l)'[T] = 5
  BY <1>3, <1>4
<1>8. ASSUME NEW n \in Doc[l] PROVE MarkRight(l, n)' /\ PresentRight(l, n)' /\ KeyRight(l, n)'
  <2>1. /\ Tb[n] \in Table
        /\ MarkRight(l, n) /\ PresentRight(l, n) /\ KeyRight(l, n)
    BY <1>1, DocClosed DEF LoaderInv, StagedRight, Merging, StatementPhase
  <2>2. /\ Stage(l)'[Tb[n]] = Stage(l)[Tb[n]]
           \/ (Stage(l)'[Tb[n]] = 5 /\ Stage(l)[Tb[n]] = 4)
        /\ Stage(l)[Tb[n]] \in 0..5
    BY <1>3, <1>6, <1>7, <2>1
  <2> QED
    BY <1>2, <1>4, <1>5, <2>1, <2>2 DEF MarkRight, PresentRight, KeyRight, Refers, Stored
<1>9. \A r \in own[l] : /\ OwnRow(l, r) /\ r.node \in Doc[l] /\ Tb[r.node] \in Table
                        /\ Stage(l)[Tb[r.node]] = 5 => Tb[r.node] # T
  BY <1>1, <1>3, DocClosed DEF LoaderInv, OwnRight, OwnRow
<1>10. OwnRight(l)'
  <2>1. \A r \in own[l] : /\ Stage(l)'[Tb[r.node]] >= 3
                          /\ Stage(l)'[Tb[r.node]] >= 4 => Stage(l)[Tb[r.node]] >= 4
    BY <1>3, <1>6, <1>7, <1>9 DEF OwnRow
  <2> QED
    BY <1>2, <1>4, <1>9, <2>1 DEF OwnRight, OwnRow, Refers
<1>11. JoinsSound(l)'
  <2> SUFFICES ASSUME NEW j \in ownJoins'[l]
               PROVE  \E r \in own[l], s \in Slot :
                        s.node = r.node /\ JoinOf(j, r, s) /\ Stage(l)'[Tb[r.node]] = 5
    BY <1>2 DEF JoinsSound, JoinOf
  <2>1. CASE j \in ownJoins[l]
    <3>1. PICK r \in own[l], s \in Slot :
            s.node = r.node /\ JoinOf(j, r, s) /\ Stage(l)[Tb[r.node]] = 5
      BY <1>1, <2>1 DEF LoaderInv, JoinsSound
    <3> QED
      BY <1>6, <1>9, <3>1
  <2>2. ASSUME NEW s \in NewSlots(l), j = JoinRow(l, s)
        PROVE  \E r \in own[l], u \in Slot :
                 u.node = r.node /\ JoinOf(j, r, u) /\ Stage(l)'[Tb[r.node]] = 5
    BY <1>7, <2>2, NewSlotRow DEF NewSlots, T
  <2> QED
    BY <1>2, <2>1, <2>2
<1>12. JoinsOnce(l)'
  <2> SUFFICES ASSUME NEW i \in ownJoins'[l], NEW j \in ownJoins'[l],
                      i.rel = j.rel, i.self = j.self, i.num = j.num
               PROVE  i = j
    BY DEF JoinsOnce
  <2>1. CASE i \in ownJoins[l] /\ j \in ownJoins[l]
    BY <1>1, <2>1 DEF LoaderInv, JoinsOnce
  <2>2. ASSUME NEW s \in NewSlots(l), NEW x \in ownJoins[l], x.rel = JoinRow(l, s).rel
        PROVE  FALSE
    <3>1. PICK r \in own[l], u \in Slot :
            u.node = r.node /\ JoinOf(x, r, u) /\ Stage(l)[Tb[r.node]] = 5
      BY <1>1 DEF LoaderInv, JoinsSound
    <3>2. u.rel = s.rel /\ From[s.rel] = T
      BY <2>2, <3>1, NewSlotRow DEF JoinOf, JoinRow, T
    <3>3. Tb[r.node] = T
      BY <3>1, <3>2, SlotTyped
    <3> QED
      BY <1>3, <3>1, <3>3
  <2>3. ASSUME NEW s \in NewSlots(l), NEW u \in NewSlots(l), i = JoinRow(l, s), j = JoinRow(l, u)
        PROVE  i = j
    <3>1. PICK r \in own[l] : s.node = r.node /\ JoinOf(i, r, s) /\ Tb[r.node] = T
      BY <2>3, NewSlotRow DEF T
    <3>2. PICK q \in own[l] : u.node = q.node /\ JoinOf(j, q, u) /\ Tb[q.node] = T
      BY <2>3, NewSlotRow DEF T
    <3>3. r = q
      BY <1>1, <3>1, <3>2, RowsTyped DEF JoinOf, OneKey
    <3>4. s = u
      BY <3>1, <3>2, <3>3, SlotsDiffer DEF JoinOf, NewSlots
    <3> QED
      BY <2>3, <3>4
  <2> QED
    BY <1>2, <2>1, <2>2, <2>3
<1>13. JoinsWhole(l)'
  <2> SUFFICES ASSUME NEW r \in own[l], NEW s \in Slot, s.node = r.node, Stage(l)'[Tb[r.node]] = 5
               PROVE  \E j \in ownJoins'[l] :
                        JoinOf(j, r, s) /\ Refers(Visible(l), SlotChild(s), j.other)
    BY <1>2, <1>5 DEF JoinsWhole, JoinOf, Refers
  <2>1. CASE Stage(l)[Tb[r.node]] = 5
    BY <1>1, <1>2, <2>1 DEF LoaderInv, JoinsWhole
  <2>2. CASE Stage(l)[Tb[r.node]] # 5
    <3>1. Tb[r.node] = T /\ r.node \in Doc[l] /\ ~exists[l][r.node] /\ OwnRow(l, r)
      BY <1>6, <1>9, <2>2 DEF OwnRow
    <3>2. pk[l][r.node] = r.pk /\ r.pk # NoPk
      <4>1. WritesBack(Tb[r.node])
        BY KeysAsked
      <4>2. pk[l][r.node] = r.pk
        BY <1>3, <3>1, <4>1 DEF OwnRow
      <4>3. r.pk # NoPk
        BY <1>1, RowsTyped DEF KeysUsed, NoPk
      <4> QED
        BY <4>2, <4>3
    <3>3. s \in NewSlots(l)
      BY <3>1, <3>2 DEF NewSlots, Fresh, Staged, T
    <3>4. pk[l][SlotChild(s)] # NoPk
      BY <3>3 DEF InsertJoinRows, ChildKeysKnown
    <3>5. SlotChild(s) \in Doc[l] /\ SlotChild(s) \in ReusedNode
      BY <3>1, DocClosed, KeysAsked
    <3>6. Refers(Visible(l), SlotChild(s), pk[l][SlotChild(s)])
      BY <1>1, <3>4, <3>5 DEF LoaderInv, StagedRight, KeyRight
    <3>7. JoinOf(JoinRow(l, s), r, s) /\ JoinRow(l, s).other = pk[l][SlotChild(s)]
      BY <3>2 DEF JoinOf, JoinRow
    <3> QED
      BY <1>2, <3>3, <3>6, <3>7
  <2> QED
    BY <2>1, <2>2
<1> QED
  BY <1>8, <1>10, <1>11, <1>12, <1>13 DEF LoaderInv, StagedRight

LEMMA CommitStep ==
  ASSUME RowInv, NEW l \in Loader, Commit(l), single' = single
  PROVE  LoaderInv(l)'
<1>1. TypeOK /\ LoaderInv(l) /\ phase[l] = "commit" /\ AtLastTable(l)
  BY DEF RowInv, Commit
<1>2. /\ db' = db \union own[l] /\ own'[l] = {} /\ ownJoins'[l] = {} /\ pk' = pk
      /\ exists' = exists /\ fkParent' = fkParent
  BY <1>1 DEF Commit, tempVars, TypeOK
<1>3. CASE ~(grp[l] < Len(Transactions))
  <2>1. phase'[l] = "cleanup" /\ ~Merging(l)'
    BY <1>1, <1>3 DEF Commit, TypeOK, Merging, StatementPhase
  <2> QED
    BY <1>2, <2>1, LoaderReset
<1>4. CASE grp[l] < Len(Transactions)
  <2>1. Stage(l)' = Stage(l) /\ \A t \in Group(l)' : Stage(l)[t] = 0
    BY <1>1, <1>4, StageCommitted
  <2>2. Visible(l)' = Visible(l)
    BY <1>2 DEF Visible
  <2>3. ASSUME NEW n \in Doc[l] PROVE MarkRight(l, n)' /\ PresentRight(l, n)' /\ KeyRight(l, n)'
    <3>1. MarkRight(l, n) /\ PresentRight(l, n) /\ KeyRight(l, n)
      BY <1>1 DEF LoaderInv, StagedRight
    <3>2. Stored(own[l], n) \/ Stored(db, n) => Stored(db, n)'
      BY <1>2 DEF Stored
    <3>3. MarkRight(l, n)' /\ KeyRight(l, n)'
      BY <1>2, <2>1, <2>2, <3>1, <3>2 DEF MarkRight, KeyRight, Refers
    <3>4. Stage(l)[Tb[n]] >= 3 => Tb[n] \notin Group(l)'
      BY <2>1
    <3>5. PresentRight(l, n)'
      BY <1>2, <2>1, <3>1, <3>2, <3>4 DEF PresentRight
    <3> QED
      BY <3>3, <3>5
  <2> QED
    BY <1>2, <2>3 DEF LoaderInv, StagedRight, OwnRight, JoinsSound, JoinsOnce, JoinsWhole
<1> QED
  BY <1>3, <1>4

-----------------------------------------------------------------------------
(***************************************************************************)
(* The committed rows and join rows, and what keeps them apart from those  *)
(* of the open transactions.                                               *)
(***************************************************************************)
LEMMA StoreKept ==
  ASSUME StoreInv, db' = db, joins' = joins, nextPk' = nextPk,
         \A l \in Loader : own'[l] \subseteq own[l]
  PROVE  StoreInv'
<1>1. Rows' \subseteq Rows
  BY DEF Rows
<1>2. OneRow' /\ OneKey' /\ KeysUsed'
  BY <1>1 DEF StoreInv, OneRow, OneKey, KeysUsed
<1>3. OwnNew'
  BY DEF StoreInv, OwnNew
<1>4. ParentsStored' /\ CommittedComplete' /\ JoinsExact'
  BY DEF StoreInv, ParentsStored, CommittedComplete, RowComplete, JoinsExact, JoinOf, Refers
<1> QED
  BY <1>2, <1>3, <1>4 DEF StoreInv

(***************************************************************************)
(* A record about to be inserted has no row yet, not even in the open      *)
(* transaction of another loader: a reused one because of the unique hash, *)
(* a duplicated one because its parent's row is of this transaction.       *)
(***************************************************************************)
LEMMA FreshUnknown ==
  ASSUME RowInv, NEW l \in Loader, InsertNew(l), NEW n \in Fresh(l), NEW r \in Rows
  PROVE  r.node # n
<1> SUFFICES ASSUME r.node = n PROVE FALSE
  OBVIOUS
<1>1. /\ TypeOK /\ LoaderInv(l) /\ Merging(l) /\ phase[l] = "insert" /\ OneRow /\ OwnNew
      /\ ParentsStored
  BY DEF RowInv, StoreInv, InsertNew, Step, Merging, StatementPhase
<1>2. /\ n \in Doc[l] /\ n \in Node /\ Tb[n] = MergedTable(l) /\ ~exists[l][n] /\ Tb[n] \in Group(l)
      /\ Stage(l)[Tb[n]] = 2 /\ Tb[n] \in Table
  BY <1>1, MergedStage, DocClosed DEF Fresh, Staged, Level
<1>3. r \in db \/ \E m \in Loader : r \in own[m]
  BY DEF Rows
<1>4. CASE Tb[n] \in Reused
  <2>1. /\ n \notin TakenHashes(Visible(l))
        /\ \A m \in Loader \ {l} : n \notin TakenHashes(own[m])
    BY <1>2, <1>4 DEF InsertNew, UniqueHash
  <2> QED
    BY <1>3, <2>1 DEF TakenHashes, Visible
<1>5. CASE Tb[n] \in Duplicated
  <2>1. PICK q \in own[l] : q.node = NodeParent[n]
    BY <1>1, <1>2, <1>5, ParentRow
  <2>2. n \in DuplicatedNode
    BY <1>2, <1>5, DocClosed
  <2>3. CASE r \in db
    <3>1. PICK p \in db : p.node = NodeParent[n]
      BY <1>1, <2>2, <2>3 DEF ParentsStored, Refers
    <3>2. p = q
      BY <1>1, <2>1, <3>1, RowsTyped DEF OneRow
    <3> QED
      BY <1>1, <2>1, <3>1, <3>2 DEF OwnNew
  <2>4. ASSUME NEW m \in Loader, r \in own[m] PROVE FALSE
    <3>1. OwnRow(m, r) /\ \A o \in own[m] : o.by = <<m, attempt[m]>>
      BY <2>4 DEF RowInv, LoaderInv, OwnRight, OwnRow
    <3>2. PICK p \in own[m] : p.node = NodeParent[n]
      BY <1>2, <1>5, <3>1 DEF OwnRow, Refers
    <3>3. p = q
      BY <1>1, <2>1, <3>2, RowsTyped DEF OneRow
    <3>4. q.by = <<l, attempt[l]>> /\ q.by = <<m, attempt[m]>>
      BY <1>1, <2>1, <3>1, <3>2, <3>3 DEF LoaderInv, OwnRight, OwnRow
    <3>5. m = l
      BY <3>4
    <3> QED
      BY <1>2, <3>1, <3>5 DEF OwnRow
  <2> QED
    BY <1>3, <2>3, <2>4
<1> QED
  BY <1>2, <1>4, <1>5 DEF Duplicated

LEMMA InsertStore ==
  ASSUME RowInv, NEW l \in Loader, InsertNew(l)
  PROVE  StoreInv'
<1> DEFINE T == MergedTable(l)
<1>1. /\ TypeOK /\ StoreInv /\ Merging(l)
  BY DEF RowInv, InsertNew, Step, Merging, StatementPhase
<1>2. PICK key \in [Fresh(l) -> Nat] :
        /\ \A n \in Fresh(l) : key[n] >= nextPk[T] /\ key[n] < nextPk'[T]
        /\ \A m, n \in Fresh(l) : key[m] = key[n] => m = n
        /\ own' = [own EXCEPT ![l] = @ \union {NewRow(l, n, key[n]) : n \in Fresh(l)}]
  BY Inserted
<1> DEFINE New == {NewRow(l, n, key[n]) : n \in Fresh(l)}
<1>3. \A r \in New : r.node \in Fresh(l) /\ r.pk = key[r.node] /\ Tb[r.node] = T
  BY DEF NewRow, Fresh, Staged
<1>4. \A r, q \in New : r.node = q.node => r = q
  BY DEF NewRow
<1>5. /\ db' = db /\ joins' = joins
      /\ own'[l] = own[l] \union New /\ \A m \in Loader : m # l => own'[m] = own[m]
  BY <1>1, <1>2 DEF InsertNew, TypeOK
<1>6. \A r \in New : \A q \in Rows : q.node # r.node
  BY <1>3, FreshUnknown
<1>7. T \in Table /\ nextPk \in [Table -> Nat \ {0}] /\ nextPk'[T] \in Nat
  <2>1. T \in Table /\ nextPk \in [Table -> Nat \ {0}]
    BY <1>1, MergedStage DEF TypeOK
  <2>2. Cardinality(Fresh(l)) \in Nat
    BY StagedAreNodes
  <2> HIDE DEF T
  <2>3. nextPk' = [nextPk EXCEPT ![T] = @ + Cardinality(Fresh(l))]
    BY DEF InsertNew, T
  <2> QED
    BY <2>1, <2>2, <2>3
<1>8. \A t \in Table : nextPk[t] \in Nat /\ nextPk'[t] \in Nat /\ nextPk'[t] >= nextPk[t]
  <2>1. Cardinality(Fresh(l)) \in Nat
    BY StagedAreNodes
  <2> DEFINE count == Cardinality(Fresh(l))
  <2>2. nextPk' = [nextPk EXCEPT ![T] = @ + count]
    BY DEF InsertNew
  <2> HIDE DEF T, count
  <2>3. count \in Nat
    BY <2>1 DEF count
  <2> QED
    BY <1>7, <2>2, <2>3
<1> HIDE DEF New, T
<1>9. Rows' = Rows \union New
  <2>1. \A r : r \in Rows' <=> r \in db' \/ \E m \in Loader : r \in own'[m]
    BY DEF Rows
  <2>2. \A r : r \in Rows <=> r \in db \/ \E m \in Loader : r \in own[m]
    BY DEF Rows
  <2> QED
    BY <1>5, <2>1, <2>2
<1>10. \A r \in Rows : r.node \in Node /\ Tb[r.node] \in Table /\ r.pk \in Nat
  BY <1>1, RowsTyped, NodesAssumption
<1>11. OneRow'
  BY <1>1, <1>4, <1>6, <1>9 DEF StoreInv, OneRow
<1>12. OneKey'
  <2>1. \A r \in New : \A q \in Rows : Tb[r.node] = Tb[q.node] => r.pk # q.pk
    <3> SUFFICES ASSUME NEW r \in New, NEW q \in Rows, Tb[q.node] = Tb[r.node] PROVE r.pk # q.pk
      OBVIOUS
    <3>1. r.pk >= nextPk[T] /\ r.pk \in Nat /\ Tb[r.node] = T
      BY <1>2, <1>3
    <3>2. q.pk < nextPk[T] /\ q.pk \in Nat
      BY <1>1, <1>10, <3>1 DEF StoreInv, KeysUsed
    <3> QED
      BY <1>7, <3>1, <3>2
  <2>2. \A r, q \in New : r.pk = q.pk => r = q
    BY <1>2, <1>3, <1>4
  <2> QED
    BY <1>1, <1>9, <2>1, <2>2 DEF StoreInv, OneKey
<1>13. KeysUsed'
  <2>1. \A r \in Rows : 1 <= r.pk /\ r.pk < nextPk'[Tb[r.node]]
    <3> SUFFICES ASSUME NEW r \in Rows PROVE 1 <= r.pk /\ r.pk < nextPk'[Tb[r.node]]
      OBVIOUS
    <3>1. 1 <= r.pk /\ r.pk < nextPk[Tb[r.node]] /\ Tb[r.node] \in Table /\ r.pk \in Nat
      BY <1>1, <1>10 DEF StoreInv, KeysUsed
    <3> QED
      BY <1>8, <3>1
  <2>2. \A r \in New : 1 <= r.pk /\ r.pk < nextPk'[Tb[r.node]]
    BY <1>2, <1>3, <1>7
  <2> QED
    BY <1>9, <2>1, <2>2 DEF KeysUsed
<1>14. OwnNew'
  BY <1>1, <1>5, <1>6, RowsTyped DEF StoreInv, OwnNew
<1>15. ParentsStored' /\ CommittedComplete' /\ JoinsExact'
  BY <1>1, <1>5 DEF StoreInv, ParentsStored, CommittedComplete, RowComplete, JoinsExact, JoinOf, Refers
<1> QED
  BY <1>11, <1>12, <1>13, <1>14, <1>15 DEF StoreInv

(***************************************************************************)
(* A commit brings whole subtrees: the tables of a duplicated record and   *)
(* of its parent are in one transaction, and all its tables are done.      *)
(***************************************************************************)
LEMMA OwnComplete ==
  ASSUME RowInv, NEW l \in Loader, phase[l] = "commit", NEW r \in own[l]
  PROVE  /\ \A s \in Slot : s.node = r.node =>
              \E j \in ownJoins[l] : JoinOf(j, r, s) /\ Refers(Visible(l), SlotChild(s), j.other)
         /\ \A n \in DuplicatedNode : NodeParent[n] = r.node =>
              \E d \in own[l] : d.node = n /\ d.parent = r.pk
<1>1. /\ TypeOK /\ LoaderInv(l) /\ Merging(l) /\ AtLastTable(l) /\ phase[l] # "cleanup"
  BY DEF RowInv, Merging, StatementPhase
<1>2. /\ OwnRow(l, r) /\ r.node \in Doc[l] /\ Tb[r.node] \in Group(l) /\ Stage(l)[Tb[r.node]] = 5
  BY <1>1, GroupDone DEF LoaderInv, OwnRight, OwnRow
<1>3. ASSUME NEW n \in DuplicatedNode, NodeParent[n] = r.node
      PROVE  \E d \in own[l] : d.node = n /\ d.parent = r.pk
  <2>1. n \in Doc[l] /\ Tb[n] \in Duplicated /\ TableParent[Tb[n]] = Tb[r.node]
    BY <1>2, <1>3, DocClosed
  <2>2. Tb[n] \in Group(l) /\ Stage(l)[Tb[n]] = 5
    BY <1>1, <1>2, <2>1, ParentDone, GroupDone
  <2>3. ~exists[l][n] /\ fkParent[l][n] = pk[l][r.node]
    BY <1>1, <1>2, <1>3, <2>1, <2>2 DEF LoaderInv, StagedRight, MarkRight, OwnRow
  <2>4. pk[l][r.node] = r.pk
    BY <1>2, <2>1, KeysAsked DEF OwnRow
  <2>5. Stored(own[l], n)
    BY <1>1, <2>1, <2>2, <2>3 DEF LoaderInv, StagedRight, PresentRight
  <2>6. PICK d \in own[l] : d.node = n
    BY <2>5 DEF Stored
  <2>7. d.parent = fkParent[l][n]
    BY <1>1, <2>6 DEF LoaderInv, OwnRight, OwnRow
  <2> QED
    BY <2>3, <2>4, <2>6, <2>7
<1> QED
  BY <1>1, <1>2, <1>3 DEF LoaderInv, JoinsWhole

LEMMA CommitStore ==
  ASSUME RowInv, NEW l \in Loader, Commit(l)
  PROVE  StoreInv'
<1>1. /\ TypeOK /\ StoreInv /\ LoaderInv(l) /\ phase[l] = "commit"
  BY DEF RowInv, Commit
<1>2. /\ db' = db \union own[l] /\ joins' = joins \union ownJoins[l] /\ own'[l] = {}
      /\ \A m \in Loader : m # l => own'[m] = own[m]
      /\ nextPk' = nextPk
  BY <1>1 DEF Commit, TypeOK
<1>3. Rows' = Rows
  <2>1. \A r : r \in Rows' <=> r \in db' \/ \E m \in Loader : r \in own'[m]
    BY DEF Rows
  <2>2. \A r : r \in Rows <=> r \in db \/ \E m \in Loader : r \in own[m]
    BY DEF Rows
  <2> QED
    BY <1>2, <2>1, <2>2
<1>4. OneRow' /\ OneKey' /\ KeysUsed'
  BY <1>1, <1>2, <1>3 DEF StoreInv, OneRow, OneKey, KeysUsed
<1>5. OwnNew'
  <2> SUFFICES ASSUME NEW m \in Loader, m # l, NEW r \in own[m], r \in own[l] PROVE FALSE
    BY <1>1, <1>2 DEF StoreInv, OwnNew
  <2>1. OwnRow(l, r) /\ OwnRow(m, r)
    BY DEF RowInv, LoaderInv, OwnRight
  <2>2. <<l, attempt[l]>> = <<m, attempt[m]>>
    BY <2>1 DEF OwnRow
  <2> QED
    BY <2>2
<1>6. \A n, key : Refers(Visible(l), n, key) \/ Refers(db, n, key) => Refers(db, n, key)'
  BY <1>2 DEF Refers, Visible
<1>7. ParentsStored'
  <2> SUFFICES ASSUME NEW r \in db', r.node \in DuplicatedNode
               PROVE  Refers(db, NodeParent[r.node], r.parent)'
    BY DEF ParentsStored
  <2>1. CASE r \in db
    BY <1>1, <1>6, <2>1 DEF StoreInv, ParentsStored
  <2>2. CASE r \in own[l]
    <3>1. Refers(own[l], NodeParent[r.node], r.parent)
      BY <1>1, <2>2, DocClosed DEF LoaderInv, OwnRight, OwnRow
    <3> QED
      BY <1>6, <3>1 DEF Refers, Visible
  <2> QED
    BY <1>2, <2>1, <2>2
<1>8. CommittedComplete'
  <2> SUFFICES ASSUME NEW r \in db' PROVE RowComplete(r)'
    BY DEF CommittedComplete
  <2>1. CASE r \in db
    BY <1>1, <1>2, <1>6, <2>1 DEF StoreInv, CommittedComplete, RowComplete, JoinOf
  <2>2. CASE r \in own[l]
    <3>1. ASSUME NEW s \in Slot, s.node = r.node
          PROVE  \E j \in joins' : JoinOf(j, r, s) /\ Refers(db, SlotChild(s), j.other)'
      <4>1. PICK j \in ownJoins[l] : JoinOf(j, r, s) /\ Refers(Visible(l), SlotChild(s), j.other)
        BY <1>1, <2>2, <3>1, OwnComplete
      <4> QED
        BY <1>2, <1>6, <4>1
    <3>2. ASSUME NEW n \in DuplicatedNode, NodeParent[n] = r.node
          PROVE  \E d \in db' : d.node = n /\ d.parent = r.pk
      BY <1>1, <1>2, <2>2, <3>2, OwnComplete
    <3> QED
      BY <3>1, <3>2 DEF RowComplete, JoinOf, Refers
  <2> QED
    BY <1>2, <2>1, <2>2
<1>9. JoinsExact'
  <2>1. ASSUME NEW j \in joins'
        PROVE  \E r \in db', s \in Slot : s.node = r.node /\ JoinOf(j, r, s)
    BY <1>1, <1>2, <2>1 DEF StoreInv, JoinsExact, LoaderInv, JoinsSound
  <2>2. ASSUME NEW i \in joins, NEW j \in ownJoins[l], i.rel = j.rel, i.self = j.self
        PROVE  FALSE
    <3>1. PICK r \in db, s \in Slot : s.node = r.node /\ JoinOf(i, r, s)
      BY <1>1, <2>2 DEF StoreInv, JoinsExact
    <3>2. PICK q \in own[l], u \in Slot : u.node = q.node /\ JoinOf(j, q, u)
      BY <1>1, <2>2 DEF LoaderInv, JoinsSound
    <3>3. Tb[r.node] = Tb[q.node] /\ r.pk = q.pk
      BY <2>2, <3>1, <3>2, SlotTyped DEF JoinOf
    <3>4. r = q
      BY <1>1, <3>1, <3>2, <3>3, RowsTyped DEF StoreInv, OneKey
    <3> QED
      BY <1>1, <3>1, <3>2, <3>4 DEF StoreInv, OwnNew
  <2>3. \A i, j \in joins' : i.rel = j.rel /\ i.self = j.self /\ i.num = j.num => i = j
    BY <1>1, <1>2, <2>2 DEF StoreInv, JoinsExact, LoaderInv, JoinsOnce
  <2> QED
    BY <2>1, <2>3 DEF JoinsExact, JoinOf
<1> QED
  BY <1>4, <1>5, <1>7, <1>8, <1>9 DEF StoreInv

-----------------------------------------------------------------------------
LEMMA RowInit == Init => RowInv
<1> SUFFICES ASSUME Init PROVE RowInv
  OBVIOUS
<1>1. TypeOK
  BY InitTyped
<1>2. ASSUME NEW l \in Loader PROVE AtLastTable(l) /\ LoaderInv(l)
  <2>1. /\ phase[l] = "idle" /\ own[l] = {} /\ ownJoins[l] = {}
        /\ \A n \in Node : pk[l][n] = NoPk /\ ~exists[l][n]
    BY DEF Init
  <2>2. \A t \in Table : Stage(l)[t] = 0
    BY <2>1, StageTyped DEF Merging, StatementPhase
  <2>3. StagedRight(l)
    BY <2>1, <2>2, DocClosed DEF StagedRight, MarkRight, PresentRight, KeyRight
  <2> QED
    BY <2>1, <2>3 DEF AtLastTable, LoaderInv, OwnRight, JoinsSound, JoinsOnce, JoinsWhole
<1>3. StoreInv
  <2>1. Rows = {} /\ db = {} /\ joins = {}
    BY DEF Init, Rows
  <2> QED
    BY <2>1 DEF StoreInv, OneRow, OneKey, KeysUsed, OwnNew, ParentsStored, CommittedComplete, JoinsExact
<1> QED
  BY <1>1, <1>2, <1>3 DEF RowInv

LEMMA RowStep == RowInv /\ [Next]_vars => RowInv'
<1> SUFFICES ASSUME RowInv, [Next]_vars PROVE RowInv'
  OBVIOUS
<1>1. TypeOK /\ TypeOK' /\ StoreInv /\ single' = single /\ db \subseteq db'
  BY StepTyped, CallsFixed, StoreGrows DEF RowInv
<1>2. \A l \in Loader : AtLastTable(l)'
  BY LastTableStep DEF RowInv
<1>3. ASSUME NEW l \in Loader, Untouched(l) PROVE LoaderInv(l)'
  BY <1>1, <1>3, LoaderKept DEF RowInv
<1>4. ASSUME NEW l \in Loader, LoaderStep(l) \/ StatementFails(l), LoaderInv(l)'
      PROVE  \A m \in Loader : LoaderInv(m)'
  <2> TAKE m \in Loader
  <2>1. CASE m = l
    BY <1>4, <2>1
  <2>2. CASE m # l
    BY <1>1, <1>3, <1>4, <2>2, OthersUntouched
  <2> QED
    BY <2>1, <2>2
<1>5. ASSUME NEW l \in Loader, InsertIntoTempTables(l) \/ DropTempTables(l) PROVE LoaderInv(l)' /\ StoreInv'
  <2>1. /\ ~Merging(l) /\ ~Merging(l)' /\ own' = own /\ ownJoins' = ownJoins
        /\ db' = db /\ joins' = joins /\ nextPk' = nextPk
        /\ \A n \in Node : pk'[l][n] = NoPk /\ ~exists'[l][n]
    BY <1>1, <1>5
    DEF InsertIntoTempTables, DropTempTables, ClearTemp, NoKeys, dbVars, Merging, StatementPhase, TypeOK
  <2>2. own[l] = {} /\ ownJoins[l] = {}
    BY <2>1, StageTyped, NothingOwn DEF RowInv
  <2>3. LoaderInv(l)'
    BY <2>1, <2>2, LoaderReset
  <2> QED
    BY <1>1, <2>1, <2>3, StoreKept
<1>6. ASSUME NEW l \in Loader, MergeIntoTargetTables(l) PROVE LoaderInv(l)' /\ StoreInv'
  <2>1. /\ phase[l] = "staged" /\ ~Merging(l) /\ phase'[l] = "start" /\ Merging(l)'
        /\ own' = own /\ ownJoins' = ownJoins /\ pk' = pk /\ exists' = exists
        /\ db' = db /\ joins' = joins /\ nextPk' = nextPk /\ grp'[l] = 1 /\ pos'[l] = 1
    BY <1>1, <1>6 DEF MergeIntoTargetTables, dbVars, tempVars, Merging, StatementPhase, TypeOK
  <2>2. /\ own[l] = {} /\ ownJoins[l] = {} /\ \A t \in Table : Stage(l)[t] = 0
    BY <2>1, StageTyped, NothingOwn DEF RowInv
  <2>3. \A t \in Table : Stage(l)'[t] = 0
    BY <1>1, <2>1, StageStarted DEF TypeOK
  <2>4. StagedRight(l)'
    <3> SUFFICES ASSUME NEW n \in Doc[l] PROVE MarkRight(l, n)' /\ PresentRight(l, n)' /\ KeyRight(l, n)'
      BY DEF StagedRight
    <3>1. MarkRight(l, n) /\ KeyRight(l, n) /\ Tb[n] \in Table
      BY <2>1, DocClosed DEF RowInv, LoaderInv, StagedRight
    <3> QED
      BY <2>1, <2>2, <2>3, <3>1 DEF MarkRight, PresentRight, KeyRight
  <2>5. LoaderInv(l)'
    BY <2>1, <2>2, <2>4 DEF LoaderInv, OwnRight, JoinsSound, JoinsOnce, JoinsWhole
  <2> QED
    BY <1>1, <2>1, <2>5, StoreKept
<1>7. ASSUME NEW l \in Loader, LoadAgain(l) PROVE LoaderInv(l)' /\ StoreInv'
  <2>1. /\ ~Merging(l) /\ ~Merging(l)' /\ own' = own /\ ownJoins' = ownJoins /\ pk' = pk
        /\ exists' = exists /\ db' = db /\ joins' = joins /\ nextPk' = nextPk /\ phase[l] = "failed"
    BY <1>1, <1>7
    DEF LoadAgain, Step, dbVars, tempVars, Merging, StatementPhase, TypeOK
  <2>2. /\ own[l] = {} /\ ownJoins[l] = {} /\ \A t \in Table : Stage(l)[t] = 0
    BY <2>1, StageTyped, NothingOwn DEF RowInv
  <2>3. \A t \in Table : Stage(l)'[t] = 0
    BY <2>1 DEF Stage
  <2>4. StagedRight(l)'
    <3> SUFFICES ASSUME NEW n \in Doc[l] PROVE MarkRight(l, n)' /\ PresentRight(l, n)' /\ KeyRight(l, n)'
      BY DEF StagedRight
    <3>1. MarkRight(l, n) /\ KeyRight(l, n) /\ Tb[n] \in Table
      BY <2>1, DocClosed DEF RowInv, LoaderInv, StagedRight
    <3> QED
      BY <2>1, <2>2, <2>3, <3>1 DEF MarkRight, PresentRight, KeyRight
  <2>5. LoaderInv(l)'
    BY <2>1, <2>2, <2>4 DEF LoaderInv, OwnRight, JoinsSound, JoinsOnce, JoinsWhole
  <2> QED
    BY <1>1, <2>1, <2>5, StoreKept
<1>8. ASSUME NEW l \in Loader, NEW why, Abort(l, why) PROVE LoaderInv(l)' /\ StoreInv'
  <2>1. /\ phase'[l] = "cleanup" /\ ~Merging(l)' /\ own'[l] = {} /\ ownJoins'[l] = {}
        /\ db' = db /\ joins' = joins /\ nextPk' = nextPk
        /\ \A m \in Loader : own'[m] \subseteq own[m]
    BY <1>1, <1>8 DEF Abort, Merging, StatementPhase, TypeOK
  <2> QED
    BY <1>1, <2>1, LoaderReset, StoreKept
<1>9. ASSUME NEW l \in Loader,
             \/ MarkExisting(l) \/ InheritParent(l) \/ ResolveForeignKeys(l) \/ WriteBackKeys(l)
             \/ InsertJoinRows(l)
      PROVE  LoaderInv(l)' /\ StoreInv'
  <2>1. LoaderInv(l)'
    BY <1>1, <1>9, MarkStep, InheritStep, ResolveStep, WriteBackStep, JoinStep
  <2>2. db' = db /\ joins' = joins /\ nextPk' = nextPk /\ own' = own
    BY <1>9
    DEF MarkExisting, InheritParent, ResolveForeignKeys, WriteBackKeys, InsertJoinRows, dbVars
  <2> QED
    BY <1>1, <2>1, <2>2, StoreKept
<1>10. ASSUME NEW l \in Loader, LoaderStep(l) \/ StatementFails(l)
       PROVE  LoaderInv(l)' /\ StoreInv'
  BY <1>1, <1>5, <1>6, <1>7, <1>8, <1>9, <1>10, InsertStep, InsertStore, CommitStep, CommitStore
  DEF LoaderStep, InsertConflict, JoinNotNull, StatementFails
<1>11. CASE Kill
  <2>1. ASSUME NEW l \in Loader
        PROVE  /\ ~Merging(l)' /\ own'[l] = {} /\ ownJoins'[l] = {}
               /\ \A n \in Node : pk'[l][n] = NoPk /\ ~exists'[l][n]
    BY <1>11 DEF Kill, ClearTemp, NoKeys, Merging, StatementPhase
  <2>2. \A l \in Loader : LoaderInv(l)'
    BY <2>1, LoaderReset
  <2>3. StoreInv'
    BY <1>1, <1>11, <2>1, StoreKept DEF Kill
  <2> QED
    BY <1>1, <1>2, <2>2, <2>3 DEF RowInv
<1>12. CASE UNCHANGED vars
  <2>1. \A l \in Loader : Untouched(l)
    BY <1>12 DEF vars, dbVars, whereVars, tempVars, endVars, Untouched
  <2>2. StoreInv'
    BY <1>1, <1>12, StoreKept DEF vars, dbVars
  <2> QED
    BY <1>1, <1>2, <1>3, <2>1, <2>2 DEF RowInv
<1> QED
  BY <1>1, <1>2, <1>4, <1>10, <1>11, <1>12 DEF Next, Finished, RowInv

LEMMA RowsHold == Spec => []RowInv
BY RowInit, RowStep, PTL DEF Spec

(***************************************************************************)
(* However the loads of documents that share records interleave, fail or   *)
(* are repeated, a record is stored once.                                  *)
(***************************************************************************)
THEOREM RecordsStoredOnce == Spec => []OneRowPerRecord
<1>1. RowInv => OneRowPerRecord
  BY DEF RowInv, StoreInv, OneRow, Rows, OneRowPerRecord
<1> QED
  BY <1>1, RowsHold, PTL

(***************************************************************************)
(* A committed row has its join rows and the rows of its duplicated        *)
(* children, whatever fails between two transactions.                      *)
(***************************************************************************)
THEOREM SubtreesWhole == Spec => []CommittedComplete
<1>1. RowInv => CommittedComplete
  BY DEF RowInv, StoreInv
<1> QED
  BY <1>1, RowsHold, PTL

(***************************************************************************)
(* There is no other join row, and none twice.                             *)
(***************************************************************************)
THEOREM NoOtherJoinRow == Spec => []JoinsExact
<1>1. RowInv => JoinsExact
  BY DEF RowInv, StoreInv
<1> QED
  BY <1>1, RowsHold, PTL

-----------------------------------------------------------------------------
(***************************************************************************)
(* A staged row refers to the row of its child once the n-1 relations of   *)
(* its table are resolved, and before to nothing.                          *)
(***************************************************************************)
FkRight(l, n) ==
  \A rel \in Rel1 : From[rel] = Tb[n] =>
    IF Child1[rel][n] = NoNode \/ Stage(l)[Tb[n]] < 2 THEN fk[l][rel][n] = NoPk
    ELSE Refers(Visible(l), Child1[rel][n], fk[l][rel][n])

FksRight(l) == phase[l] # "cleanup" => \A n \in Doc[l] : FkRight(l, n)

FkFaithful(rows, r) ==
  \A rel \in Rel1 : From[rel] = Tb[r.node] =>
    IF Child1[rel][r.node] = NoNode THEN r.fk[rel] = NoPk
    ELSE Refers(rows, Child1[rel][r.node], r.fk[rel])

FksStored == \A r \in db : FkFaithful(db, r)

ReadInv == /\ RowInv
           /\ ReadsFollowed => /\ \A l \in Loader : FksRight(l)
                               /\ FksStored

(***************************************************************************)
(* The parent's row and the children's, for the rows of a transaction.     *)
(***************************************************************************)
LEMMA OwnFaithful ==
  ASSUME ReadInv, ReadsFollowed, NEW l \in Loader, NEW r \in own[l]
  PROVE  RowFaithful(Visible(l), r)
<1>1. TypeOK /\ LoaderInv(l) /\ FksRight(l) /\ OwnRow(l, r) /\ r.node \in Doc[l]
  BY DEF ReadInv, RowInv, LoaderInv, OwnRight, OwnRow
<1>2. Stage(l)[Tb[r.node]] >= 3 /\ Tb[r.node] \in Table
  BY <1>1, DocClosed DEF OwnRow
<1>3. phase[l] # "cleanup"
  BY <1>2, StageTyped DEF Merging, StatementPhase
<1>4. FkRight(l, r.node)
  BY <1>1, <1>3 DEF FksRight
<1>5. ~(Stage(l)[Tb[r.node]] < 2)
  BY <1>2, StageTyped
<1>6. \A rel \in Rel1 : r.fk[rel] = fk[l][rel][r.node]
  BY <1>1 DEF OwnRow
<1>7. r.node \in DuplicatedNode => Refers(Visible(l), NodeParent[r.node], r.parent)
  BY <1>1, DocClosed DEF OwnRow, Refers, Visible
<1> QED
  BY <1>4, <1>5, <1>6, <1>7 DEF RowFaithful, FkRight

LEMMA ReadFaithful == ReadInv /\ ReadsFollowed => KeysFaithful
<1> SUFFICES ASSUME ReadInv, ReadsFollowed PROVE KeysFaithful
  OBVIOUS
<1>1. ParentsStored /\ FksStored
  BY DEF ReadInv, RowInv, StoreInv
<1>2. \A r \in db : RowFaithful(db, r)
  BY <1>1 DEF ParentsStored, FksStored, FkFaithful, RowFaithful
<1> QED
  BY <1>2, OwnFaithful DEF KeysFaithful

-----------------------------------------------------------------------------
(***************************************************************************)
(* A statement that resolves no foreign key keeps what they refer to.      *)
(***************************************************************************)
LEMMA FksKept ==
  ASSUME NEW l \in Loader, FksRight(l), fk'[l] = fk[l], Visible(l) \subseteq Visible(l)',
         phase[l] # "cleanup" \/ phase'[l] = "cleanup",
         \A t \in Table : Stage(l)'[t] < 2 <=> Stage(l)[t] < 2
  PROVE  FksRight(l)'
<1> SUFFICES ASSUME phase'[l] # "cleanup", NEW n \in Doc[l] PROVE FkRight(l, n)'
  BY DEF FksRight
<1>1. FkRight(l, n) /\ Tb[n] \in Table
  BY DocClosed DEF FksRight
<1>2. \A m, key : Refers(Visible(l), m, key) => Refers(Visible(l), m, key)'
  BY DEF Refers
<1> QED
  BY <1>1, <1>2 DEF FkRight

(***************************************************************************)
(* The tables that a table reads are merged before it, so the key of every *)
(* child is there to be read.                                              *)
(***************************************************************************)
LEMMA ResolveRight ==
  ASSUME ReadInv, ReadsFollowed, NEW l \in Loader, ResolveForeignKeys(l), single' = single
  PROVE  FksRight(l)'
<1> DEFINE T == MergedTable(l)
<1>1. /\ TypeOK /\ LoaderInv(l) /\ FksRight(l) /\ Merging(l) /\ phase[l] = "resolve"
      /\ phase'[l] = "insert" /\ Merging(l)'
  BY DEF ReadInv, RowInv, ResolveForeignKeys, Step, Merging, StatementPhase, TypeOK
<1>2. /\ grp' = grp /\ pos' = pos /\ Visible(l)' = Visible(l)
      /\ \A rel \in Rel1, n \in Node :
           fk'[l][rel][n] = IF HasChild(l, rel, n) THEN pk[l][Child1[rel][n]] ELSE fk[l][rel][n]
  BY <1>1 DEF ResolveForeignKeys, KeyOfChild, dbVars, Visible, TypeOK
<1>3. T \in Table /\ Stage(l)[T] = 1 /\ Stage(l) \in [Table -> 0..5]
  BY <1>1, MergedStage, StageTyped DEF Level
<1>4. Stage(l)' = [Stage(l) EXCEPT ![T] = 2]
  BY <1>1, <1>2, StageNext DEF Level
<1> SUFFICES ASSUME NEW n \in Doc[l], NEW rel \in Rel1, From[rel] = Tb[n]
             PROVE  IF Child1[rel][n] = NoNode \/ Stage(l)'[Tb[n]] < 2 THEN fk'[l][rel][n] = NoPk
                    ELSE Refers(Visible(l), Child1[rel][n], fk'[l][rel][n])
  BY <1>2 DEF FksRight, FkRight, Refers
<1>5. /\ n \in Node /\ Tb[n] \in Table
      /\ IF Child1[rel][n] = NoNode \/ Stage(l)[Tb[n]] < 2 THEN fk[l][rel][n] = NoPk
         ELSE Refers(Visible(l), Child1[rel][n], fk[l][rel][n])
  BY <1>1, DocClosed DEF FksRight, FkRight
<1>6. CASE Tb[n] = T
  <2>1. Stage(l)'[Tb[n]] = 2
    BY <1>3, <1>4, <1>6
  <2>2. CASE Child1[rel][n] = NoNode
    BY <1>2, <1>5, <2>2 DEF HasChild
  <2>3. CASE Child1[rel][n] # NoNode
    <3>1. Child1[rel][n] \in Doc[l] /\ Tb[Child1[rel][n]] = To[rel] /\ To[rel] \in Reused
      <4>1. Child1[rel][n] \in Doc[l]
        BY <2>3, DocClosed
      <4>2. Child1[rel][n] \in NodesOf(To[rel])
        BY <1>5, <2>3, ChildrenAssumption DEF NodesOf
      <4> QED
        BY <4>1, <4>2, TablesAssumption DEF NodesOf
    <3>2. Stage(l)[To[rel]] = 5
      BY <1>1, <1>6, ReadsDone
    <3>3. Child1[rel][n] \in ReusedNode
      BY <3>1, DocClosed
    <3>4. Refers(Visible(l), Child1[rel][n], pk[l][Child1[rel][n]])
      BY <1>1, <3>1, <3>2, <3>3 DEF LoaderInv, StagedRight, KeyRight
    <3>5. fk'[l][rel][n] = pk[l][Child1[rel][n]]
      BY <1>2, <1>5, <1>6, <2>3 DEF HasChild, Staged
    <3> QED
      BY <2>1, <2>3, <3>4, <3>5
  <2> QED
    BY <2>2, <2>3
<1>7. CASE Tb[n] # T
  <2>1. Stage(l)'[Tb[n]] = Stage(l)[Tb[n]]
    BY <1>3, <1>4, <1>5, <1>7
  <2>2. fk'[l][rel][n] = fk[l][rel][n]
    BY <1>2, <1>5, <1>7 DEF HasChild, Staged
  <2> QED
    BY <1>5, <2>1, <2>2
<1> QED
  BY <1>6, <1>7

LEMMA FksReset ==
  ASSUME NEW l \in Loader, ~Merging(l)',
         phase'[l] = "cleanup" \/ \A rel \in Rel1, n \in Node : fk'[l][rel][n] = NoPk
  PROVE  FksRight(l)'
<1>1. \A t \in Table : Stage(l)'[t] = 0
  BY DEF Stage
<1> QED
  BY <1>1, DocClosed DEF FksRight, FkRight

LEMMA FksStep ==
  ASSUME ReadInv, ReadsFollowed, NEW l \in Loader, LoaderStep(l) \/ StatementFails(l), [Next]_vars
  PROVE  FksRight(l)'
<1>1. TypeOK /\ FksRight(l) /\ single' = single /\ AtLastTable(l) /\ LoaderInv(l)
  BY CallsFixed DEF ReadInv, RowInv
<1>2. ASSUME InsertIntoTempTables(l) \/ DropTempTables(l) PROVE FksRight(l)'
  <2>1. ~Merging(l)' /\ \A rel \in Rel1, n \in Node : fk'[l][rel][n] = NoPk
    BY <1>1, <1>2
    DEF InsertIntoTempTables, DropTempTables, ClearTemp, NoKeys, Merging, StatementPhase, TypeOK
  <2> QED
    BY <2>1, FksReset
<1>3. ASSUME NEW why, Abort(l, why) PROVE FksRight(l)'
  <2>1. phase'[l] = "cleanup" /\ ~Merging(l)'
    BY <1>1, <1>3 DEF Abort, Merging, StatementPhase, TypeOK
  <2> QED
    BY <2>1, FksReset
<1>4. ASSUME MergeIntoTargetTables(l) \/ LoadAgain(l) PROVE FksRight(l)'
  <2>1. /\ ~Merging(l) /\ phase[l] # "cleanup" /\ phase'[l] \in {"start", "idle"}
        /\ db' = db /\ own' = own /\ fk' = fk
        /\ ~Merging(l)' \/ (phase'[l] = "start" /\ grp'[l] = 1 /\ pos'[l] = 1)
    BY <1>1, <1>4
    DEF MergeIntoTargetTables, LoadAgain, Step, Merging, StatementPhase, TypeOK, dbVars, tempVars
  <2>2. \A t \in Table : Stage(l)[t] = 0
    BY <2>1, StageTyped
  <2>3. \A t \in Table : Stage(l)'[t] = 0
    BY <1>1, <2>1, StageStarted DEF TypeOK
  <2> QED
    BY <1>1, <2>1, <2>2, <2>3, FksKept DEF Visible
<1>5. ASSUME \/ MarkExisting(l) \/ InheritParent(l) \/ InsertNew(l) \/ WriteBackKeys(l)
      PROVE  FksRight(l)'
  <2>1. /\ Merging(l) /\ Merging(l)' /\ phase[l] # "cleanup"
        /\ grp'[l] = grp[l] /\ pos'[l] = pos[l] /\ fk'[l] = fk[l] /\ db' = db
    BY <1>1, <1>5
    DEF MarkExisting, InheritParent, InsertNew, WriteBackKeys, Step, Merging, StatementPhase, TypeOK,
        dbVars, tempVars
  <2>2. own[l] \subseteq own'[l]
    <3>1. CASE InsertNew(l)
      <4>1. PICK key : own' = [own EXCEPT ![l] = @ \union {NewRow(l, n, key[n]) : n \in Fresh(l)}]
        BY <3>1 DEF InsertNew
      <4> QED
        BY <1>1, <4>1 DEF TypeOK
    <3>2. CASE ~InsertNew(l)
      BY <1>5, <3>2 DEF MarkExisting, InheritParent, WriteBackKeys, dbVars
    <3> QED
      BY <3>1, <3>2
  <2>3. Level(phase'[l]) < 2 <=> Level(phase[l]) < 2
    BY <1>1, <1>5 DEF Level, MarkExisting, InheritParent, InsertNew, WriteBackKeys, Step, TypeOK
  <2>4. /\ Stage(l)' = [Stage(l) EXCEPT ![MergedTable(l)] = Level(phase'[l])]
        /\ Stage(l)[MergedTable(l)] = Level(phase[l]) /\ Stage(l) \in [Table -> 0..5]
    BY <1>1, <2>1, StageNext, MergedStage, StageTyped
  <2>5. \A t \in Table : Stage(l)'[t] < 2 <=> Stage(l)[t] < 2
    BY <2>3, <2>4
  <2> QED
    BY <1>1, <2>1, <2>2, <2>5, FksKept DEF Visible
<1>6. ASSUME InsertJoinRows(l) PROVE FksRight(l)'
  <2>1. Merging(l) /\ phase[l] = "join" /\ db' = db /\ own' = own /\ fk' = fk
    BY <1>6 DEF InsertJoinRows, Merging, StatementPhase, tempVars
  <2>2. /\ Stage(l)' = [Stage(l) EXCEPT ![MergedTable(l)] = 5]
        /\ Stage(l)[MergedTable(l)] = 4 /\ Stage(l) \in [Table -> 0..5]
    BY <1>1, <1>6, <2>1, StageJoined, MergedStage, StageTyped DEF Level
  <2>3. \A t \in Table : Stage(l)'[t] < 2 <=> Stage(l)[t] < 2
    BY <2>2
  <2> QED
    BY <1>1, <2>1, <2>3, FksKept DEF Visible
<1>7. ASSUME Commit(l) PROVE FksRight(l)'
  <2>1. fk' = fk /\ Visible(l)' = Visible(l) /\ phase[l] # "cleanup"
    BY <1>1, <1>7 DEF Commit, tempVars, Visible, TypeOK
  <2>2. CASE grp[l] < Len(Transactions)
    BY <1>1, <1>7, <2>1, <2>2, StageCommitted, FksKept
  <2>3. CASE ~(grp[l] < Len(Transactions))
    <3>1. phase'[l] = "cleanup" /\ ~Merging(l)'
      BY <1>1, <1>7, <2>3 DEF Commit, TypeOK, Merging, StatementPhase
    <3> QED
      BY <3>1, FksReset
  <2> QED
    BY <2>2, <2>3
<1> QED
  BY <1>1, <1>2, <1>3, <1>4, <1>5, <1>6, <1>7, ResolveRight
  DEF LoaderStep, InsertConflict, JoinNotNull, StatementFails

LEMMA FksStoredStep == ReadInv /\ ReadsFollowed /\ [Next]_vars => FksStored'
<1> SUFFICES ASSUME ReadInv, ReadsFollowed, [Next]_vars, NEW r \in db' PROVE FkFaithful(db, r)'
  BY DEF FksStored
<1>1. FksStored /\ db \subseteq db'
  BY StoreGrows DEF ReadInv
<1>2. \A n, key : Refers(db, n, key) => Refers(db, n, key)'
  BY <1>1 DEF Refers
<1>3. CASE r \in db
  BY <1>1, <1>2, <1>3 DEF FksStored, FkFaithful
<1>4. ASSUME NEW l \in Loader, Commit(l), r \in own[l] PROVE FkFaithful(db, r)'
  <2>1. RowFaithful(Visible(l), r)
    BY <1>4, OwnFaithful
  <2>2. db' = Visible(l)
    BY <1>4 DEF Commit, Visible
  <2> QED
    BY <2>1, <2>2 DEF RowFaithful, FkFaithful, Refers
<1>5. r \in db \/ \E l \in Loader : Commit(l) /\ r \in own[l]
  BY DEF Next, LoaderStep, vars, dbVars, InsertIntoTempTables, MergeIntoTargetTables, MarkExisting,
         InheritParent, ResolveForeignKeys, InsertNew, InsertConflict, WriteBackKeys, InsertJoinRows,
         JoinNotNull, Commit, DropTempTables, LoadAgain, StatementFails, Abort, Kill, Finished
<1> QED
  BY <1>3, <1>4, <1>5

LEMMA ReadStep == ReadInv /\ [Next]_vars => ReadInv'
<1> SUFFICES ASSUME ReadInv, [Next]_vars PROVE ReadInv'
  OBVIOUS
<1>1. RowInv' /\ single' = single /\ db \subseteq db'
  BY RowStep, CallsFixed, StoreGrows DEF ReadInv
<1>2. ReadsFollowed' <=> ReadsFollowed
  BY <1>1 DEF ReadsFollowed, Transactions
<1> SUFFICES ASSUME ReadsFollowed PROVE FksStored' /\ \A l \in Loader : FksRight(l)'
  BY <1>1, <1>2 DEF ReadInv
<1>3. FksStored'
  BY FksStoredStep
<1>4. ASSUME NEW l \in Loader, Untouched(l) PROVE FksRight(l)'
  <2>1. Stage(l)' = Stage(l)
    BY <1>1, <1>4, StageKept DEF Untouched
  <2> QED
    BY <1>1, <1>4, <2>1, FksKept DEF Untouched, Visible, ReadInv
<1>5. ASSUME NEW l \in Loader, LoaderStep(l) \/ StatementFails(l), NEW m \in Loader
      PROVE  FksRight(m)'
  <2>1. CASE m = l
    BY <1>5, <2>1, FksStep
  <2>2. CASE m # l
    BY <1>4, <1>5, <2>2, OthersUntouched DEF ReadInv, RowInv
  <2> QED
    BY <2>1, <2>2
<1>6. ASSUME Kill, NEW l \in Loader PROVE FksRight(l)'
  <2>1. ~Merging(l)' /\ \A rel \in Rel1, n \in Node : fk'[l][rel][n] = NoPk
    BY <1>6 DEF Kill, ClearTemp, NoKeys, Merging, StatementPhase
  <2> QED
    BY <2>1, FksReset
<1>7. ASSUME UNCHANGED vars, NEW l \in Loader PROVE FksRight(l)'
  BY <1>4, <1>7 DEF vars, dbVars, whereVars, tempVars, endVars, Untouched
<1> QED
  BY <1>3, <1>5, <1>6, <1>7 DEF Next, Finished

LEMMA ReadInit == Init => ReadInv
<1> SUFFICES ASSUME Init PROVE FksStored /\ \A l \in Loader : FksRight(l)
  BY RowInit DEF ReadInv
<1>1. FksStored
  BY DEF Init, FksStored
<1>2. ASSUME NEW l \in Loader PROVE FksRight(l)
  <2>1. ~Merging(l) /\ \A rel \in Rel1, n \in Node : fk[l][rel][n] = NoPk
    BY DEF Init, Merging, StatementPhase
  <2>2. \A t \in Table : Stage(l)[t] = 0
    BY <2>1, StageTyped
  <2> QED
    BY <2>1, <2>2, DocClosed DEF FksRight, FkRight
<1> QED
  BY <1>1, <1>2

(***************************************************************************)
(* Every row references the rows its record refers to, wherever the        *)
(* transactions read no table before it is merged.                         *)
(***************************************************************************)
THEOREM RowsFaithful == Spec => [](ReadsFollowed => KeysFaithful)
<1>1. ReadInv => (ReadsFollowed => KeysFaithful)
  BY ReadFaithful
<1> QED
  BY <1>1, ReadInit, ReadStep, PTL DEF Spec

-----------------------------------------------------------------------------
(***************************************************************************)
(* The child of a join row was merged before, too.                         *)
(***************************************************************************)
LEMMA JoinKeysKnown ==
  ASSUME RowInv, ReadsFollowed, NEW l \in Loader, phase[l] = "join"
  PROVE  ChildKeysKnown(l)
<1> SUFFICES ASSUME NEW s \in NewSlots(l) PROVE pk[l][SlotChild(s)] # NoPk
  BY DEF ChildKeysKnown
<1>1. TypeOK /\ LoaderInv(l) /\ Merging(l) /\ phase[l] # "cleanup"
  BY DEF RowInv, Merging, StatementPhase
<1>2. s \in Slot /\ s.node \in Doc[l] /\ Tb[s.node] = MergedTable(l)
  BY DEF NewSlots, Fresh, Staged
<1>3. s.rel \in RelN /\ From[s.rel] = MergedTable(l)
  BY <1>2, SlotTyped
<1>4. Stage(l)[To[s.rel]] = 5
  BY <1>1, <1>3, ReadsDone
<1>5. SlotChild(s) \in Doc[l] /\ SlotChild(s) \in ReusedNode /\ Tb[SlotChild(s)] = To[s.rel]
  BY <1>2, DocClosed, KeysAsked
<1> QED
  BY <1>1, <1>4, <1>5 DEF LoaderInv, StagedRight, KeyRight

(***************************************************************************)
(* The outcome of a load changes at its first and last step only, and      *)
(* where it is aborted.                                                    *)
(***************************************************************************)
LEMMA OutcomeStep ==
  ASSUME TypeOK, [Next]_vars, NEW l \in Loader, outcome'[l] # outcome[l]
  PROVE  \/ InsertIntoTempTables(l) /\ outcome'[l] = "none"
         \/ InsertConflict(l) /\ outcome'[l] = "conflict"
         \/ JoinNotNull(l) /\ outcome'[l] = "notnull"
         \/ StatementFails(l) /\ outcome'[l] = "error"
         \/ Commit(l) /\ ~(grp[l] < Len(Transactions)) /\ outcome'[l] = "ok"
<1>1. PICK m \in Loader : LoaderStep(m) \/ StatementFails(m)
  BY DEF Next, Finished, Kill, vars, endVars
<1>2. m = l
  BY <1>1, OthersUntouched DEF Untouched
<1>3. CASE Commit(l)
  BY <1>3 DEF Commit, TypeOK
<1>4. CASE \/ MergeIntoTargetTables(l) \/ MarkExisting(l) \/ InheritParent(l)
           \/ ResolveForeignKeys(l) \/ InsertNew(l) \/ WriteBackKeys(l) \/ InsertJoinRows(l)
           \/ DropTempTables(l) \/ LoadAgain(l)
  BY <1>4
  DEF MergeIntoTargetTables, MarkExisting, InheritParent, ResolveForeignKeys, InsertNew,
      WriteBackKeys, InsertJoinRows, DropTempTables, LoadAgain, endVars
<1>5. CASE InsertIntoTempTables(l)
  BY <1>5 DEF InsertIntoTempTables, TypeOK
<1>6. ASSUME NEW why, Abort(l, why) PROVE outcome'[l] = why
  BY <1>6 DEF Abort, TypeOK
<1> QED
  BY <1>1, <1>2, <1>3, <1>4, <1>5, <1>6
  DEF LoaderStep, InsertConflict, JoinNotNull, StatementFails

(***************************************************************************)
(* No load fails on the key of a join row's child, whoever stored it.      *)
(***************************************************************************)
THEOREM JoinKeysFound == Spec => [](ReadsFollowed => NoMissingKey)
<1> DEFINE Found == RowInv /\ (ReadsFollowed => NoMissingKey)
<1>1. Init => Found
  BY RowInit DEF Init, NoMissingKey
<1>2. Found /\ [Next]_vars => Found'
  <2> SUFFICES ASSUME Found, [Next]_vars PROVE Found'
    OBVIOUS
  <2>1. RowInv' /\ (ReadsFollowed' <=> ReadsFollowed) /\ TypeOK
    BY RowStep, CallsFixed DEF RowInv, ReadsFollowed, Transactions
  <2>2. ASSUME ReadsFollowed, NEW l \in Loader PROVE outcome'[l] # "notnull"
    <3>1. outcome[l] # "notnull" /\ ~JoinNotNull(l)
      BY <2>2, JoinKeysKnown DEF NoMissingKey, JoinNotNull
    <3>2. outcome'[l] # outcome[l] => outcome'[l] # "notnull"
      BY <2>1, <3>1, OutcomeStep
    <3> QED
      BY <3>1, <3>2
  <2> QED
    BY <2>1, <2>2 DEF NoMissingKey
<1>3. Found => (ReadsFollowed => NoMissingKey)
  OBVIOUS
<1> QED
  BY <1>1, <1>2, <1>3, PTL DEF Spec

(***************************************************************************)
(* No duplicated table refers to another than its parent and children.     *)
(***************************************************************************)
ReadsInGroups == \A r \in Rel1 \union RelN : From[r] \in Reused

LEMMA ReadsAreFollowed == TypeOK => (single \/ ReadsInGroups => ReadsFollowed)
<1> SUFFICES ASSUME single \in BOOLEAN, single \/ ReadsInGroups, NEW r \in Rel1 \union RelN
             PROVE  Earlier(Transactions, To[r], From[r])
  BY CallersAssumption DEF TypeOK, ReadsFollowed
<1>1. CASE single
  <2>1. Transactions = <<OrderedTables>>
    BY <1>1 DEF Transactions
  <2>2. Earlier(<<OrderedTables>>, To[r], From[r])
    BY PlanOrdered, Zenon
  <2> QED
    BY <2>1, <2>2
<1>2. CASE ~single
  <2>1. Transactions = TransactionGroups
    BY <1>2 DEF Transactions
  <2>2. From[r] \in Reused
    BY <1>2 DEF ReadsInGroups
  <2>3. Earlier(TransactionGroups, To[r], From[r])
    BY <2>2, PlanOrdered, Zenon
  <2> QED
    BY <2>1, <2>3
<1> QED
  BY <1>1, <1>2

(***************************************************************************)
(* Keys are faithful, and join rows find theirs, in a single transaction;  *)
(* and in one per group where duplicated tables refer to no others.        *)
(***************************************************************************)
THEOREM FaithfulInOneTransaction ==
  Spec => [](single \/ ReadsInGroups => KeysFaithful /\ NoMissingKey)
<1>1. TypeOK => (single \/ ReadsInGroups => ReadsFollowed)
  BY ReadsAreFollowed
<1> QED
  BY <1>1, TypeCorrect, RowsFaithful, JoinKeysFound, PTL

-----------------------------------------------------------------------------
(***************************************************************************)
(* What a load that returned has stored: every record of its document, by  *)
(* this attempt or before.                                                 *)
(***************************************************************************)
DocumentStored(l) == \A n \in Doc[l] : Stored(db, n)
OkStored == \A l \in Loader : outcome[l] = "ok" => DocumentStored(l)

LEMMA OkStep == RowInv /\ OkStored /\ [Next]_vars => OkStored'
<1> SUFFICES ASSUME RowInv, OkStored, [Next]_vars, NEW l \in Loader, outcome'[l] = "ok",
                    NEW n \in Doc[l]
             PROVE  Stored(db, n)'
  BY DEF OkStored, DocumentStored
<1>1. TypeOK /\ LoaderInv(l) /\ AtLastTable(l) /\ db \subseteq db'
  BY StoreGrows DEF RowInv
<1>2. CASE outcome[l] = "ok"
  BY <1>1, <1>2 DEF OkStored, DocumentStored, Stored
<1>3. CASE outcome[l] # "ok"
  <2>1. Commit(l) /\ ~(grp[l] < Len(Transactions))
    BY <1>1, <1>3, OutcomeStep
  <2>2. phase[l] = "commit" /\ db' = db \union own[l]
    BY <2>1 DEF Commit
  <2>3. Stage(l)[Tb[n]] = 5
    BY <1>1, <2>1, <2>2, GroupDone, DocClosed
  <2>4. MarkRight(l, n) /\ PresentRight(l, n)
    BY <1>1, <2>2 DEF LoaderInv, StagedRight
  <2> QED
    BY <2>2, <2>3, <2>4 DEF MarkRight, PresentRight, Stored
<1> QED
  BY <1>2, <1>3

(***************************************************************************)
(* A load that returned without an error has stored all of its document,   *)
(* by its own rows or by rows that others had committed.                   *)
(***************************************************************************)
THEOREM LoadsStored == Spec => []OkStored
<1>1. Init => OkStored
  BY DEF Init, OkStored
<1> QED
  BY <1>1, OkStep, RowsHold, PTL DEF Spec

(***************************************************************************)
(* The refinement.  The part of its document that a transaction stores is  *)
(* closed: all of it, or what is stored of it now.                         *)
(***************************************************************************)
LEMMA TargetClosed == \A S : Target!Closed(S) <=> Closed(S)
BY DEF Target!Closed, Target!Slot, Target!SlotsOf, Target!SlotChild, Target!DuplicatedNode,
       Target!ReusedNode, Target!NodesOf,
       Closed, Slot, SlotsOf, SlotChild, DuplicatedNode, ReusedNode, NodesOf

StoredNodes == {r.node : r \in db}

LEMMA StoredClosed ==
  ReadInv /\ ReadsFollowed => \A l \in Loader : Closed(Doc[l] \intersect StoredNodes)
<1> SUFFICES ASSUME ReadInv, ReadsFollowed, NEW l \in Loader
             PROVE  Closed(Doc[l] \intersect StoredNodes)
  OBVIOUS
<1> DEFINE S == Doc[l] \intersect StoredNodes
<1>1. TypeOK /\ ParentsStored /\ CommittedComplete /\ FksStored
  BY DEF ReadInv, RowInv, StoreInv
<1>2. \A n, key : Refers(db, n, key) => n \in StoredNodes
  BY DEF Refers, StoredNodes
<1>3. \A n \in S : n \in Doc[l] /\ \E r \in db : r.node = n
  BY DEF StoredNodes
<1>4. ASSUME NEW n \in S, n \notin ReusedNode PROVE NodeParent[n] \in S
  <2>1. n \in DuplicatedNode /\ NodeParent[n] \in Doc[l]
    BY <1>3, <1>4, DocClosed DEF DuplicatedNode
  <2> QED
    BY <1>1, <1>2, <1>3, <2>1 DEF ParentsStored
<1>5. ASSUME NEW rel \in Rel1, NEW n \in S, Tb[n] = From[rel] PROVE Child1[rel][n] \in S \union {NoNode}
  <2>1. PICK r \in db : r.node = n
    BY <1>3
  <2>2. Child1[rel][n] # NoNode => Refers(db, Child1[rel][n], r.fk[rel])
    BY <1>1, <1>5, <2>1 DEF FksStored, FkFaithful
  <2> QED
    BY <1>2, <1>3, <1>5, <2>2, DocClosed
<1>6. ASSUME NEW s \in Slot, s.node \in S PROVE SlotChild(s) \in S
  <2>1. PICK r \in db : r.node = s.node
    BY <1>3, <1>6
  <2>2. \E key : Refers(db, SlotChild(s), key)
    BY <1>1, <2>1 DEF CommittedComplete, RowComplete
  <2> QED
    BY <1>2, <1>3, <1>6, <2>2, DocClosed
<1>7. ASSUME NEW n \in DuplicatedNode, NodeParent[n] \in S PROVE n \in S
  <2>1. PICK r \in db : r.node = NodeParent[n]
    BY <1>3, <1>7
  <2>2. \E d \in db : d.node = n
    BY <1>1, <2>1 DEF CommittedComplete, RowComplete
  <2> QED
    BY <1>3, <1>7, <2>2, DocClosed DEF StoredNodes
<1> QED
  BY <1>4, <1>5, <1>6, <1>7 DEF Closed

LEMMA StoredClosedNext ==
  ReadInv' /\ ReadsFollowed' => (\A l \in Loader : Closed(Doc[l] \intersect StoredNodes))'
BY StoredClosed, PTL

(***************************************************************************)
(* What a commit leaves of the document is one of its parts; the whole     *)
(* document in a single transaction.                                       *)
(***************************************************************************)
LEMMA CommitStores ==
  ASSUME ReadInv, ReadInv', ReadsFollowed, single' = single, NEW l \in Loader, Commit(l)
  PROVE  Target!StorePart(l)
<1>0. \A m \in Loader : Closed(Doc[m] \intersect StoredNodes')
  <2>1. ReadsFollowed'
    BY DEF ReadsFollowed, Transactions
  <2>2. (\A m \in Loader : Closed(Doc[m] \intersect StoredNodes))'
    BY <2>1, StoredClosedNext
  <2> QED
    BY <2>2 DEF Closed
<1>1. /\ TypeOK /\ TypeOK' /\ LoaderInv(l) /\ AtLastTable(l) /\ phase[l] = "commit"
      /\ db' = db \union own[l] /\ ReadsFollowed'
  BY DEF ReadInv, RowInv, Commit, ReadsFollowed, Transactions
<1>2. \A r \in own[l] : r.node \in Doc[l]
  BY <1>1 DEF LoaderInv, OwnRight, OwnRow
<1>3. StoredNodes' = StoredNodes \union {r.node : r \in own[l]}
  BY <1>1 DEF StoredNodes
<1>4. UNCHANGED <<single, {m \in Loader : phase[m] = "done"}>>
  <2>1. /\ phase' \in [Loader -> Phase] /\ phase \in [Loader -> Phase]
        /\ \E to \in {"start", "cleanup"} : phase' = [phase EXCEPT ![l] = to]
    BY <1>1 DEF Commit, TypeOK
  <2>2. \A m \in Loader : phase'[m] = "done" <=> phase[m] = "done"
    BY <1>1, <2>1
  <2> QED
    BY <2>2
<1>5. CASE single
  <2>1. \A n \in Doc[l] : n \in StoredNodes'
    <3> SUFFICES ASSUME NEW n \in Doc[l] PROVE n \in StoredNodes'
      OBVIOUS
    <3>1. Tb[n] \in Group(l) /\ Stage(l)[Tb[n]] = 5
      BY <1>1, <1>5, GroupDone, DocClosed
    <3>2. MarkRight(l, n) /\ PresentRight(l, n)
      BY <1>1 DEF LoaderInv, StagedRight
    <3> QED
      BY <1>1, <3>1, <3>2 DEF MarkRight, PresentRight, Stored, StoredNodes
  <2>2. StoredNodes' = StoredNodes \union Doc[l]
    BY <1>2, <1>3, <2>1
  <2> QED
    BY <1>4, <1>5, <2>2 DEF Target!StorePart, StoredNodes
<1>6. CASE ~single
  <2> DEFINE S == Doc[l] \intersect StoredNodes'
  <2>1. Closed(S)
    BY <1>0
  <2>2. S \in Target!Parts[l]
    BY <2>1, TargetClosed DEF Target!Parts
  <2>3. StoredNodes' = StoredNodes \union S
    BY <1>2, <1>3
  <2> QED
    BY <1>4, <1>6, <2>2, <2>3 DEF Target!StorePart, StoredNodes
<1> QED
  BY <1>5, <1>6

LEMMA TargetStep ==
  ASSUME ReadInv, ReadInv', OkStored, ReadsFollowed, [Next]_vars
  PROVE  [Target!Next]_Target!vars
<1>1. TypeOK /\ single' = single
  BY CallsFixed DEF ReadInv, RowInv
<1>2. ASSUME NEW l \in Loader, Commit(l) PROVE Target!Next
  BY <1>1, <1>2, CommitStores DEF Target!Next
<1>3. ASSUME NEW l \in Loader, DropTempTables(l), outcome[l] = "ok" PROVE Target!FinishLoad(l)
  <2>1. Doc[l] \subseteq StoredNodes
    BY <1>3 DEF OkStored, DocumentStored, Stored, StoredNodes
  <2>2. db' = db /\ \A m \in Loader : phase'[m] = "done" <=> phase[m] = "done" \/ m = l
    BY <1>1, <1>3 DEF DropTempTables, TypeOK, dbVars
  <2>3. {m \in Loader : phase[m] = "done"}' = {m \in Loader : phase[m] = "done"} \union {l}
    BY <2>2
  <2> QED
    BY <1>1, <2>1, <2>2, <2>3 DEF Target!FinishLoad, StoredNodes
<1>4. ASSUME db' = db, \A m \in Loader : phase'[m] = "done" <=> phase[m] = "done"
      PROVE  UNCHANGED Target!vars
  <2>1. {m \in Loader : phase[m] = "done"}' = {m \in Loader : phase[m] = "done"}
    BY <1>4
  <2> QED
    BY <1>1, <1>4, <2>1 DEF Target!vars
<1>5. ASSUME NEW l \in Loader, LoaderStep(l) \/ StatementFails(l), ~Commit(l),
             ~(DropTempTables(l) /\ outcome[l] = "ok")
      PROVE  UNCHANGED Target!vars
  <2>1. db' = db
    BY <1>5
    DEF LoaderStep, InsertIntoTempTables, MergeIntoTargetTables, MarkExisting, InheritParent,
        ResolveForeignKeys, InsertNew, InsertConflict, WriteBackKeys, InsertJoinRows, JoinNotNull,
        DropTempTables, LoadAgain, StatementFails, Abort, dbVars
  <2>2. phase'[l] # "done" /\ phase[l] # "done"
    BY <1>1, <1>5
    DEF LoaderStep, InsertIntoTempTables, MergeIntoTargetTables, MarkExisting, InheritParent,
        ResolveForeignKeys, InsertNew, InsertConflict, WriteBackKeys, InsertJoinRows, JoinNotNull,
        DropTempTables, LoadAgain, StatementFails, Abort, Step, Merging, StatementPhase, TypeOK
  <2>3. \A m \in Loader : m # l => phase'[m] = phase[m]
    BY <1>1, <1>5, OthersUntouched DEF Untouched
  <2> QED
    BY <1>4, <2>1, <2>2, <2>3
<1>6. CASE Kill
  BY <1>4, <1>6 DEF Kill
<1>7. CASE UNCHANGED vars
  BY <1>4, <1>7 DEF vars, dbVars, whereVars
<1> QED
  BY <1>2, <1>3, <1>5, <1>6, <1>7 DEF Next, Finished, Target!Next

(***************************************************************************)
(* Loading implements the store of Store.tla: it only grows, by closed     *)
(* parts of a document, by all of one in a single transaction, and a load  *)
(* that returned has stored its document.                                  *)
(***************************************************************************)
THEOREM LoadingIsStoring == Spec /\ ReadsFollowed => ImplementsStore
<1> DEFINE StoreRefined == ReadInv /\ OkStored /\ ReadsFollowed
<1>1. Init /\ ReadsFollowed => StoreRefined
  BY ReadInit DEF Init, OkStored
<1>2. StoreRefined /\ [Next]_vars => StoreRefined'
  BY ReadStep, OkStep, CallsFixed DEF ReadInv, ReadsFollowed, Transactions
<1>3. Init => Target!Init
  <2> SUFFICES ASSUME Init PROVE Target!Init
    OBVIOUS
  <2>1. single \in BOOLEAN
    BY CallersAssumption DEF Init
  <2> QED
    BY <2>1 DEF Init, Target!Init
<1>4. StoreRefined /\ StoreRefined' /\ [Next]_vars => [Target!Next]_Target!vars
  BY TargetStep
<1> QED
  BY <1>1, <1>2, <1>3, <1>4, PTL DEF Spec, ImplementsStore, Target!Spec

-----------------------------------------------------------------------------
(***************************************************************************)
(* MergeStats of a load that returned: the rows its last attempt wrote,    *)
(* and the reused records of its document that it did not.                 *)
(*                                                                         *)
(* The rows of the attempt, committed or not, and the records of reused    *)
(* tables whose insert has passed without writing them.                    *)
(***************************************************************************)
Written(l) == {r \in Visible(l) : r.by = <<l, attempt[l]>>}
Met(l) ==
  {n \in Doc[l] \intersect ReusedNode : Stage(l)[Tb[n]] >= 3 /\ n \notin TakenHashes(Written(l))}

WrittenMerged(l) ==
  /\ IsFiniteSet(Written(l))
  /\ \A r \in Written(l) : r.node \in Doc[l] /\ Stage(l)[Tb[r.node]] >= 3
Counted(l) == inserted[l] = Cardinality(Written(l)) /\ existing[l] = Cardinality(Met(l))
StoreCounted(l) ==
  /\ inserted[l] = Cardinality(WrittenBy(l))
  /\ existing[l] = Cardinality((Doc[l] \intersect ReusedNode) \ TakenHashes(WrittenBy(l)))

(***************************************************************************)
(* Attempts are told apart: no committed row is of a later attempt.        *)
(***************************************************************************)
PastAttempts(l) == \A r \in db : r.by[1] = l => r.by[2] <= attempt[l]

CountsRight(l) ==
  /\ PastAttempts(l)
  /\ phase[l] = "staged" => Written(l) = {}
  /\ Merging(l) => WrittenMerged(l) /\ Counted(l)
  /\ outcome[l] = "ok" => ~Merging(l) /\ phase[l] # "staged" /\ StoreCounted(l)

StatsInv == RowInv /\ \A l \in Loader : CountsRight(l)

-----------------------------------------------------------------------------
(***************************************************************************)
(* Only a loader's own commit adds rows of it to the target tables.        *)
(***************************************************************************)
LEMMA OwnBy ==
  ASSUME RowInv, NEW l \in Loader
  PROVE  /\ \A r \in own[l] : r.by = <<l, attempt[l]>>
         /\ Written(l) = WrittenBy(l) \union own[l]
<1>1. \A r \in own[l] : r.by = <<l, attempt[l]>>
  BY DEF RowInv, LoaderInv, OwnRight, OwnRow
<1> QED
  BY <1>1 DEF Written, WrittenBy, Visible

LEMMA RowsOfOthers ==
  ASSUME RowInv, [Next]_vars, NEW l \in Loader, ~Commit(l)
  PROVE  /\ \A r \in db' : r \in db \/ r.by[1] # l
         /\ attempt'[l] = attempt[l] => WrittenBy(l)' = WrittenBy(l) /\ PastAttempts(l)' = PastAttempts(l)
         /\ attempt'[l] = attempt[l] /\ own'[l] = own[l] => Written(l)' = Written(l)
<1>1. db \subseteq db'
  BY StoreGrows
<1>2. ASSUME NEW r \in db', r \notin db PROVE r.by[1] # l
  <2>1. PICK m \in Loader : Commit(m) /\ r \in own[m]
    BY <1>2
    DEF Next, LoaderStep, vars, dbVars, InsertIntoTempTables, MergeIntoTargetTables, MarkExisting,
        InheritParent, ResolveForeignKeys, InsertNew, InsertConflict, WriteBackKeys, InsertJoinRows,
        JoinNotNull, Commit, DropTempTables, LoadAgain, StatementFails, Abort, Kill, Finished
  <2>2. r.by = <<m, attempt[m]>> /\ m # l
    BY <2>1, OwnBy
  <2> QED
    BY <2>2
<1>3. ASSUME attempt'[l] = attempt[l]
      PROVE  WrittenBy(l)' = WrittenBy(l) /\ PastAttempts(l)' = PastAttempts(l)
  <2>1. \A r \in db' : r.by = <<l, attempt[l]>> => r \in db
    BY <1>2
  <2>2. WrittenBy(l)' = WrittenBy(l)
    BY <1>1, <1>3, <2>1 DEF WrittenBy
  <2>3. PastAttempts(l)' <=> PastAttempts(l)
    BY <1>1, <1>2, <1>3 DEF PastAttempts
  <2> QED
    BY <2>2, <2>3 DEF PastAttempts
<1>4. ASSUME attempt'[l] = attempt[l], own'[l] = own[l] PROVE Written(l)' = Written(l)
  <2>1. WrittenBy(l)' = WrittenBy(l)
    BY <1>3, <1>4
  <2> QED
    BY <1>4, <2>1 DEF Written, WrittenBy, Visible
<1> QED
  BY <1>2, <1>3, <1>4

(***************************************************************************)
(* A step of another loader counts nothing here.                           *)
(***************************************************************************)
LEMMA CountersOfOthers ==
  ASSUME TypeOK, NEW l \in Loader, LoaderStep(l) \/ StatementFails(l), NEW m \in Loader, m # l
  PROVE  inserted'[m] = inserted[m] /\ existing'[m] = existing[m]
<1>1. CASE MergeIntoTargetTables(l)
  BY <1>1 DEF MergeIntoTargetTables, TypeOK
<1>2. CASE InsertNew(l)
  BY <1>2 DEF InsertNew, TypeOK
<1>3. ASSUME NEW why, Abort(l, why) PROVE inserted'[m] = inserted[m] /\ existing'[m] = existing[m]
  BY <1>3 DEF Abort, TypeOK
<1> QED
  BY <1>1, <1>2, <1>3
  DEF LoaderStep, InsertIntoTempTables, MarkExisting, InheritParent, ResolveForeignKeys, InsertConflict,
      WriteBackKeys, InsertJoinRows, JoinNotNull, Commit, DropTempTables, LoadAgain, StatementFails,
      statVars

LEMMA CountsKept ==
  ASSUME RowInv, NEW l \in Loader, CountsRight(l), [Next]_vars, ~Commit(l), Untouched(l),
         inserted'[l] = inserted[l], existing'[l] = existing[l]
  PROVE  CountsRight(l)'
<1>1. /\ WrittenBy(l)' = WrittenBy(l) /\ PastAttempts(l)' /\ Written(l)' = Written(l)
      /\ Merging(l)' = Merging(l)
  BY RowsOfOthers DEF Untouched, CountsRight, Merging
<1>2. Stage(l)' = Stage(l)
  BY CallsFixed, StageKept DEF Untouched, RowInv
<1> QED
  BY <1>1, <1>2
  DEF CountsRight, Untouched, WrittenMerged, Counted, Met, StoreCounted, TakenHashes

(***************************************************************************)
(* A statement that inserts nothing counts nothing.                        *)
(***************************************************************************)
LEMMA CountsMoved ==
  ASSUME NEW l \in Loader, CountsRight(l), Merging(l), Merging(l)', phase'[l] # "staged",
         PastAttempts(l)', Written(l)' = Written(l), outcome'[l] = outcome[l],
         inserted'[l] = inserted[l], existing'[l] = existing[l],
         \A t \in Table : Stage(l)'[t] >= 3 <=> Stage(l)[t] >= 3
  PROVE  CountsRight(l)'
<1>1. \A n \in Doc[l] : Tb[n] \in Table
  BY DocClosed
<1>2. Met(l)' = Met(l)
  BY <1>1 DEF Met, TakenHashes
<1> QED
  BY <1>1, <1>2 DEF CountsRight, WrittenMerged, Counted

(***************************************************************************)
(* The insert counts the rows it writes; of a reused table it counts as    *)
(* existing the staged records it does not write, none of which this       *)
(* attempt has written before.                                             *)
(***************************************************************************)
LEMMA InsertCounts ==
  ASSUME RowInv, NEW l \in Loader, CountsRight(l), InsertNew(l), [Next]_vars
  PROVE  CountsRight(l)'
<1> DEFINE T == MergedTable(l)
           count == Cardinality(Fresh(l))
           kept == Staged(l) \ Fresh(l)
<1>1. /\ TypeOK /\ Merging(l) /\ phase[l] = "insert" /\ phase'[l] = "writeback" /\ Merging(l)'
      /\ WrittenMerged(l) /\ Counted(l) /\ outcome[l] # "ok" /\ ~Commit(l)
  BY DEF RowInv, InsertNew, Step, Commit, Merging, StatementPhase, CountsRight, TypeOK
<1>2. /\ db' = db /\ exists' = exists /\ attempt' = attempt /\ outcome' = outcome
      /\ grp' = grp /\ pos' = pos /\ single' = single
  BY CallsFixed DEF InsertNew, tempVars, endVars
<1>3. PICK key \in [Fresh(l) -> Nat] :
        own' = [own EXCEPT ![l] = @ \union {NewRow(l, n, key[n]) : n \in Fresh(l)}]
  BY Inserted
<1> DEFINE new == {NewRow(l, n, key[n]) : n \in Fresh(l)}
<1>4. own'[l] = own[l] \union new
  BY <1>1, <1>3 DEF TypeOK
<1>5. \A n : NewRow(l, n, key[n]).node = n /\ NewRow(l, n, key[n]).by = <<l, attempt[l]>>
  BY DEF NewRow
<1>6. /\ T \in Table /\ Stage(l)[T] = 2 /\ Stage(l) \in [Table -> 0..5]
      /\ Stage(l)' = [Stage(l) EXCEPT ![T] = 3]
  BY <1>1, <1>2, MergedStage, StageTyped, StageNext DEF Level
<1>7. /\ \A n \in Fresh(l) : n \in Doc[l] /\ Tb[n] = T /\ ~exists[l][n]
      /\ \A n : n \in kept <=> n \in Doc[l] /\ Tb[n] = T /\ n \notin Fresh(l)
  BY DEF Fresh, Staged
<1>8. Written(l)' = Written(l) \union new
  <2>1. \A r \in new : r.by = <<l, attempt[l]>>
    BY <1>5
  <2> HIDE DEF new
  <2>2. Visible(l)' = Visible(l) \union new
    BY <1>2, <1>4 DEF Visible
  <2> QED
    BY <1>2, <2>1, <2>2 DEF Written
<1> HIDE DEF T, count, kept
<1>9. IsFiniteSet(new) /\ Cardinality(new) = count /\ count \in Nat
  <2> DEFINE f == [n \in Fresh(l) |-> NewRow(l, n, key[n])]
  <2>1. f \in Bijection(Fresh(l), new)
    BY <1>5 DEF Bijection, Injection, Surjection, IsInjective
  <2>2. IsFiniteSet(Fresh(l)) /\ Cardinality(Fresh(l)) \in Nat
    BY StagedAreNodes
  <2> HIDE DEF f, new
  <2>3. ExistsBijection(Fresh(l), new)
    BY <2>1 DEF ExistsBijection
  <2> QED
    BY <2>2, <2>3, FS_Bijection DEF count
<1>10. new \intersect Written(l) = {}
  <2>1. \A r \in Written(l) : r \in Rows
    BY <1>1, RowsTyped DEF Written
  <2> QED
    BY <1>5, <2>1, FreshUnknown
<1>11. IsFiniteSet(Written(l)') /\ Cardinality(Written(l)') = Cardinality(Written(l)) + count
  <2>1. IsFiniteSet(Written(l)) /\ Cardinality(Written(l)) \in Nat
    BY <1>1, FS_CardinalityType DEF WrittenMerged
  <2> HIDE DEF new
  <2>2. Cardinality(Written(l) \intersect new) = 0
    <3>1. Written(l) \intersect new = {}
      BY <1>10
    <3> QED
      BY <3>1, FS_EmptySet
  <2>3. /\ IsFiniteSet(Written(l) \union new)
        /\ Cardinality(Written(l) \union new)
             = Cardinality(Written(l)) + Cardinality(new) - Cardinality(Written(l) \intersect new)
    BY <1>9, <2>1, FS_Union
  <2>4. Cardinality(Written(l) \union new) = Cardinality(Written(l)) + count
    BY <1>9, <2>1, <2>2, <2>3
  <2> QED
    BY <1>8, <2>3, <2>4
<1>12. \A r \in Written(l)' : r.node \in Doc[l] /\ Stage(l)'[Tb[r.node]] >= 3
  <2>1. ASSUME NEW r \in Written(l) PROVE r.node \in Doc[l] /\ Stage(l)'[Tb[r.node]] >= 3
    <3>1. r.node \in Doc[l] /\ Stage(l)[Tb[r.node]] >= 3 /\ Tb[r.node] \in Table
      BY <1>1, DocClosed DEF WrittenMerged
    <3> QED
      BY <1>6, <3>1
  <2>2. \A r \in new : r.node \in Doc[l] /\ Stage(l)'[Tb[r.node]] >= 3
    BY <1>5, <1>6, <1>7
  <2> QED
    BY <1>8, <2>1, <2>2
<1>13. \A n : n \in TakenHashes(Written(l))' <=> n \in TakenHashes(Written(l)) \/ n \in Fresh(l)
  BY <1>5, <1>8 DEF TakenHashes
<1>14. \A n \in Doc[l] : Tb[n] = T => n \notin TakenHashes(Written(l))
  BY <1>1, <1>6 DEF WrittenMerged, TakenHashes
<1>15. Met(l)' = Met(l) \union (kept \intersect ReusedNode)
  <2>1. \A n \in Doc[l] :
          /\ Tb[n] \in Table
          /\ Tb[n] # T => Stage(l)'[Tb[n]] = Stage(l)[Tb[n]] /\ n \notin Fresh(l)
          /\ Tb[n] = T => Stage(l)'[Tb[n]] = 3
    BY <1>6, <1>7, DocClosed
  <2> QED
    BY <1>6, <1>7, <1>13, <1>14, <2>1 DEF Met
<1>16. Met(l) \intersect (kept \intersect ReusedNode) = {}
  BY <1>6, <1>7 DEF Met
<1>17. /\ IsFiniteSet(kept \intersect ReusedNode)
       /\ Cardinality(kept \intersect ReusedNode) = CountExisting(l, count) /\ CountExisting(l, count) \in Nat
  <2>1. /\ IsFiniteSet(Staged(l)) /\ Fresh(l) \subseteq Staged(l) /\ Cardinality(Staged(l)) \in Nat
        /\ count \in Nat
    BY StagedAreNodes DEF count
  <2>2. IsFiniteSet(kept) /\ Cardinality(kept) = Cardinality(Staged(l)) - count
    <3>1. Staged(l) \intersect Fresh(l) = Fresh(l)
      BY <2>1
    <3> QED
      BY <2>1, <3>1, FS_Difference DEF kept, count
  <2>3. CASE T \in Reused
    <3>1. kept \intersect ReusedNode = kept
      BY <1>7, <2>3, DocClosed
    <3> QED
      BY <2>2, <2>3, <3>1, FS_CardinalityType DEF CountExisting, T
  <2>4. CASE T \notin Reused
    <3>1. kept \intersect ReusedNode = {}
      BY <1>7, <2>4 DEF ReusedNode
    <3> QED
      BY <2>4, <3>1, FS_EmptySet DEF CountExisting, T
  <2> QED
    BY <2>3, <2>4
<1>18. Cardinality(Met(l)') = Cardinality(Met(l)) + CountExisting(l, count)
  <2>1. IsFiniteSet(Met(l)) /\ Cardinality(Met(l)) \in Nat
    <3>1. Met(l) \subseteq Node
      BY StagedAreNodes DEF Met
    <3> QED
      BY <3>1, NodesAssumption, FS_Subset, FS_CardinalityType
  <2>2. Cardinality(Met(l) \intersect (kept \intersect ReusedNode)) = 0
    BY <1>16, FS_EmptySet
  <2>3. Cardinality(Met(l) \union (kept \intersect ReusedNode))
          = Cardinality(Met(l)) + Cardinality(kept \intersect ReusedNode)
            - Cardinality(Met(l) \intersect (kept \intersect ReusedNode))
    BY <1>17, <2>1, FS_Union
  <2> QED
    BY <1>15, <1>17, <2>1, <2>2, <2>3
<1>19. inserted'[l] = inserted[l] + count /\ existing'[l] = existing[l] + CountExisting(l, count)
  <2>1. /\ inserted' = [inserted EXCEPT ![l] = @ + count]
        /\ existing' = [existing EXCEPT ![l] = @ + CountExisting(l, count)]
    BY DEF InsertNew, count
  <2>2. inserted \in [Loader -> Nat] /\ existing \in [Loader -> Nat]
    BY <1>1 DEF TypeOK
  <2> HIDE DEF count
  <2> QED
    BY <2>1, <2>2
<1>20. PastAttempts(l)'
  BY <1>2 DEF CountsRight, PastAttempts
<1>21. Counted(l)'
  BY <1>1, <1>11, <1>18, <1>19 DEF Counted
<1>22. WrittenMerged(l)'
  BY <1>11, <1>12 DEF WrittenMerged
<1> QED
  BY <1>1, <1>2, <1>20, <1>21, <1>22 DEF CountsRight

(***************************************************************************)
(* After the last commit the insert of every table has passed: what was    *)
(* counted is what is stored, and the rest of the reused records.          *)
(***************************************************************************)
LEMMA CommitCounts ==
  ASSUME RowInv, NEW l \in Loader, CountsRight(l), Commit(l), single' = single
  PROVE  CountsRight(l)'
<1>1. /\ TypeOK /\ AtLastTable(l) /\ phase[l] = "commit" /\ Merging(l) /\ outcome[l] # "ok"
      /\ WrittenMerged(l) /\ Counted(l) /\ PastAttempts(l)
  BY DEF RowInv, Commit, Merging, StatementPhase, CountsRight
<1>2. /\ db' = db \union own[l] /\ own'[l] = {} /\ attempt' = attempt
      /\ inserted' = inserted /\ existing' = existing
  BY <1>1 DEF Commit, statVars, TypeOK
<1>3. Visible(l)' = Visible(l) /\ Written(l)' = Written(l) /\ WrittenBy(l)' = Written(l)
  BY <1>2 DEF Visible, Written, WrittenBy
<1>4. PastAttempts(l)'
  <2>1. \A r \in own[l] : r.by = <<l, attempt[l]>> /\ attempt[l] \in Nat
    BY <1>1, OwnBy DEF TypeOK
  <2> QED
    BY <1>1, <1>2, <2>1 DEF PastAttempts
<1>5. CASE grp[l] < Len(Transactions)
  <2>1. Stage(l)' = Stage(l) /\ phase'[l] = "start"
    BY <1>1, <1>5, StageCommitted
  <2>2. Merging(l)' /\ outcome'[l] = outcome[l]
    BY <1>5, <2>1 DEF Commit, Merging, StatementPhase
  <2> QED
    BY <1>1, <1>2, <1>3, <1>4, <2>1, <2>2, CountsMoved
<1>6. CASE ~(grp[l] < Len(Transactions))
  <2>1. phase'[l] = "cleanup" /\ ~Merging(l)'
    BY <1>1, <1>6 DEF Commit, Merging, StatementPhase, TypeOK
  <2>2. \A n \in Doc[l] : Stage(l)[Tb[n]] = 5
    BY <1>1, <1>6, GroupDone, DocClosed
  <2>3. Met(l) = (Doc[l] \intersect ReusedNode) \ TakenHashes(Written(l))
    BY <2>2 DEF Met
  <2>4. StoreCounted(l)'
    <3>1. TakenHashes(WrittenBy(l))' = TakenHashes(Written(l))
      BY <1>3 DEF TakenHashes
    <3> QED
      BY <1>1, <1>2, <1>3, <2>3, <3>1 DEF StoreCounted, Counted
  <2> QED
    BY <1>4, <2>1, <2>4 DEF CountsRight
<1> QED
  BY <1>5, <1>6

(***************************************************************************)
(* An attempt begins with nothing written.                                 *)
(***************************************************************************)
LEMMA StartCounts ==
  ASSUME RowInv, NEW l \in Loader, CountsRight(l), [Next]_vars,
         InsertIntoTempTables(l) \/ MergeIntoTargetTables(l)
  PROVE  CountsRight(l)'
<1>1. /\ TypeOK /\ single' = single /\ LoaderInv(l) /\ PastAttempts(l) /\ db' = db /\ own' = own
      /\ ~Merging(l)
  BY CallsFixed
  DEF RowInv, CountsRight, InsertIntoTempTables, MergeIntoTargetTables, dbVars, Merging, StatementPhase
<1>2. own[l] = {}
  BY <1>1, StageTyped, NothingOwn
<1>3. attempt[l] \in Nat
  BY <1>1 DEF TypeOK
<1>4. CASE InsertIntoTempTables(l)
  <2>1. /\ phase'[l] = "staged" /\ ~Merging(l)' /\ outcome'[l] = "none"
        /\ attempt'[l] = attempt[l] + 1
    BY <1>1, <1>4 DEF InsertIntoTempTables, TypeOK, Merging, StatementPhase
  <2>2. \A r \in db : r.by[1] = l => r.by[2] <= attempt[l] /\ r.by[2] \in Nat
    BY <1>1 DEF PastAttempts, TypeOK, Row
  <2>3. PastAttempts(l)'
    BY <1>1, <1>3, <2>1, <2>2 DEF PastAttempts
  <2>4. Written(l)' = {}
    BY <1>1, <1>2, <1>3, <2>1, <2>2 DEF Written, Visible
  <2> QED
    BY <2>1, <2>3, <2>4 DEF CountsRight
<1>5. CASE MergeIntoTargetTables(l)
  <2>1. /\ phase[l] = "staged" /\ phase'[l] = "start" /\ Merging(l)' /\ grp'[l] = 1 /\ pos'[l] = 1
        /\ attempt' = attempt /\ outcome' = outcome /\ inserted'[l] = 0 /\ existing'[l] = 0
    BY <1>1, <1>5 DEF MergeIntoTargetTables, TypeOK, Merging, StatementPhase
  <2>2. Written(l)' = {} /\ outcome'[l] # "ok"
    BY <1>1, <2>1 DEF CountsRight, Written, Visible
  <2>3. \A t \in Table : Stage(l)'[t] = 0
    BY <1>1, <2>1, StageStarted DEF TypeOK
  <2>4. Met(l)' = {}
    BY <2>3, DocClosed DEF Met
  <2>5. PastAttempts(l)'
    BY <1>1, <2>1 DEF PastAttempts
  <2>6. WrittenMerged(l)' /\ Counted(l)'
    BY <2>1, <2>2, <2>4, FS_EmptySet DEF WrittenMerged, Counted
  <2> QED
    BY <2>1, <2>2, <2>5, <2>6 DEF CountsRight
<1> QED
  BY <1>4, <1>5

LEMMA CountsStep ==
  ASSUME RowInv, NEW l \in Loader, CountsRight(l), [Next]_vars, LoaderStep(l) \/ StatementFails(l)
  PROVE  CountsRight(l)'
<1>1. TypeOK /\ single' = single
  BY CallsFixed DEF RowInv
<1>2. ASSUME attempt'[l] = attempt[l], ~Commit(l) PROVE WrittenBy(l)' = WrittenBy(l) /\ PastAttempts(l)'
  BY <1>2, RowsOfOthers DEF CountsRight
<1>3. ASSUME NEW why, Abort(l, why), why # "ok" PROVE CountsRight(l)'
  <2>1. /\ phase'[l] = "cleanup" /\ ~Merging(l)' /\ outcome'[l] = why /\ attempt' = attempt /\ db' = db
    BY <1>1, <1>3 DEF Abort, TypeOK, Merging, StatementPhase
  <2>2. PastAttempts(l)'
    BY <2>1 DEF CountsRight, PastAttempts
  <2> QED
    BY <1>3, <2>1, <2>2 DEF CountsRight
<1>4. CASE DropTempTables(l) \/ LoadAgain(l)
  <2>1. /\ phase'[l] \in {"idle", "done", "failed"} /\ ~Merging(l)' /\ outcome' = outcome
        /\ attempt' = attempt /\ inserted' = inserted /\ existing' = existing /\ ~Commit(l)
    BY <1>1, <1>4
    DEF DropTempTables, LoadAgain, Step, TypeOK, Merging, StatementPhase, endVars, statVars, Commit
  <2> QED
    BY <1>2, <2>1 DEF CountsRight, StoreCounted, TakenHashes
<1>5. CASE MarkExisting(l) \/ InheritParent(l) \/ ResolveForeignKeys(l) \/ WriteBackKeys(l)
  <2>1. /\ Merging(l) /\ Merging(l)' /\ outcome' = outcome /\ attempt' = attempt /\ own' = own
        /\ inserted' = inserted /\ existing' = existing /\ ~Commit(l) /\ phase'[l] # "staged"
        /\ grp' = grp /\ pos' = pos
    BY <1>1, <1>5
    DEF MarkExisting, InheritParent, ResolveForeignKeys, WriteBackKeys, Step, TypeOK, Merging,
        StatementPhase, endVars, statVars, dbVars, Commit
  <2>2. Level(phase'[l]) >= 3 <=> Level(phase[l]) >= 3
    BY <1>1, <1>5
    DEF Level, MarkExisting, InheritParent, ResolveForeignKeys, WriteBackKeys, Step, TypeOK
  <2>3. /\ Stage(l)' = [Stage(l) EXCEPT ![MergedTable(l)] = Level(phase'[l])]
        /\ Stage(l)[MergedTable(l)] = Level(phase[l]) /\ Stage(l) \in [Table -> 0..5]
    BY <1>1, <2>1, StageNext, MergedStage, StageTyped
  <2>4. \A t \in Table : Stage(l)'[t] >= 3 <=> Stage(l)[t] >= 3
    BY <2>2, <2>3
  <2>5. Written(l)' = Written(l) /\ PastAttempts(l)'
    BY <1>2, <2>1, RowsOfOthers
  <2> QED
    BY <2>1, <2>4, <2>5, CountsMoved
<1>6. CASE InsertJoinRows(l)
  <2>1. /\ Merging(l) /\ Merging(l)' /\ outcome' = outcome /\ attempt' = attempt /\ own' = own
        /\ inserted' = inserted /\ existing' = existing /\ ~Commit(l) /\ phase'[l] # "staged"
        /\ phase[l] = "join"
    BY <1>1, <1>6 DEF InsertJoinRows, TypeOK, Merging, StatementPhase, endVars, statVars, Commit
  <2>2. /\ Stage(l)' = [Stage(l) EXCEPT ![MergedTable(l)] = 5]
        /\ Stage(l)[MergedTable(l)] = 4 /\ Stage(l) \in [Table -> 0..5]
    BY <1>1, <1>6, <2>1, StageJoined, MergedStage, StageTyped DEF Level
  <2>3. \A t \in Table : Stage(l)'[t] >= 3 <=> Stage(l)[t] >= 3
    BY <2>2
  <2>4. Written(l)' = Written(l) /\ PastAttempts(l)'
    BY <1>2, <2>1, RowsOfOthers
  <2> QED
    BY <2>1, <2>3, <2>4, CountsMoved
<1> QED
  BY <1>1, <1>3, <1>4, <1>5, <1>6, StartCounts, InsertCounts, CommitCounts
  DEF LoaderStep, InsertConflict, JoinNotNull, StatementFails

LEMMA StatsStep == StatsInv /\ [Next]_vars => StatsInv'
<1> SUFFICES ASSUME StatsInv, [Next]_vars, NEW l \in Loader PROVE CountsRight(l)'
  BY RowStep DEF StatsInv
<1>1. RowInv /\ TypeOK /\ CountsRight(l)
  BY DEF StatsInv, RowInv
<1>2. ASSUME NEW m \in Loader, LoaderStep(m) \/ StatementFails(m) PROVE CountsRight(l)'
  <2>1. CASE m = l
    BY <1>1, <1>2, <2>1, CountsStep
  <2>2. CASE m # l
    <3>1. Untouched(l) /\ inserted'[l] = inserted[l] /\ existing'[l] = existing[l]
      BY <1>1, <1>2, <2>2, OthersUntouched, CountersOfOthers
    <3>2. CASE Commit(l)
      BY <1>1, <3>2, CallsFixed, CommitCounts
    <3> QED
      BY <1>1, <3>1, <3>2, CountsKept
  <2> QED
    BY <2>1, <2>2
<1>3. CASE Kill
  <2>1. /\ phase'[l] \in {"idle", "done"} /\ ~Merging(l)' /\ outcome' = outcome /\ attempt' = attempt
        /\ inserted' = inserted /\ existing' = existing /\ db' = db
    BY <1>3 DEF Kill, Merging, StatementPhase, statVars
  <2> QED
    BY <1>1, <2>1 DEF CountsRight, PastAttempts, StoreCounted, WrittenBy, TakenHashes
<1>4. CASE UNCHANGED vars
  <2>1. Untouched(l) /\ inserted'[l] = inserted[l] /\ existing'[l] = existing[l]
    BY <1>4 DEF vars, dbVars, whereVars, tempVars, endVars, statVars, Untouched
  <2>2. CASE Commit(l)
    BY <1>1, <2>2, CallsFixed, CommitCounts
  <2> QED
    BY <1>1, <2>1, <2>2, CountsKept
<1> QED
  BY <1>2, <1>3, <1>4 DEF Next, Finished

LEMMA StatsInit == Init => StatsInv
<1> SUFFICES ASSUME Init, NEW l \in Loader PROVE CountsRight(l)
  BY RowInit DEF StatsInv
<1>1. phase[l] = "idle" /\ outcome[l] = "none" /\ db = {}
  BY DEF Init
<1> QED
  BY <1>1 DEF CountsRight, PastAttempts, Merging, StatementPhase

(***************************************************************************)
(* The MergeStats of a load that returned: inserted counts the rows its    *)
(* last attempt wrote, existing the reused records of its document that it *)
(* did not write.                                                          *)
(***************************************************************************)
THEOREM StatsAreRight == Spec => []StatsMatchStore
<1>1. StatsInv => StatsMatchStore
  BY DEF StatsInv, CountsRight, StoreCounted, TakenHashes, StatsMatchStore
<1> QED
  BY <1>1, StatsInit, StatsStep, PTL DEF Spec
==============================================================================
