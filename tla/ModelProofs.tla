----------------------------- MODULE ModelProofs -----------------------------
(***************************************************************************)
(* What DataModel._build_model guarantees to the merge, for any XSD and    *)
(* any configuration: whatever tables the simplification leaves.           *)
(***************************************************************************)
EXTENDS ModelBuild, OrderProofs

(***************************************************************************)
(* A schema is read off the simplified tables.                             *)
(***************************************************************************)
LEMMA RankTyped ==
  ASSUME NEW key \in Range(TypeNames)
  PROVE  /\ Rank(key) \in Nat \ {0}
         /\ TypeNames[Rank(key)] = key
<1>1. \E i \in DOMAIN TypeNames : TypeNames[i] = key
  BY DEF Range
<1>2. Rank(key) \in DOMAIN TypeNames /\ TypeNames[Rank(key)] = key
  BY <1>1 DEF Rank
<1>3. DOMAIN TypeNames \subseteq Nat \ {0}
  BY ModelsAssumption
<1> QED
  BY <1>2, <1>3

LEMMA SchemaTyped ==
  ASSUME NEW m, ModelTyped(m)
  PROVE  IsSchema(SchemaOf(m)) /\ TableSet(SchemaOf(m)) # {}
<1> DEFINE sch == SchemaOf(m)
           Keys == Range(m.keys)
           FieldOf(key, f) == [table |-> Rank(key), kind |-> f.kind, other |-> Rank(f.other), name |-> f.name]
           Fields(key) == {FieldOf(key, f) : f \in RelationsOf(m, key)}
           AllFields == {Fields(key) : key \in Keys}
<1>1. /\ sch.tables = [i \in DOMAIN m.keys |-> Rank(m.keys[i])]
      /\ sch.fields = UNION AllFields
  BY DEF SchemaOf
<1>2. /\ m.keys \in Seq(Range(TypeNames)) /\ m.keys # <<>> /\ IsInjective(m.keys)
      /\ Len(m.keys) \in Nat /\ DOMAIN m.keys = 1..Len(m.keys)
      /\ Keys \subseteq Range(TypeNames)
  <2>1. m.keys \in Seq(Range(TypeNames)) /\ m.keys # <<>> /\ IsInjective(m.keys)
    BY DEF ModelTyped
  <2> QED
    BY <2>1 DEF Range
<1> HIDE DEF sch
<1>3. sch.tables \in Seq(Nat \ {0}) /\ DOMAIN sch.tables = 1..Len(m.keys)
  <2>1. \A i \in 1..Len(m.keys) : m.keys[i] \in Range(TypeNames)
    BY <1>2
  <2>2. \A i \in 1..Len(m.keys) : Rank(m.keys[i]) \in Nat \ {0}
    BY <2>1, RankTyped
  <2>3. sch.tables \in [1..Len(m.keys) -> Nat \ {0}]
    BY <1>1, <1>2, <2>2
  <2> QED
    BY <1>2, <2>3, IsSequence
<1>4. IsInjective(sch.tables)
  <2> SUFFICES ASSUME NEW i \in DOMAIN m.keys, NEW j \in DOMAIN m.keys, sch.tables[i] = sch.tables[j]
               PROVE  i = j
    BY <1>2, <1>3 DEF IsInjective
  <2>1. m.keys[i] \in Range(TypeNames) /\ m.keys[j] \in Range(TypeNames)
    BY <1>2
  <2>2. Rank(m.keys[i]) = Rank(m.keys[j])
    BY <1>1
  <2>3. m.keys[i] = m.keys[j]
    BY <2>1, <2>2, RankTyped
  <2> QED
    BY <1>2, <2>3 DEF IsInjective
<1>5. ASSUME NEW key \in Keys PROVE IsFiniteSet(Fields(key))
  <2>1. IsFiniteSet(RelationsOf(m, key))
    BY DEF ModelTyped
  <2> DEFINE field == [f \in RelationsOf(m, key) |-> FieldOf(key, f)]
  <2>2. field \in Surjection(RelationsOf(m, key), Fields(key))
    <3> HIDE DEF FieldOf
    <3> QED
      BY DEF Surjection
  <2> HIDE DEF field, Fields
  <2> QED
    BY <2>1, <2>2, FS_Surjection
<1>6. IsFiniteSet(UNION AllFields)
  <2>1. IsFiniteSet(1..Len(m.keys))
    <3>1. 1 \in Int /\ Len(m.keys) \in Int
      BY <1>2
    <3> QED
      BY <3>1, FS_Interval
  <2> DEFINE fieldsAt == [i \in 1..Len(m.keys) |-> Fields(m.keys[i])]
  <2>2. fieldsAt \in Surjection(1..Len(m.keys), AllFields)
    <3> HIDE DEF Fields
    <3> QED
      BY <1>2 DEF Surjection, Range
  <2>3. IsFiniteSet(AllFields)
    <3> HIDE DEF fieldsAt, AllFields
    <3> QED
      BY <2>1, <2>2, FS_Surjection
  <2>4. \A F \in AllFields : IsFiniteSet(F)
    BY <1>5
  <2> HIDE DEF AllFields
  <2> QED
    BY <2>3, <2>4, FS_UNION
<1>7. ASSUME NEW f \in sch.fields PROVE f.table \in TableSet(sch) /\ f.other \in Nat \ {0}
  <2>1. PICK key \in Keys : f \in Fields(key)
    BY <1>1
  <2>2. PICK g \in RelationsOf(m, key) : f = FieldOf(key, g)
    BY <2>1
  <2>3. f.table = Rank(key) /\ f.other = Rank(g.other) /\ g.other \in Range(TypeNames)
    BY <2>2 DEF ModelTyped
  <2>4. PICK i \in DOMAIN m.keys : m.keys[i] = key
    BY DEF Range
  <2>5. sch.tables[i] = Rank(key) /\ i \in DOMAIN sch.tables
    BY <1>1, <1>2, <1>3, <2>4
  <2>6. f.table \in TableSet(sch)
    BY <2>3, <2>5 DEF TableSet, Range
  <2> QED
    BY <2>3, <2>6, RankTyped
<1>8. TableSet(sch) # {}
  <2>1. 1 \in DOMAIN sch.tables
    BY <1>2, <1>3
  <2> QED
    BY <2>1 DEF TableSet, Range
<1> QED
  BY <1>1, <1>3, <1>4, <1>6, <1>7, <1>8 DEF IsSchema, sch

(***************************************************************************)
(* A model that is built has an order: else the status says why.           *)
(***************************************************************************)
LEMMA BuiltModel ==
  ASSUME NEW m, m.error = "refused" \/ ModelTyped(m), BuildOf(m).status = "built"
  PROVE  LET sch == SchemaOf(m)
         IN /\ IsSchema(sch) /\ ~Rejected(sch) /\ ~Dangling(sch) /\ Acyclic(sch) /\ TableSet(sch) # {}
            /\ BuildOf(m).schema = sch /\ BuildOf(m).order = StaticOrder(sch)
            /\ BuildOf(m).groups = TransactionGroupsOf(sch)
<1> DEFINE sch == SchemaOf(m)
           order == IF m.error = "refused" \/ Rejected(sch) THEN <<>> ELSE StaticOrder(sch)
           status == StatusOf(m, sch, order)
<1>1. BuildOf(m) = IF status # "built" THEN [status |-> status]
                   ELSE [status |-> "built", model |-> m, schema |-> sch, order |-> order,
                         groups |-> TransactionGroupsOf(sch)]
  BY DEF BuildOf
<1> HIDE DEF status, order, sch
<1>2. status = "built"
  BY <1>1
<1>3. m.error # "refused" /\ ~Rejected(sch) /\ TableSet(sch) \subseteq Range(order) /\ ~Dangling(sch)
  BY <1>2 DEF status, StatusOf
<1>4. IsSchema(sch) /\ TableSet(sch) # {}
  BY <1>3, SchemaTyped DEF sch
<1>5. order = StaticOrder(sch)
  BY <1>3 DEF order
<1>6. Acyclic(sch)
  BY <1>3, <1>4, <1>5, OrderUnlessCycle
<1>7. BuildOf(m).schema = sch /\ BuildOf(m).order = order /\ BuildOf(m).groups = TransactionGroupsOf(sch)
  BY <1>1, <1>2
<1> QED
  BY <1>3, <1>4, <1>5, <1>6, <1>7 DEF sch

BuildInv ==
  /\ source \in Sources
  /\ built = Unbuilt \/ built = BuildOf(ModelFor(source.cfg, source.xsd))

LEMMA BuildInvariant == Spec => []BuildInv
<1>1. Init => BuildInv
  BY DEF Init, BuildInv
<1>2. BuildInv /\ [Next]_vars => BuildInv'
  BY DEF BuildInv, Next, BuildModel, vars
<1> QED
  BY <1>1, <1>2, PTL DEF Spec

LEMMA BuiltSchema ==
  ASSUME BuildInv, Built
  PROVE  LET sch == built.schema
         IN /\ IsSchema(sch) /\ ~Rejected(sch) /\ ~Dangling(sch) /\ Acyclic(sch) /\ TableSet(sch) # {}
            /\ built.order = StaticOrder(sch)
            /\ built.groups = TransactionGroupsOf(sch)
<1> DEFINE m == ModelFor(source.cfg, source.xsd)
<1>1. built = BuildOf(m)
  BY DEF BuildInv, Built, Unbuilt
<1>2. m.error = "refused" \/ ModelTyped(m)
  BY ModelsAssumption DEF BuildInv
<1>3. BuildOf(m).status = "built"
  BY <1>1 DEF Built
<1> HIDE DEF m
<1> QED
  BY <1>1, <1>2, <1>3, BuiltModel

(***************************************************************************)
(* Whatever the statements of a table read is merged before it, and every  *)
(* table once: the order is what the merge relies on, for any model that   *)
(* is built.                                                               *)
(***************************************************************************)
THEOREM ReadsMergedFirst == Spec => []OrderRespectsReads
<1>1. BuildInv => OrderRespectsReads
  <2> SUFFICES ASSUME BuildInv, Built
               PROVE  /\ EachOnce(TableSet(built.schema), <<built.order>>)
                      /\ ReadBefore(built.schema, <<built.order>>, TableSet(built.schema))
    BY DEF OrderRespectsReads
  <2> QED
    BY BuiltSchema, OrderReadsFirst
<1> QED
  BY <1>1, BuildInvariant, PTL

(***************************************************************************)
(* A duplicated table is merged in the transaction of its parent, after    *)
(* it, whatever tables are duplicated.                                     *)
(***************************************************************************)
THEOREM SubtreesMergedTogether == Spec => []GroupsKeepSubtrees
<1>1. BuildInv => GroupsKeepSubtrees
  <2> SUFFICES ASSUME BuildInv, Built
               PROVE  /\ EachOnce(TableSet(built.schema), built.groups)
                      /\ SubtreesTogether(built.schema, built.groups)
                      /\ ReadBefore(built.schema, built.groups, built.schema.reused)
    BY DEF GroupsKeepSubtrees
  <2> QED
    BY BuiltSchema, GroupsKeepOrder
<1> QED
  BY <1>1, BuildInvariant, PTL
=============================================================================
