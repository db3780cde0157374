------------------------------ MODULE ModelBuild ------------------------------
(***************************************************************************)
(* The build of a DataModel, DataModel._build_model: an XSD is parsed, the *)
(* tables are simplified, then ordered and grouped.  What the order and    *)
(* the groups guarantee to the merge, whatever the simplified model is.    *)
(***************************************************************************)
EXTENDS TableOrder

CONSTANTS
  Sources,              \* what models are built from: [xsd, cfg]
  TypeNames,            \* the keys of tables, in alphabetical order
  ModelFor(_, _)        \* cfg, xsd -> the tables that _parse_tree and simplify_table leave

VARIABLES source, built
vars == <<source, built>>

RelationsOf(m, key) == {f \in Range(m.tables[key].fields) : f.kind # "col"}

(***************************************************************************)
(* Unless the simplification refuses the configuration, it leaves tables   *)
(* with keys of their own, the root's among them; a relation leads to a    *)
(* type that was parsed.                                                   *)
(***************************************************************************)
ModelTyped(m) ==
  /\ m.keys \in Seq(Range(TypeNames)) \ {<<>>}
  /\ IsInjective(m.keys)
  /\ \A key \in Range(m.keys) :
       /\ IsFiniteSet(RelationsOf(m, key))
       /\ \A f \in RelationsOf(m, key) : f.other \in Range(TypeNames)

ASSUME ModelsAssumption ==
  /\ TypeNames \in Seq(Range(TypeNames)) /\ IsInjective(TypeNames)
  /\ \A s \in Sources :
       LET m == ModelFor(s.cfg, s.xsd) IN m.error = "refused" \/ ModelTyped(m)

Unbuilt == [status |-> "new"]

Init == source \in Sources /\ built = Unbuilt

(***************************************************************************)
(* The schema that TableOrder works on: tables are positions in TypeNames. *)
(***************************************************************************)
Rank(key) == CHOOSE i \in DOMAIN TypeNames : TypeNames[i] = key

SchemaOf(m) ==
  LET Fields(key) == {[table |-> Rank(key), kind |-> f.kind, other |-> Rank(f.other), name |-> f.name] :
                        f \in RelationsOf(m, key)}
  IN [tables |-> [i \in DOMAIN m.keys |-> Rank(m.keys[i])],
      reused |-> {Rank(key) : key \in m.reused},
      fields |-> UNION {Fields(key) : key \in Range(m.keys)}]

(***************************************************************************)
(* A model is built, or refused: by the simplification, because of a       *)
(* duplicated table with two parents, by graphlib, by a relation that is   *)
(* left to a table that was dropped (a KeyError), or by SQLAlchemy.        *)
(***************************************************************************)
StatusOf(m, schema, order) ==
  IF m.error = "refused" THEN "refused"
  ELSE IF Rejected(schema) THEN "rejected"
  ELSE IF ~(TableSet(schema) \subseteq Range(order)) THEN "cycle"
  ELSE IF Dangling(schema) THEN "dropped table"
  ELSE IF m.error # "" THEN m.error
  ELSE "built"

BuildOf(m) ==
  LET schema == SchemaOf(m)
      order == IF m.error = "refused" \/ Rejected(schema) THEN <<>> ELSE StaticOrder(schema)
      status == StatusOf(m, schema, order)
  IN IF status # "built" THEN [status |-> status]
     ELSE [status |-> "built", model |-> m, schema |-> schema, order |-> order,
           groups |-> TransactionGroupsOf(schema)]

BuildModel ==
  /\ built = Unbuilt
  /\ built' = BuildOf(ModelFor(source.cfg, source.xsd))
  /\ UNCHANGED source

Next == BuildModel
Spec == Init /\ [][Next]_vars

-----------------------------------------------------------------------------
Built == built.status = "built"

(***************************************************************************)
(* The merge of a table reads target keys of its reused children, of its   *)
(* n-1 and n-n relations, and of its parent: they are merged before it,    *)
(* and every table is merged once.                                         *)
(***************************************************************************)
OrderRespectsReads ==
  Built => /\ EachOnce(TableSet(built.schema), <<built.order>>)
           /\ ReadBefore(built.schema, <<built.order>>, TableSet(built.schema))

(***************************************************************************)
(* Every table is in one group.  A duplicated one is merged in the         *)
(* transaction of its parent, after it: a parent row is never committed    *)
(* without its duplicated children.  And the groups keep the order between *)
(* a reused table and what it reads.                                       *)
(***************************************************************************)
GroupsKeepSubtrees ==
  Built => /\ EachOnce(TableSet(built.schema), built.groups)
           /\ SubtreesTogether(built.schema, built.groups)
           /\ ReadBefore(built.schema, built.groups, built.schema.reused)
=============================================================================
