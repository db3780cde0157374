------------------------------ MODULE Simplify ------------------------------
(***************************************************************************)
(* DataModelTableTransformed: the tables of a source model are simplified  *)
(* from the root down.  Every table is changed once, after the tables of   *)
(* its relations: a choice of like columns becomes a type and a value, n-1 *)
(* relations may be replaced by the fields of their table.                 *)
(*                                                                         *)
(* cfg is the configuration: transform (FALSE switches automatic           *)
(* transforms off), and what is set for tables, reuse and choice by table  *)
(* name, and for fields, by table and field name: "true", "false", "auto", *)
(* "skip" or a transform.                                                  *)
(*                                                                         *)
(* A model in progress has, beside its tables, the tables done and kept,   *)
(* the transforms that the parsers will use, and an error, "" if none.     *)
(***************************************************************************)
EXTENDS XmlSchema

Setting(settings, k) == IF k \in DOMAIN settings THEN settings[k] ELSE "auto"

Of(fields, kind) == SelectSeq(fields, LAMBDA f : f.kind = kind)
Columns(fields) == {f.name : f \in Range(Of(fields, "col"))}
Relations1(fields) == {f.name : f \in Range(Of(fields, "rel1"))}

(***************************************************************************)
(* can_join_values_as_string: repeated values of other types are refused.  *)
(***************************************************************************)
Joinable == {"string", "date", "dateTime", "NMTOKEN", "time", "base64Binary", "decimal"}
CanJoin(f) == f.max = 1 \/ f.dtype \in Joinable

(***************************************************************************)
(* The choice transform.                                                   *)
(***************************************************************************)
CanChoiceTransform(table) ==
  /\ table.model_group = "choice"
  /\ \A i \in DOMAIN table.fields : table.fields[i].kind = "col"
  /\ Cardinality({f.dtype : f \in Range(table.fields)}) = 1

ChoiceRefused(cfg, table) ==
  Setting(cfg.choice, table.name) = "true" /\ ~CanChoiceTransform(table)

ChoiceApplies(cfg, table) ==
  /\ CanChoiceTransform(table)
  /\ IF Setting(cfg.choice, table.name) = "auto"
     THEN cfg.transform /\ Cardinality(Columns(table.fields)) > 2
     ELSE Setting(cfg.choice, table.name) = "true"

ChoiceColumns(table, limit) ==
  LET names == {Len(f.name) : f \in Range(table.fields)}
      once == [min |-> 1, max |-> 1]
      value == [dtype |-> table.fields[1].dtype, limit |-> limit]
  IN <<Column("type", [dtype |-> "string", limit |-> Max(names)], once, "element", Ungrouped),
       Column("value", value, once, "element", Ungrouped)>>
ChoiceFieldsOfFirst(table) == ChoiceColumns(table, table.fields[1].limit)
ChoiceFields(table) == ChoiceColumns(table, Widest({f.limit : f \in Range(table.fields)}))

(***************************************************************************)
(* _get_field_transform: skip, none or the transform; "refused" when it    *)
(* cannot be applied.  current are the fields the table has by now: those  *)
(* that replace the visited ones, this one and the ones not yet visited.   *)
(***************************************************************************)
CanTransform(f, transform) ==
  IF f.kind = "col" THEN transform = "join" /\ CanJoin(f)
  ELSE f.kind = "rel1" /\ transform \in {"elevate", "elevate_wo_prefix"}

InRepeatedRelation(source, key) ==
  \E k \in DOMAIN source : \E f \in Range(source[k].fields) : f.kind = "reln" /\ f.other = key

AutoTransform(m, f, current) ==
  IF f.kind = "col" THEN (IF CanJoin(f) THEN "join" ELSE "refused")
  ELSE IF /\ f.kind = "rel1"
          /\ f.min = 1 \/ Cardinality(Columns(m.tables[f.other].fields)) <= 4
          /\ ~InRepeatedRelation(m.source, f.other)
       THEN (IF Columns(current) = {} /\ Cardinality(Relations1(current)) = 1
             THEN "elevate_wo_prefix" ELSE "elevate")
  ELSE "none"

FieldTransform(cfg, m, table, f, current) ==
  LET set == Setting(cfg.fields, <<table.name, f.name>>)
  IN IF set = "skip" THEN "skip"
     ELSE IF set = "false" THEN "none"
     ELSE IF set # "auto" THEN (IF CanTransform(f, set) THEN set ELSE "refused")
     ELSE IF cfg.transform \/ <<table.name, f.name>> \in DOMAIN cfg.fields
          THEN AutoTransform(m, f, current)
     ELSE "none"

(***************************************************************************)
(* _elevate_relation_1: the fields of the other table, as they stand,      *)
(* under prefixed names; optional when the relation is.                    *)
(***************************************************************************)
Lifted(rel, f, name, chain) ==
  [f EXCEPT !.name = name, !.chain = <<<<rel.name, rel.other>>>> \o chain,
            !.min = IF rel.min = 0 THEN 0 ELSE f.min]
Prefixed(rel, f, transform) == IF transform = "elevate" THEN rel.name \o "_" \o f.name ELSE f.name

ElevatedOneLevel(m, rel, transform) ==
  LET fields == m.tables[rel.other].fields
      Lift(f) == Lifted(rel, f, Prefixed(rel, f, transform), <<Last(f.chain)>>)
  IN [i \in DOMAIN fields |-> Lift(fields[i])]
ElevatedBare(m, rel, transform) ==
  LET fields == m.tables[rel.other].fields
      Lift(f) == Lifted(rel, f, f.name, f.chain)
  IN [i \in DOMAIN fields |-> Lift(fields[i])]
Elevated(m, rel, transform) ==
  LET fields == m.tables[rel.other].fields
      Lift(f) == Lifted(rel, f, Prefixed(rel, f, transform), f.chain)
  IN [i \in DOMAIN fields |-> Lift(fields[i])]

(***************************************************************************)
(* simplify_table.                                                         *)
(***************************************************************************)
Transform(m, table, f, other, transform) ==
  [m EXCEPT !.transforms = (<<table.type, f.name>> :> <<other, transform>>) @@ @]

Fail(m, reason) == [m EXCEPT !.error = IF @ = "" THEN reason ELSE @]

SimplifyChoice(m, table) ==
  LET Join(acc, f) == Transform(acc, table, f, "", "join")
      joined == FoldLeft(Join, m, table.fields)
  IN [joined EXCEPT !.choices = @ \union {table.type},
                    !.tables[table.type].fields = ChoiceFields(table)]

SimplifyColumn(cfg, m, table, f, out, current) ==
  LET transform == FieldTransform(cfg, m, table, f, current)
  IN CASE transform = "refused" -> [model |-> Fail(m, "refused"), out |-> out]
       [] transform = "skip" -> [model |-> m, out |-> out]
       [] transform = "join" -> [model |-> Transform(m, table, f, "", "join"), out |-> Append(out, f)]
       [] OTHER -> [model |-> m, out |-> Append(out, f)]

KeepUnlessPrefixed(m, f, transform) ==
  IF transform = "elevate" THEN m ELSE [m EXCEPT !.kept = @ \union {f.other}]
Keep(m, f, transform) ==
  IF transform = "none" THEN [m EXCEPT !.kept = @ \union {f.other}] ELSE m

SimplifyRelation(cfg, m, table, f, out, current) ==
  LET transform == FieldTransform(cfg, m, table, f, current)
  IN CASE transform = "refused" -> [model |-> Fail(m, "refused"), out |-> out]
       [] transform = "skip" -> [model |-> m, out |-> out]
       [] OTHER -> [model |-> Keep(Transform(m, table, f, f.other, transform), f, transform),
                    out |-> out \o (IF transform = "none" THEN <<f>> ELSE Elevated(m, f, transform))]

RECURSIVE SimplifyTable(_, _, _)
SimplifyTable(cfg, m, key) ==
  LET table == m.tables[key]
      begun == [m EXCEPT !.done = @ \union {key}]
      Visit(acc, i) ==
        LET f == table.fields[i]
            current == acc.out \o SubSeq(table.fields, i, Len(table.fields))
        IN IF f.kind = "col" THEN SimplifyColumn(cfg, acc.model, table, f, acc.out, current)
           ELSE SimplifyRelation(cfg, SimplifyTable(cfg, acc.model, f.other), table, f, acc.out, current)
      end == FoldLeft(Visit, [model |-> begun, out |-> <<>>], [i \in DOMAIN table.fields |-> i])
  IN IF key \in m.done THEN m
     ELSE IF ChoiceRefused(cfg, table) THEN Fail(begun, "refused")
     ELSE IF ChoiceApplies(cfg, table) THEN SimplifyChoice(begun, table)
     ELSE [end.model EXCEPT !.tables[key].fields = end.out]

(***************************************************************************)
(* _build_model up to the dependencies: parse, check the names of the      *)
(* configuration, simplify, drop the tables that nothing keeps.  Two       *)
(* columns of one name in a table that is built are refused by SQLAlchemy. *)
(***************************************************************************)
TwoColumns(fields) ==
  \E i, j \in DOMAIN fields :
    i < j /\ fields[i].kind = "col" /\ fields[j].kind = "col" /\ fields[i].name = fields[j].name

KnownTables(cfg, source) ==
  DOMAIN cfg.reuse \union DOMAIN cfg.choice \union {k[1] : k \in DOMAIN cfg.fields}
    \subseteq DOMAIN source.names

Begun(cfg, source, root) ==
  [tables |-> source.tables, source |-> source.tables, done |-> {}, kept |-> {root},
   transforms |-> <<>>, choices |-> {},
   error |-> IF KnownTables(cfg, source) THEN "" ELSE "refused"]

Kept(cfg, keys, root, m) ==
  LET duplicates == \E k \in m.kept : TwoColumns(m.tables[k].fields)
  IN [keys |-> SelectSeq(keys, LAMBDA k : k \in m.kept),
      tables |-> [k \in m.kept |-> m.tables[k]], source |-> m.source, root |-> root,
      transforms |-> m.transforms, choices |-> m.choices,
      reused |-> {k \in m.kept : Setting(cfg.reuse, m.tables[k].name) # "false"},
      error |-> IF m.error = "" /\ duplicates THEN "duplicate column" ELSE m.error]

SimplifiedFrom(cfg, source, root) ==
  Kept(cfg, source.keys, root, SimplifyTable(cfg, Begun(cfg, source, root), root))

SimplifiedModel(cfg, xsd) == SimplifiedFrom(cfg, SourceModel(xsd), RootKey(xsd))
=============================================================================
