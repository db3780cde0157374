---------------------------- MODULE ModelContents ----------------------------
(***************************************************************************)
(* What a built data model holds of its XSD: the tables that _parse_tree   *)
(* and simplify_table leave, ordered by ModelBuild.                        *)
(***************************************************************************)
EXTENDS ModelBuild, SequencesExt

B == INSTANCE Simplify

(***************************************************************************)
(* The dependencies form a cycle, or lead to a table that was dropped,     *)
(* only where two anonymous types share a key.  Else there is an order,    *)
(* whatever tables are duplicated.  (A duplicated table depends on its     *)
(* parent and a parent on its reused children, so the edges of the         *)
(* document tree are followed in both directions.)                         *)
(***************************************************************************)
Elements(xsd) == Range(xsd.roots) \union UNION {Range(xsd.types[t].children) : t \in DOMAIN xsd.types}
SharedKey(xsd) ==
  \E c, d \in {e \in Elements(xsd) : B!IsComplex(xsd, e)} :
    c.type # d.type /\ B!KeyOf(xsd, c) = B!KeyOf(xsd, d)

OrderIsComplete == built.status \in {"cycle", "dropped table"} => SharedKey(source.xsd)

(***************************************************************************)
(* Simplification loses no value and invents none: a path of names from    *)
(* the root of a document to an attribute, text or simple element, of a    *)
(* data type, leads to a column of the simplified model if and only if it  *)
(* does in the XSD, but for skipped fields and the members of a choice.    *)
(***************************************************************************)
NamesIn(chain) == [i \in DOMAIN chain |-> chain[i][1]]

RECURSIVE PathsFrom(_, _)
PathsFrom(tables, key) ==
  LET Of(f) == IF f.kind = "col" THEN {<<NamesIn(f.chain), f.role, f.dtype>>}
               ELSE {<<NamesIn(f.chain) \o p[1], p[2], p[3]>> : p \in PathsFrom(tables, f.other)}
  IN UNION {Of(f) : f \in Range(tables[key].fields)}

SourceTables ==
  LET source0 == built.model.source
      Kept(table) == SelectSeq(table.fields, LAMBDA f :
                       B!Setting(source.cfg.fields, <<table.name, f.name>>) # "skip")
  IN [key \in DOMAIN source0 |->
        [source0[key] EXCEPT !.fields =
           IF key \in built.model.choices THEN B!ChoiceFields(source0[key]) ELSE Kept(source0[key])]]

PathsKept ==
  Built => PathsFrom(built.model.tables, built.model.root) = PathsFrom(SourceTables, built.model.root)

(***************************************************************************)
(* Every table kept is reached from the root, unless a relation above it   *)
(* is skipped: no table is created that no document can fill.              *)
(***************************************************************************)
RECURSIVE ReachedFrom(_, _)
ReachedFrom(tables, key) ==
  {key} \union UNION {ReachedFrom(tables, f.other) : f \in {g \in Range(tables[key].fields) : g.kind # "col"}}

SkipsRelation ==
  \E k \in DOMAIN built.model.source : \E f \in Range(built.model.source[k].fields) :
    f.kind # "col" /\ B!Setting(source.cfg.fields, <<built.model.source[k].name, f.name>>) = "skip"

TablesReached ==
  Built =>
    \/ ReachedFrom(built.model.tables, built.model.root) = DOMAIN built.model.tables
    \/ SkipsRelation

(***************************************************************************)
(* The fields of a table have content keys of their own: nothing that is   *)
(* parsed for one is taken for another.  It takes a name with an           *)
(* underscore, an element that is in a type twice, or fields elevated      *)
(* without a prefix next to other relations to break this.                 *)
(***************************************************************************)
Underscored(name) == \E i \in 1..Len(name) : SubSeq(name, i, i) = "_"
Distinct(seq) == Cardinality(Range(seq)) = Len(seq)

PlainNames(xsd) ==
  /\ \A t \in DOMAIN xsd.types :
       LET type == xsd.types[t] IN
       /\ Distinct([i \in DOMAIN type.children |-> type.children[i].name])
       /\ \A c \in Range(type.children) : ~Underscored(c.name)
       /\ \A a \in Range(type.attrs) : ~Underscored(a.name)

NoPrefixAmongOthers ==
  \E p \in DOMAIN built.model.transforms :
    /\ built.model.transforms[p][2] = "elevate_wo_prefix"
    /\ Len(built.model.source[p[1]].fields) > 1

NamesDistinct ==
  Built /\ PlainNames(source.xsd) /\ ~NoPrefixAmongOthers =>
    \A key \in DOMAIN built.model.tables :
      LET fields == built.model.tables[key].fields
      IN Distinct([i \in DOMAIN fields |-> B!ContentKey(fields[i])])
=============================================================================
