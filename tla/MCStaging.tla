------------------------------ MODULE MCStaging ------------------------------
(***************************************************************************)
(* Two loaders, each with a DataModel of its own or both with one; a root  *)
(* table with metadata, and a table below it with a join table.            *)
(***************************************************************************)
EXTENDS Staging, TLC

CONSTANTS a, b, p, q

MCTables == <<[name |-> "child", rels |-> <<>>], [name |-> "root", rels |-> <<"rel">>]>>

(***************************************************************************)
(* The keys of the target tables, that records do not give, are key and    *)
(* fk_self, fk_other.                                                      *)
(***************************************************************************)
MCColumns ==
  [root |-> <<"key", "pk", "file", "temp_exists">>,
   child |-> <<"key", "pk", "text", "temp_exists">>,
   rel |-> <<"self", "fk_self", "other", "fk_other">>]

MCDefaults ==
  [t \in DOMAIN MCColumns |->
     [k \in Range(MCColumns[t]) |-> IF k = "temp_exists" THEN "false" ELSE Null]]

(***************************************************************************)
(* A document with three children; files accumulated in one flat_data, the *)
(* metadata given with the first or with the second only; a document with  *)
(* no child at all.                                                        *)
(***************************************************************************)
RootOf(pk) == [pk |-> pk]
WithFile(pk) == [pk |-> pk, file |-> "name"]
ChildOf(pk, text) == [pk |-> pk, text |-> text]
Rel(self, other) == [self |-> self, other |-> other]

Whole == [root |-> <<WithFile("1")>>,
          child |-> <<ChildOf("1", "text"), ChildOf("2", Empty), ChildOf("3", Tabbed)>>,
          rel |-> <<Rel("1", "1"), Rel("1", "2"), Rel("1", "3")>>]
FileFirst == [root |-> <<WithFile("1"), RootOf("2")>>]
FileLast == [root |-> <<RootOf("1"), WithFile("2")>>]
Childless == [root |-> <<WithFile("1")>>]

Options(bulk, threshold, max_lines) == [bulk |-> bulk, threshold |-> threshold, max_lines |-> max_lines]
Plainly == Options("default", Unset, -1)
In(model, data, options) == [model |-> model, data |-> data, options |-> options]

Link(dialect, driver, tool) == [dialect |-> dialect, driver |-> driver, tool |-> tool]
Full == {Schema, "root", "child", "rel"}

Case(link, schema, existing, loads) ==
  [link |-> link, schema |-> schema, made |-> IF existing THEN Full ELSE {}, server |-> TRUE,
   serial |-> FALSE, loads |-> loads]

(***************************************************************************)
(* Two loads at once: on an empty database or not, with two prefixes or    *)
(* one.                                                                    *)
(***************************************************************************)
Together ==
  {Case(Link(v[1], TRUE, TRUE), v[2], v[3],
        (a :> In(p, Childless, Plainly)) @@ (b :> In(v[4], Childless, Plainly))) :
     v \in {"postgresql", "duckdb"} \X BOOLEAN \X BOOLEAN \X {p, q}}

(***************************************************************************)
(* One load, in every way; with a second one of the same DataModel to find *)
(* what it left or what it learnt of the server.                           *)
(***************************************************************************)
Links ==
  {Link(d, TRUE, TRUE) : d \in {"base", "postgresql", "mysql", "mssql", "duckdb"}}
    \union {Link(d, FALSE, TRUE) : d \in {"postgresql", "mysql"}} \union {Link("mssql", TRUE, FALSE)}
Sizes == {<<-1, Unset>>, <<2, Unset>>, <<2, 3>>}
Alone ==
  {Case(v[1], FALSE, TRUE, a :> In(p, v[2], Options(v[3], v[4][2], v[4][1]))) :
     v \in Links \X {Whole, FileFirst, FileLast} \X {"required", "never", "default"} \X Sizes}
Endless ==
  {Case(Link("duckdb", TRUE, TRUE), FALSE, TRUE, a :> In(p, data, Options("default", Unset, 0))) :
     data \in {Whole, Childless}}
Successive ==
  {[Case(Link("mysql", TRUE, TRUE), FALSE, TRUE,
         (a :> In(p, FileFirst, Options(v[2], Unset, -1)))
           @@ (b :> In(p, FileLast, Options(v[3], Unset, 1))))
    EXCEPT !.server = v[1], !.serial = TRUE] :
     v \in BOOLEAN \X {"required", "default"} \X {"required", "default"}}

MCCases == Together \union Alone \union Endless \union Successive
=============================================================================
