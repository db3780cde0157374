# A verification project for xml2db

xml2db derives a relational data model from an XSD, parses XML documents into it, and merges
them into a database, storing every repeated subtree once. This directory models the parts of
it in which something can go wrong that a test would hardly reach, checks them with TLC, and
proves some of the results with TLAPS.

Paths below are relative to the repository; the package is `src/xml2db`.

## The system

| Part | State it keeps | Operations | Interacts with | Correct when | Here |
|---|---|---|---|---|---|
| XSD parsing, `model.py` `_parse_tree` | tables, columns, relations | one recursive pass | simplification | every element has a place | `XmlSchema` |
| Simplification, `table/transformed_table.py` | fields and transforms of tables | elevate, join, choice | parser, order | nothing lost or merged under one name | `Simplify` |
| Order and groups, `model.py` `_build_model`, `table.py` `compute_dependencies` | dependencies, ordered keys, transaction groups | computed once | merge | acyclic; a table after what it reads; subtree in one transaction | `TableOrder`, `ModelBuild` |
| Parsers, `xml_converter.py` | node stack, hash maps | recursive or by events | flattening | both build one tree | `XmlParse` |
| Record hash, `_compute_hash_deduplicate` | hash maps by type | hash, replace by first equal | flattening, merge | equal hash = equal subtree | `DocumentTree` |
| Flat data, `document.py` `doc_tree_to_flat_data`, `flat_data_to_doc_tree` | records, join rows, hash maps, key counters, over several files | add a file, rebuild | staging | keys resolve, records are the nodes', documents can be rebuilt | `FlatData`, `Flatten` |
| Staging, `insert_into_target_tables`, `insert_into_temp_tables` | temporary tables of a prefix | schema, drop, create, batches, final drop | merge; other loaders, by names in one database | all rows or an error; nothing left behind | `Staging` |
| Bulk loading, `dialect/*` | MySQL's cached probe | file or executemany, by size, option, driver and server | staging | the option is honoured; both ways write the same | `Dialect` |
| Merge, `merge_into_target_tables`, `table/*` | temporary and target tables, transactions | 2 to 6 statements per table and relation | other loaders, by the database | an image of whole documents, no record twice | `Merge` |
| Extraction, `extract_from_database` | flat data | selects along all paths | rebuild | the stored document comes back | `Extract` |
| XML output, `to_xml` | stack of elevated elements | tree to XML | parsers | round trip | `XmlOutput` |
| `xml2db serve`, `cli.py` `_State` | outputs, error, configuration text, file | rebuild, save, page | HTTP threads, browser | the page shows what is built from its text; the file holds what was saved | `ServeState` |
| Columns, `table/column.py` | - | types, width | simplification | values fit | joining in `Simplify`, widths in `Flatten`; types not modelled |
| Configuration, import and render commands | - | sequential | - | - | not modelled |

Four things are hard in this code.

- *Several processes load into one database.* Marking a row as existing and inserting it are
  different statements, keys are copied between staged and target rows by several statements;
  temporary and target tables are looked up and then created; a load may fail or be killed
  anywhere.
- *The plan the merge follows* is computed from dependencies that point both up and down the
  document tree, of tables that the simplification has merged, renamed and dropped.
- *One document goes through many forms*: two parsers, a hash, flat data that several files
  share, rows, rows fetched again, flat data, tree, XML. Each conversion has its own idea of
  what an absent, empty, single or repeated value is.
- *The threads of `serve`* build, answer and save while the page goes on editing.

PROJECT.json lists each hazard at its line, with the properties about it.

## The modules

| Module | Rests on | Checked by |
|---|---|---|
| `XmlSchema` | (`XsdParts` writes XSDs for the MC modules) | |
| `Simplify` | `XmlSchema` | |
| `TableOrder` | - | `MCModelBuild`, `MCMerge`; proofs in `OrderProofs` |
| `ModelBuild` | `TableOrder`, any simplified models | `MCModelBuild`; proofs in `ModelProofs` |
| `ModelContents` | `ModelBuild`, `Simplify` | `MCModelBuild` |
| `NodeContent`, `DocumentModel` | each on the one before: what a model and a node are | |
| `FlatData` | `DocumentModel`, any trees | `MCFlatten`; proofs in `FlatProofs` |
| `DocumentTree`, `XmlParse`, `XmlOutput` | `DocumentModel`, then each on the one before | |
| `Flatten`, `Extract` | `XmlOutput` and `FlatData`, then each on the one before | `MCFlatten`, with models built by `Simplify` |
| `Dialect`, `Staging` | each on the one before | `MCStaging`; proofs in `StagingProofs` |
| `Schema`, `Store` | each on the one before: what a load promises | |
| `Merge` | `Schema`, `TableOrder`; implements `Store` | `MCMerge`, `MCMergeGroups`; proofs in `MergeProofs` (on `OrderProofs`) and `StoreProofs`, each on the one before |
| `ServeState` | - | `MCServeState`; proofs in `ServeProofs` |
| `DataLemmas` | - | facts about numbers and sequences under `OrderProofs`, `StagingProofs`, `ServeProofs`, `FlatProofs` |

### Building a model

**XmlSchema** is `_parse_tree`: from an XSD, given as the `xmlschema` package reports it, to tables
with columns and relations. Occurrences multiply through nested model groups, types without a
name take their element's, recursive types are cut, several roots get a table above them.
**Simplify** is `simplify_table`: choices become a type and a value column, repeated short columns are
joined, children that occur once are elevated, with or without a prefix. Its result has the fields
of each table with the `chain` of elements that leads to each, the `transforms` that the parsers
follow, and the settings that are refused.

**TableOrder** has the dependencies, `graphlib`'s static order and the transaction groups of a `schema`: the
tables, which of them are reused, and the relations between them. **ModelBuild** is `_build_model`, one
action, `BuildModel`, that ends in a model or in one of the ways to fail: `built.status`. What the
simplification makes of a source is its parameter `ModelFor`, so that the order is proved of any
simplified model, whatever made it; the run takes `Simplify`'s. **ModelContents** is what the run says about models
that `Simplify` made: what is in them, and why a build fails.

### From XML to flat data and back

**DocumentTree** has the record hash as the very stream the code feeds to the hash
constructor, and the replacement of a node by the first equal one. **XmlParse** has the two parsers:
`ParseElementTree` recursive, `ParseIterative` a fold over the start and end events of the same
file with a stack; both end in `TransformNode`. **XmlOutput** is `to_xml`, and says what lxml
refuses.

**FlatData** is `doc_tree_to_flat_data`, for trees that anything may have made. `_extract_node` calls
itself for the children of a node, and takes a key before them but enters its record and its hash
after them; so the calls in progress are a stack, and every step starts or ends one.

| Variable | Meaning |
|---|---|
| `nodes` | the nodes of all trees parsed, each with its type, content and hash |
| `data` | `Document.data`: records, join rows and the next key of every table; the hash map of a reused table is what its records say |
| `calls` | the calls of `_extract_node` in progress: node, key, parent's key, children left, keys of n-1 children |
| `loaded` | the files accumulated, with the root node and the key that its record got |

| Action | Code |
|---|---|
| `ParseXml` | `parse_xml` once the file is parsed, and the start of the call for the root |
| `TakeKnown` | a call for a child whose hash is in the hash map: its key is returned at once |
| `ExtractChild` | any other call for a child: it takes the next key of its table |
| `AddRecord` | the end of a call: the record, then in the caller the foreign key or the join row |

**Flatten** is `parse_xml` as a whole: `ParseTreeFile` and `ParseIterativeFile` parse one more file with
either parser and add it to the same flat data, by the steps of `FlatData`; and `TreeAt` rebuilds a tree
(`flat_data_to_doc_tree`). **Extract** fetches the rows of one root record from tables that hold this data,
path by path, and takes them back to a tree and to XML.

### Staging

**Dialect** has `bulk_insert` of every backend: which way a batch takes, `WayOf`, and what the table may then
hold, `RowsWritten`. Statements, `COPY`, `LOAD DATA` and `read_csv` name their columns; bcp is given none and takes
fields by position, so that a file with too few of them is read as `ByPosition` says, the rows
that do not convert being refused. **Staging** is `insert_into_target_tables` with one step per statement. A table
that SQLAlchemy creates or drops with `checkfirst` is first looked up, then created or dropped.

| Variable | Meaning |
|---|---|
| `case` | connection, options and documents, what callers do; constant in a behaviour |
| `made`, `temps` | schema and target tables that exist; temporary tables and rows, by DataModel |
| `server`, `probed` | MySQL's `local_infile`, and the dialect's memory of it (`_local_infile_ok`) |
| `stage`, `step`, `offset`, `missing` | program counter: stage, table of the stage, `start_idx`, looked up and to be acted on |
| `outcome` | how the load went: "ok" or the first error (an error of the last drop hides it) |
| `fed`, `ways`, `before`, `meddled` | history: rows the merge read, batches staged, tables at the start, loads of one DataModel that overlapped |

| Action | Code |
|---|---|
| `Start` | call of `insert_into_target_tables` |
| `Look` | the existence query of `checkfirst` and of `create_schema` |
| `CreateSchema` | `dialect.create_schema` (`IF NOT EXISTS` on DuckDB) |
| `DropTemp`, `CreateTemp` | `drop_all_temp_tables`, `create_all_tables(temp=True)` |
| `InsertBatch`, `SkipTable`, `InsertNothing` | loop of `insert_into_temp_tables`; a batch is a transaction; `max_lines=0` |
| `BcpFails` | bcp ends with an error; what it has loaded stays |
| `CreateTarget` | `create_all_tables` |
| `Merge` | `merge_into_target_tables`, here a reader of the temporary tables |
| `StatementFails`, `Kill`, `ChangeSetting` | an error anywhere, a program killed, the server's setting changed |

### The merge

**Schema** holds the data model as constants: tables, reused or duplicated, n-1 relations, join
relations, and records. A record stands for its content with all that is below it, which is what
the record hash stands for; a reused record *is* its hash.

**Merge** is `insert_into_target_tables`. Each loader is a process with its own `DataModel`
and temporary tables. Columns of the staged rows are variables: `pk` (`pk_<table>`), `exists`
(`temp_exists`), `fkParent`, `fk`; `db` and `joins` are the committed rows of target and join
tables, `own` and `ownJoins` those of an open transaction, `nextPk` the autoincrements.

| Action | Code |
|---|---|
| `InsertIntoTempTables` | `document.py` `insert_into_temp_tables`, one action: tables recreated, rows staged (step by step in Staging) |
| `MergeIntoTargetTables` | `create_all_tables`, start of `merge_into_target_tables` |
| `MarkExisting` | reused table, first UPDATE |
| `InheritParent` | duplicated table, first UPDATE |
| `ResolveForeignKeys` | the UPDATEs of `DataModelRelation1` |
| `InsertNew`, `InsertConflict` | the INSERT ... SELECT, its unique constraint, MergeStats |
| `WriteBackKeys` | the UPDATE after the INSERT, by hash or by parent and `temp_pk` |
| `InsertJoinRows`, `JoinNotNull` | the statements of `DataModelRelationN`, its NOT NULL columns |
| `Commit` | end of `engine.begin()`, next transaction or end |
| `DropTempTables` | the `finally` |
| `StatementFails`, `Kill`, `LoadAgain` | an error anywhere, the program killed, a file loaded again |

`phase`, `grp`, `pos` are the program counter: step, transaction, table of the transaction.
`discipline` is how callers synchronise, as `docs/how_it_works.md` describes: a lock around
the whole database phase, around the merge only, or none.

**Store** is the abstract specification: a set of stored records that grows by closed parts of
one document (all of it in a single transaction), a document being loaded when all of it is
stored. `Merge!ImplementsStore` is the refinement, with the nodes of the committed rows as
the store.

The plan of the merge is computed, not given: `OrderedTables` and `TransactionGroups` are what `TableOrder` makes of
the data model of the constants.

### `xml2db serve`

**ServeState** is `xml2db serve`: `state` holds the fields of `_State`, `file` the configuration
file, `req` the requests with the step of their thread, `lost` those whose fetch failed; `doc`, `timer`, `outputs` and
`msg` are the page's, and `shown` is what `renderTab` last drew of its `outputs`.

| Action | Code |
|---|---|
| `OpenPage`, `Edit`, `TimerFires`, `ClickSave` | the page's script: loading, the editor's listener with its debounce timer, the fetches |
| `Rebuild` | `_rebuild`: the build, and its result stored under the lock |
| `AnswerConfig` | the rest of `apply_yaml`, under the lock taken again |
| `ReadField` | `_build_html`, one field of the state at a time, without the lock |
| `OpenFile`, `WriteFile`, `OpenFails`, `WriteFails` | `save_config`: `open(..., "w")` empties, closing writes, `OSError` is answered |
| `Handle` | what the page does with an answer; `doRebuild` takes the outputs of any answer, and draws them unless it has an error |
| `ClickTab` | a tab's listener: `renderTab` draws the page's outputs |
| `FetchFails`, `Drop` | the `catch` of both fetches; the request does not arrive, or its answer |

A reload is another page. `alone` in a request is a history field: no other request was in
progress between its sending and the handling of its answer. A request whose fetch failed goes on in the server, if it
got there, and counts as in progress until it ends.

## The runs

| Run | Expect | Question |
|---|---|---|
| `merge_locked` | pass | Under a lock, with faults and repeated loads, are the target tables an exact image of whole documents, and is the merge a `Store`? |
| `merge_race` | pass | Without a lock, is anything wrong ever committed, and is every file loaded in the end? |
| `merge_groups` | violation | Do transaction groups keep the order that keys need? No. |
| `merge_groups_safe` | pass | What is still true of that model: no committed row without its children. |
| `merge_stats` | violation | Does `existing` count what its docstring says? No. |
| `model_build` | pass | Does a built model lose nothing, name everything apart, and give the merge an order it can follow? |
| `flatten` | pass | What survives the way from XML to flat data, to the database and back, for up to three files and both parsers? |
| `flatten_hash` | violation | Are nodes with one hash identical, as documented? No. |
| `flatten_metadata` | violation | Is every file's metadata kept? No. |
| `staging` | pass | When does the merge get what the document holds, whatever the backend, the batches and the other loads, and is nothing left behind? |
| `serve` | pass | When does a page show its own text, and the file hold it, whatever overlaps and fails before? |
| `serve_stale` | violation | Does the diagram always follow the edits? No. |

Many properties have an exception, and each is a state of the code that really is exceptional. Where
the exception can be said exactly the property is an equivalence, so that the run also shows that
the exception happens.

**Merge.** What several statements do together. `KeysFaithful`: every
key in every row designates the row of the record it should. `OneRowPerRecord`: no record twice,
the duplicated ones, which nothing in the database keeps apart, included.
`CommittedComplete`: a committed row has all its children, so that marking it as existing may
skip what is below it. `JoinsExact`: no join row but those, none twice. `NoMissingKey`: an error that
cannot happen. `NoConflict`: another, under a lock; without one it happens, and `merge_race` is
about what it leaves. `StatsMatchStore`: the counters against the store. `CommittedKeysFaithful`, which
`merge_groups` violates, is `KeysFaithful` of committed rows alone.

**Building a model.**

- `OrderIsComplete`: a cycle, or a relation to a table that was dropped, comes only from two
  anonymous types that share a key (`SharedKey`); else every table is in the order once.
- `OrderRespectsReads`: a table is merged after all whose target keys its statements read: the reused tables
  that its relations lead to and, if it is duplicated, its parent. (The only relation that leads to a duplicated table
  is the 1-n relation of its parent, `duplicated_table.py:19-20`; there it is the duplicated table that reads.)
- `GroupsKeepSubtrees`: a duplicated table is in its parent's transaction, after it, and every
  table is in one group; a reused table is after what it reads. What the groups do *not* keep, the reads of
  a duplicated table, is finding 1.
- `PathsKept`: a path from the root to a value is a column of the simplified model exactly if it
  is in the XSD, settings and choices apart. Elevation along several levels, joins and dropped
  tables neither lose one nor invent one.
- `TablesReached`: no table is created that no document can fill, unless a relation is skipped
  (`SkipsRelation`: the tables below it stay).
- `NamesDistinct`: content keys of a table are distinct, unless a name has an underscore, an element
  is in its type twice, or fields are elevated without a prefix next to others. In those cases the build
  may fail in SQLAlchemy, or two fields may share a key.

**Documents.**

- `TreesTyped`: what both parsers make of the files, and the models that `Simplify` builds, are what
  `FlatData` expects: under a relation there are nodes of its table, and a table that is not reused has
  one parent.
- `KeysResolve`: between two files, every temporary key in flat data is that of exactly one record.
- `HashesOnce`: a reused table has a hash once, also while calls are in progress.
- `RecordsOfNodes`: every record has the columns of a parsed node and, for each relation, the records of its
  children in their order, and no others, whichever file they came with.
- `StoredOnce`: no subtree twice in a reused table, over all files. (A text with a comma, stored
  as it is, equals the text of a list but was another node: `ReadAsStored`.)
- `ParsersAgree`: both parsers make the same root record of a file, unless it has an empty joined
  element or a choice that has not exactly one item (`SameForBoth`).
- `ValuesFromText`: a typed value is what a text of the files converts to; where an elevated type also
  has a table it may be what that value converts to once more (`ConvertedTwice`; `"true"` becomes `False`).
- `FitsColumn`: what the XSD allows fits in its column, the columns of a choice excepted: the type column
  is too narrow for an attribute's marked name, the value column for several values.
- `RoundTrip`: a file comes back from its flat data if and only if it is `Lossless`: no empty joined or
  elevated element, no unmapped one, no choice of several items, nothing `Unprintable`, no
  element that the stack of `_make_xml_node` puts elsewhere (`Misplaced`) or drops at the end
  (`BadEnd`). The order of siblings too, in a first file, unless two subtrees differ only in it
  (`Twins`) or a repeated sequence has members left out (`Uneven`).
- `ExtractedWhole`: extraction fetches the document's records and no others; the tree is the one loaded
  if and only if no record with 1-n children is on two paths of relations (`ReachedTwice`), whose
  children then count twice.

**Staging.**

- `StagedWhole`: what the merge reads is row for row what the document holds, unless another load of
  the same DataModel ran beside it; but a key that the first record of a batch lacks is lost, and
  PostgreSQL's and DuckDB's files turn an empty string into NULL. So what is stored can depend on the
  size of a batch. And of a table whose first batch goes to bcp, fewer rows are read than there are:
  finding 8.
- `PrefixesSeparate`: a load with a prefix of its own never finds a table gone, and finds one already
  there only when it started while the schema or a target table was missing, and so did another.
- `TempsDropped`: a temporary table that exists is of a load that runs, was killed, or failed
  in the drop itself.
- `BulkLoadHonoured`: `bulk_load` is honoured, up to the size of batches: `True` says nothing of
  those below the threshold. But a backend without a native path takes no notice of it, where it
  should raise: finding 9.
- `LoadsEnd`: every load ends, unless `max_lines` is 0: it then inserts empty batches for ever.

**`serve`.** It is sufficient for a page to be right that its last request overlapped no other
(`LoneAnswerShown`, `LoneSaveKept`); if such a request is lost, the page says so. It is not
necessary: many requests that overlap do no harm. `serve_stale` shows that some do, and an older
answer stays.

### Bounds, and why they suffice

- Merge: two loaders. Every interaction is between one statement of a loader and the committed or open
  rows of another; a third adds no new pair.
- Four tables (`MCMerge`): a reused root, a duplicated table below it that is referenced, a
  duplicated table below that one, a reused table reached by an n-1 relation of the root and of
  a duplicated table and by a join relation with a repeated child. This has every kind of table
  and relation, and every statement. The documents overlap: `b` holds `a`'s order and one more,
  with other temporary keys, so that `s1` has in `b` the `temp_pk` that `s2` has in `a`.
- `MaxFaults = 1`: one failing statement or kill anywhere, then the rest of the behaviour;
  `MaxAttempts = 4` (2 in the group runs) is more than the loads that faults and conflicts cause, so no
  caller gives up before it succeeds.
- Model building: every XSD of four types that the depth-first parser can meet. Untransformed, with
  every subset of the tables duplicated, both orders of type names and a table that is the target of two
  fields: a cycle or a misplaced table needs at most a table, its parent and two reused tables.
  Transformed, with every mix of single and repeated elements and tables of 0, 1 or 5 columns (5 is too
  many for an optional element to be elevated): chains of elevations, stops and restarts among them. What four plain types cannot
  show is written by hand: names that meet, choices, simple types, nested groups, several roots,
  anonymous types, settings of fields. `Many = 2` stands for any number above 1.
- Documents: six data models that `Simplify` makes of XSDs (orders with reused and with duplicated lines,
  trips, books, probes, plans), each with the files that its kinds of fields call for, and `MaxFiles = 3`,
  each parsed in either way: the first file, another that shares subtrees with it, and one that finds
  what both left. `MaxFiles = 2` in the two violation runs.
- Staging: two loads, of one DataModel or of two; two tables and a join table, so that an order and its
  reverse differ and a table may be without records. Three records, `FileThreshold = 2` and batches of 1, 2 or
  all: batches below, at and above the threshold, and a second one shorter than the first. Every backend,
  driver, tool, server setting and value of `bulk_load`. `MaxFaults = 1`: one fault anywhere. The temporary
  tables have the columns of the code's, in their order: of target keys, given by records, with a default.
- `serve`: `MaxRequests = 4` with two pages: a page load, two overlapping posts or saves, and one lone
  request after them; `MaxLost = 1` of them lost (0 in the violation run). The two pages are interchangeable, which
  the run of the two invariants uses as a symmetry. Two configurations build and two do not, of lengths 1, 3, 2 and 1, so that
  a save can leave the end of a longer text.
- Building, parsing, staging and `serve` may stop (a model is built once, files, loads and requests are
  bounded), hence `CHECK_DEADLOCK FALSE` there.

## Fairness

`EventuallyLoaded` (Merge) and `LoadsEnd` (Staging) assume weak fairness of each loader's own steps
(`LoaderStep`), nothing of faults. A loader is a process that the operating system runs; a statement
that can be executed is. Waiting for the callers' lock or for another transaction's row is an action
that is not enabled; two loaders of one file suffice for weak fairness because a holder always ends
(each load has finitely many statements, failures are bounded) and a finished caller does not take
the lock again. In the merge the caller retries a failed load; xml2db itself does not.

## Proofs

Every theorem is about the specification with its constants free: any data model, documents,
number of loaders, pages and requests, and any bounds on faults and attempts.

| Theorem | Module | States |
|---|---|---|
| `OrderAfterDependencies` | `OrderProofs` | `static_order` yields a table after its dependencies, once |
| `OrderUnlessCycle` | `OrderProofs` | it yields all tables exactly if none depend on each other in a circle |
| `OrderReadsFirst` | `OrderProofs` | in the order a table comes after what its statements read |
| `GroupsKeepOrder` | `OrderProofs` | what of that, and of subtrees, the transaction groups keep |
| `ReadsMergedFirst`, `SubtreesMergedTogether` | `ModelProofs` | `OrderRespectsReads`, `GroupsKeepSubtrees` |
| `TypeCorrect` | `MergeProofs` | `TypeOK` |
| `LockPreventsConflict` | `MergeProofs` | `NoConflict` |
| `RecordsStoredOnce`, `SubtreesWhole`, `NoOtherJoinRow` | `StoreProofs` | `OneRowPerRecord`, `CommittedComplete`, `JoinsExact` |
| `RowsFaithful`, `JoinKeysFound` | `StoreProofs` | `KeysFaithful`, `NoMissingKey`, where the plan has what a table reads before it |
| `FaithfulInOneTransaction` | `StoreProofs` | both in a single transaction, and in groups when duplicated tables refer only to their parents |
| `LoadsStored` | `StoreProofs` | a load that returned has stored its whole document |
| `LoadingIsStoring` | `StoreProofs` | the refinement `ImplementsStore`, where the plan has what a table reads before it |
| `StatsAreRight` | `StoreProofs` | `StatsMatchStore` |
| `KeysAlwaysResolve`, `HashesAlwaysOnce`, `RecordsAlwaysOfNodes` | `FlatProofs` | `KeysResolve`, `HashesOnce`, `RecordsOfNodes`, for typed trees |
| `BulkLoad`, `NothingLeft`, `NoCollision` | `StagingProofs` | `BulkLoadHonoured`, `TempsDropped`, `PrefixesSeparate` |
| `StagedRows` | `StagingProofs` | `StagedWhole` |
| `OwnAnswerShown`, `SavedTextKept` | `ServeProofs` | `LoneAnswerShown`, `LoneSaveKept` |

What they assume of the constants are the named assumptions, which TLC evaluates in the runs:

- `Schema`, `Merge`: tables, relations and records fit together; a document has all that is below its records; a
  staged record has a `temp_pk` of its own in its table; table keys are distinct, and the tables do not depend on
  each other in a circle (`ModelAssumption`), for else there is no `DataModel` to load with.
- `ModelBuild` (`ModelsAssumption`): a simplified model has distinct keys, and its relations lead to parsed types.
- `Staging`: there is a table, and names differ (`TablesAssumption`); a temporary table has a column without
  a default that no record gives, as those for the target keys are (`ColumnsAssumption`); join rows are only
  in tables whose own table has records, and no record gives the column with a default, `temp_exists`, which is not
  a field of the XSD (`DataAssumption`).
- `ServeState` (`TextAssumption`): a configuration builds or it does not, and its text has a length.

### Induction

`DataLemmas` has induction as a fact about sets: a set of naturals with 0, and with each number the next, is all
of them, because what is not in it would have a least number (`WellFoundedInduction`). A fact about a
recursive function is then that the numbers at which it holds are such a set. In the same
way a recursive function is shown to be what its definition says: the numbers up to which it
exists are such a set (`RoundsDef`, `GroupedDef`, `FlattenDef`).

### The order of the tables

What `static_order` and `transaction_groups` return for any tables and relations.

`RoundOK` is what holds after k rounds of `static_order`: nothing is yielded twice; a table comes after
its dependencies; what has all of them in the order is in it or ready; and while anything is ready each round
added to the order. The last part ends it: with more rounds than tables nothing is ready
(`OrderAfterDependencies`). A table that is left out has a dependency that is left out too, so the tables left
out depend on each other in a circle, and conversely no table of a circle is yielded first
(`OrderUnlessCycle`). It rests on `Sorted`: sorting the ready tables by `MetKey` or `DoneKey` loses none, because
the keys are distinct.

`GroupsOK` is what holds of the groups after the first i tables of the order. A table that is appended to
its parent's group takes no other along, and what was earlier stays earlier (`ExtensionKeeps`).
A reused table opens the last group, so all that was before it in the order is before it; a duplicated
one goes back to its parent's, which is why nothing is said of what it reads: finding 1.

`ReadsMergedFirst` and `SubtreesMergedTogether` bring this to the models that `BuildModel` ends in: `SchemaOf` makes
a schema of any simplified model (`SchemaTyped`), and a model that is built has no circle.

### Flat data

The theorems are about `FlatData`, for any model, files and trees, under one hypothesis, that `TreesTyped` holds
throughout. It says what parsers and simplification give, and the `flatten` run checks it of the two
parsers and of the models that `Simplify` builds; the steps of `Flatten` are those of `FlatData`.
`TreesTyped` has four parts:

- A relation of a node, if it is present, is a non-empty list of nodes of the relation's table.
- The relations of a table have different names, as the keys of `model_table.relations_1` and `relations_n` have.
- The root is reused, and a duplicated table is reached by one relation: for any other model
  `_build_model` fails, in `compute_dependencies` or when it looks up the transaction group of the parent.
- The digest of a node is longer than those of its children. A digest here is the stream it was computed from,
  and this is how the model says that no node has the hash of a node below it. Of SHA-1 it is an
  assumption, like that it has no collisions. It is needed: a child with the hash of a node whose call is in
  progress is not in the hash map, and both would be added.

The invariant is `Good`, over the data, the calls in progress and the files:

- `Shaped`: there is a list of records for each table and of join rows for each relation.
- `PksGiven`, `OpenKeys`: the key of a record, and of a call, is below the next key of its table, and no two have the same
  one, calls and records together.
- `Stacked`: each call but the first is for a child that its caller still has to do, none of whose later
  children has been done.
- `HashesIn`, `OpenHashes`: a hash is once in a reused table; of a call in progress it is in no record, and
  digests get shorter up the stack.
- `Refers`: a parent's key is that of a record or of a call in progress, and so is the own key of a join row; the
  other key is that of a record.
- `Progressing`: the keys that a call has collected for a relation lead to records of the children done, in their order.
- `Complete`: a record is that of a node. It follows at the end of a call from `Progressing`, and stays because
  records that come later are of other parents.
- `FilesLoaded`: the root of a file has a record, or its call is the first of the stack.

`LinkKeysAppend` and the lemmas around it say what `ChildKeys` finds, a recursive function over the join rows or the
records: one more row changes the list of its own record and of no other.

### The merge

`TypeOK` is inductive; beyond types it says that a merging loader's position is a table of its
transaction, which the proof needs to type everything that depends on the merged table, and
which fails if a group were empty. `PlanTyped` and `PlanOrdered`, from `OrderReadsFirst` and `GroupsKeepOrder`, are what
the proofs know of the plan: in either one no group is empty, each table occurs once and a
duplicated table is in its parent's transaction after it; in the single transaction every table
comes after those it reads, in groups every reused one.

`NoConflict` is not inductive. The invariant adds `MergesAlone` (a loader that merges under a lock
holds it, and an attempt that ends gives it back only with its merge) and `MarksValid` (between
the statement that marks the staged rows of a reused table and the one that inserts the others,
no row of theirs is visible). The lock makes the second stable: another loader's commit would
need the lock. So the conflict action is disabled.

The other theorems hold with or without a lock. The last part of `MergeProofs` has their bookkeeping: `Stage`,
which says how many of a table's statements a loader has executed (marked, resolved, inserted, written
back, joined), and how each action changes it. A duplicated table's parent is always further (`ParentDone`).

`StoreProofs` first proves `RowInv`, one invariant for all that is said of rows:

- `MarkRight`: only what is committed is marked as existing, and a duplicated row as its parent is.
- `PresentRight`: a record past its table's insert, and not marked, is in this transaction's rows, or
  is committed and of a table of another transaction.
- `KeyRight`: a written-back key of a reused record leads to its row, whoever inserted it.
- `OwnRow`: a row of the open transaction is of a new staged record, with the keys staged for it, its
  parent's row in the same transaction, and the key that the staged row gets back.
- `JoinsSound`, `JoinsOnce`, `JoinsWhole`: the join rows of the open transaction are those of its rows.
- `OneRow`, `OneKey`, `KeysUsed`, `OwnNew`: over the committed and all open rows together there is one row per
  record and per key, and no key is ahead of its autoincrement. `ParentsStored`, `CommittedComplete`
  and `JoinsExact` are about the committed rows.

Why a duplicated record, which no constraint keeps apart, is stored once: its parent, up to a reused
ancestor, is new in the same transaction, and of a reused record a second row is a conflict or has
to wait. Why the key that it gets back by `temp_pk` is not that of another load's row with the same
`temp_pk`: the statement also compares the parent's key, and a new parent's key is of no other row.
Of the key of a duplicated record that was there already the invariant says nothing: the one found
may be another's, but no row that is inserted takes a key from it.

`KeysFaithful` and `NoMissingKey` are stated under `ReadsFollowed`, that the transactions of this
behaviour put what a table reads before it. The single transaction, the default, always does;
transaction groups may not, and then both are false: that is finding 1. `FaithfulInOneTransaction` states
them without the condition where it can only be true. `ReadInv` adds to
`RowInv` that the resolved foreign keys of staged rows designate the right rows (`FksRight`), and
those of committed rows (`FksStored`).

`LoadingIsStoring` is the refinement. The initial states map; `Commit` is a `StorePart` of the store, because
what is stored of a document is then closed under parents, children and references (`StoredClosed`), and is all of
the document when there is one transaction; the drop of the temporary tables after an "ok" is its `FinishLoad`,
by `LoadsStored`; every other step stutters.

`StatsAreRight` adds `CountsRight` to `RowInv`: the counters are the cardinality of the rows the attempt has
written so far, and of the reused records past their insert that it has not written. Rows
name their attempt, and none is of a later attempt than the loader's (`PastAttempts`), so a repeated load
counts its own.

### Staging

- `BulkLoad` follows from what `WayOf` returns for each batch. The server's setting may
  change and the probe may be stale at any step.
- `NothingLeft` is not inductive as it stands: that a table of a DataModel is accounted for needs to
  know where in its drop the load is. The invariant is `Owned`: for every temporary table that exists there is
  a load that is running but not yet cleaning up, or was killed, or failed in its drop, or is in
  its last drop with that table still ahead of it. It rests on both orders going through all tables.
- `NoCollision`: the invariant `Undisturbed` says of a load that no other of its
  DataModel ran beside that it finds temporary tables as its own steps left them (`Present`): those that it
  has created are there up to the merge, and what it looked up is still so when it acts. A schema
  or target table that has come in between is another load's, which has started.
- `StagedRows`: the invariant `StagedInv` says, of such a load, that the tables before its `step` of the first drop
  are gone, and with them what a killed load left; and that a table has `Due` rows, none, those
  of the batches inserted so far or all, each `Right`: its value in a column is one that the way of its batch
  writes for its record. The offset is a multiple of the batch size (`AtABatch`), so the rows of a batch come
  right after those before it. Of a table whose first batch goes to bcp it says that it has fewer rows than the records
  staged so far (`Fits`): a file without a field for every column has at least two lines for a row (`FewerRows`), and no
  later batch has more rows than records.

That both orders go through all temporary tables, each created once, is `Orders`: the creation order is the tables'
names, joined, and joining sequences without common elements repeats nothing (`Flattened`).

### `xml2db serve`

`ServeInv` types the requests by their kind and step (`Fits`), and says that an `alone` request is the only
one pending, those before it being handled (`LoneAlone`), and that every page is loaded first, and
once (`PagesLoad`). On this rest:

- `SavedTextKept`, by `SaveKept`: the file is empty when a lone save writes to it, and keeps its text as long as no
  other save follows.
- `OwnAnswerShown`, by `BuildsShown`: what a lone build stored is in the state until its answer, what it answers
  is the result of its text, and this is what the page shows when it has handled it. A page load reads its
  fields in several steps, but if it is alone they are of one state.

### What stays with TLC

TLC checked the invariants above on small instances before they were proved. TLC alone checks

- `EventuallyLoaded` and `LoadsEnd`: fairness and ENABLED are out of the prover's reach;
- what recursive operators over types, nodes and texts compute, which the provers cannot expand: what is in a
  simplified model and why a build fails (`OrderIsComplete`, `PathsKept`, `TablesReached`, `NamesDistinct`), what becomes
  of a document on its way back and to XML (`StoredOnce`, `ParsersAgree`, `ValuesFromText`, `FitsColumn`, `RoundTrip`,
  `ExtractedWhole`), and that parsers and simplification give what the flat data need (`TreesTyped`);
- the disagreements of the five violation runs.

## What is abstracted or assumed

- The database is READ COMMITTED, with statements atomic. Deadlocks between row locks inside two
  concurrent statements are not modelled: they end as a failing statement, which is. Under a
  stronger isolation more statements fail.
- An insert that meets a hash inserted by another *open* transaction waits for it; with a
  *committed* one it fails.
- Join rows are told apart by their position, as with `row_numbers`; without them they are a bag
  of the same size.
- `Kill` stops the whole calling program, its lock with it. A worker killed alone while it holds a
  `multiprocessing.Lock` leaves it locked for ever; that is the callers' lock, not this code.
- Merge has staging as one action and leaves the tables to `Staging`, whose `Merge` is one action; they meet in
  the staged rows, which `StagedWhole` says are the document's, but after bcp.
- In Staging a look and the change after it are two steps, each atomic. Every other database error is one that
  may happen anywhere (`StatementFails`). `create_schema` fails only when the schema has come in between.
- DuckDB reports no row counts (`row_counts_available`); MergeStats is modelled for the others.
- SHA-1 collisions do not happen: a digest is its stream. Column text is one token per value.
- XSDs are what the `xmlschema` package reports; namespaces, comments and validation of files, which lxml does
  before parsing, are left out. Names are short texts, because the code puts names together.
- A value is converted as `Typed` says, which has for each type the texts that can occur; what conversion
  means for other texts is Python's.
- Extraction reads one state of the database, the one that loading the flat data leaves in empty tables.
- `row_numbers` is the order of the rows, everywhere but in Merge.

## Not modelled

- `document_tree_hook` and `document_tree_node_hook`: the caller's code, which may do anything to a node.
- Column types, identifiers, DDL options of the dialects: pure naming, no state.
- Reading and checking configuration files; the `import` and `render` commands, which call what is modelled.
- Line breaks in values in the files for bcp; time zones; text of complex types that is a list or a union.
- Selects of one extraction that see different commits: nothing promises a snapshot.
- Which of its tabs the explorer shows, zoom, completion and rendering.

## Findings

1. `merge_groups`: a duplicated table's transaction group can precede the group of a reused table
   it refers to; with `single_transaction=False` its foreign keys stay NULL or its join rows are
   refused. Version 2 of the orders sample model has such an order. The run ends at the commit of a shipment
   without the key of its carrier.
2. `merge_stats`: `existing` leaves out duplicated tables, its docstring includes them.
3. `flatten_hash`: neighbouring optional relations to one type are not told apart by the hash.
4. `flatten_metadata`: a repeated document in one flat data loses its metadata.
5. `serve_stale`: an older answer handled last leaves the page with the diagram of an older text.
6. `flatten`, `RoundTrip` (`Misplaced`): after the columns of `from/place` an element `to/place` is
   written below `from`, because `to_xml` compares names from the deepest element up.
7. `flatten`, `RoundTrip` (`BadEnd`, `Unprintable`): an elevated element with attributes or text alone is
   dropped when it is the last of its node, and lxml refuses a number as attribute or text.
8. `staging`, `StagedWhole` (`GoesToBcp`): the file for bcp has the columns that records give and `temp_exists`, and is
   loaded by position into a table that has others before and between them. Rows are refused or two lines are
   read as one; a load that ends well has fewer rows than records. The tests of bcp use tables of exactly the records'
   columns, and batches below the threshold of 100 rows do not go to bcp.
9. `staging`, `BulkLoadHonoured`: backends without a `bulk_insert` of their own use executemany for
   `bulk_load=True`, which three docstrings say raises if bulk loading is unavailable.

The other exceptions named under "The runs" are behaviours worth knowing too; they are not findings
because we found no sentence in the repository that promises more.

## Plan

Done: every part that changes state is modelled; the safety properties of Merge, Staging and ServeState, the
refinement of Store, the order and groups of any model, and the flat data of any trees are proved. Left:

1. Staging composed with Merge, for loads that share a prefix: what the merge does with rows that another
   load has put there.
2. Trees as functions from positions, over which `SetInduction` would reach the parsers (`TreesTyped`), the rebuilt
   trees (`StoredOnce`) and `Simplify`.
