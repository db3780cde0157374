------------------------------- MODULE Staging -------------------------------
(***************************************************************************)
(* Document.insert_into_target_tables around the merge: the schema, the    *)
(* temporary tables and their batches, the target tables, and the final    *)
(* drop, with other loaders at work, failing statements and kills.         *)
(*                                                                         *)
(* Tables that are missing or present are looked up and then created or    *)
(* dropped, in two steps.  Every batch is a transaction of its own.  What  *)
(* the merge does with the staged rows is Merge.tla's.                     *)
(***************************************************************************)
EXTENDS Dialect

CONSTANTS
  Loader,
  Model,        \* the DataModels: each has a temp_prefix and a dialect of its own
  Tables,       \* fk_ordered_tables: [name, rels], rels the join tables of a table
  Columns,      \* temporary table -> its columns
  Defaults,     \* temporary table -> column -> what it holds when it is not given
  FileThreshold,\* default threshold of dialects that write a file
  Cases,        \* a set of [link, schema, made, server, serial, loads];
                \*   loads: loader -> [model, data, options]
  MaxFaults     \* bound on failing statements, kills and changes of a setting

VARIABLES
  case,    \* the connection, and what the callers do
  made,    \* the schema and the target tables that exist
  temps,   \* model -> its temporary tables that exist -> their rows
  server,  \* LOAD DATA LOCAL is allowed by the server
  probed,  \* model -> _local_infile_ok
  stage, step, offset, missing,  \* where a loader is; missing: it has looked and must act
  outcome,
  fed,     \* loader -> the staged rows that its merge read
  ways,    \* loader -> the batches staged: [way, n]
  before,  \* loader -> what existed when it started
  meddled, \* loaders that another one of their DataModel ran beside
  faults

where == <<stage, step, offset, missing>>
base == <<made, temps, server, probed>>
history == <<fed, ways, before, meddled>>
vars == <<case, base, where, outcome, history, faults>>

Schema == "schema"
Load(l) == case.loads[l]
SharedPrefix(l) == CHOOSE m \in Model : TRUE
Prefix(l) == Load(l).model
TempsOf(l) == temps[Prefix(l)]

Names(tb) == <<tb.name>> \o tb.rels
CreateOrder == FlattenSeq([i \in DOMAIN Tables |-> Names(Tables[i])])
DropOrder ==
  FlattenSeq([i \in DOMAIN Tables |-> LET tb == Reverse(Tables)[i] IN tb.rels \o <<tb.name>>])

TempTable == Range(CreateOrder)

(***************************************************************************)
(* What callers ask for is well formed.  There is a table, and no two      *)
(* tables, the join tables among them, have one name.                      *)
(***************************************************************************)
ASSUME CasesAssumption ==
  \A c \in Cases : /\ DOMAIN c.loads \subseteq Loader
                   /\ \A l \in DOMAIN c.loads : c.loads[l].model \in Model

ASSUME TablesAssumption ==
  /\ Tables \in Seq(Range(Tables)) \ {<<>>}
  /\ \A tb \in Range(Tables) : tb.rels \in Seq(Range(tb.rels)) /\ IsInjective(Names(tb))
  /\ \A i, j \in DOMAIN Tables :
       i # j => Range(Names(Tables[i])) \intersect Range(Names(Tables[j])) = {}

(***************************************************************************)
(* get_insert_temp_records_statements: the tables that have records; join  *)
(* rows only where the table itself has records.                           *)
(***************************************************************************)
Records(l, t) == IF t \in DOMAIN Load(l).data THEN Load(l).data[t] ELSE <<>>
Owner == [t \in TempTable |->
            LET i == CHOOSE i \in DOMAIN Tables : t \in Range(Names(Tables[i])) IN Tables[i].name]
HasRecords(l, t) == Records(l, t) # <<>> /\ Records(l, Owner[t]) # <<>>

(***************************************************************************)
(* Flat data holds the join rows of a table with its records.  The only    *)
(* default of a temporary column, temp_exists, is of one that records do   *)
(* not give.  Nor do they give the keys of the target tables, which the    *)
(* merge fills in: pk_<table>, or those of a join table.                   *)
(***************************************************************************)
ASSUME ColumnsAssumption ==
  \A t \in TempTable :
    /\ Columns[t] \in Seq(Range(Columns[t])) /\ Range(Columns[t]) = DOMAIN Defaults[t]
    /\ \E k \in Range(Columns[t]) :
         /\ Defaults[t][k] = Null
         /\ \A c \in Cases : \A l \in DOMAIN c.loads :
              t \in DOMAIN c.loads[l].data => \A r \in Range(c.loads[l].data[t]) : k \notin DOMAIN r

ASSUME DataAssumption ==
  /\ FileThreshold \in Int
  /\ \A c \in Cases :
       /\ c.link.dialect \in {"base", "postgresql", "mysql", "mssql", "duckdb"}
       /\ \A l \in DOMAIN c.loads :
            LET data == c.loads[l].data IN
            /\ c.loads[l].options.max_lines \in Int /\ c.loads[l].options.threshold \in Int
            /\ DOMAIN data \subseteq TempTable
            /\ \A t \in DOMAIN data :
                 /\ data[t] \in Seq(Range(data[t]))
                 /\ \A r \in Range(data[t]) : \A k \in DOMAIN r : Defaults[t][k] = Null
                 /\ data[t] # <<>> => Owner[t] \in DOMAIN data /\ data[Owner[t]] # <<>>

BatchSizeAsGiven(l, t) == Load(l).options.max_lines
BatchSize(l, t) ==
  IF Load(l).options.max_lines < 0 THEN Len(Records(l, t)) ELSE Load(l).options.max_lines
Batch(l, t) == SubSeq(Records(l, t), offset[l] + 1, Min({offset[l] + BatchSize(l, t), Len(Records(l, t))}))

(***************************************************************************)
(* The stages of a load and the steps of each.                             *)
(***************************************************************************)
Working == {"schema", "drop", "create", "insert", "target", "merge", "cleanup"}
Running(l) == stage[l] \in Working

StepsOf(l) ==
  CASE stage[l] = "schema" -> <<Schema>>
    [] stage[l] \in {"drop", "cleanup"} -> DropOrder
    [] stage[l] \in {"create", "insert", "target"} -> CreateOrder
    [] stage[l] = "merge" -> <<"merge">>
Current(l) == StepsOf(l)[step[l]]

AfterStage(l) ==
  CASE stage[l] = "schema" -> "drop"
    [] stage[l] = "drop" -> "create"
    [] stage[l] = "create" -> "insert"
    [] stage[l] = "insert" -> "target"
    [] stage[l] = "target" -> "merge"
    [] stage[l] = "merge" -> "cleanup"
    [] stage[l] = "cleanup" -> IF outcome[l] = "ok" THEN "done" ELSE "failed"

Go(l, to, i) ==
  /\ stage' = [stage EXCEPT ![l] = to]
  /\ step' = [step EXCEPT ![l] = i]
  /\ offset' = [offset EXCEPT ![l] = 0]
  /\ missing' = [missing EXCEPT ![l] = FALSE]
Advance(l) == IF step[l] < Len(StepsOf(l)) THEN Go(l, stage[l], step[l] + 1) ELSE Go(l, AfterStage(l), 1)

(***************************************************************************)
(* An error: the temporary tables are dropped in the finally clause, which *)
(* is entered after the schema; an error there ends the load.              *)
(***************************************************************************)
StraightOut(l) == IF stage[l] = "merge" THEN Go(l, "cleanup", 1) ELSE Go(l, "failed", 1)
ToCleanup(l) == IF stage[l] \in {"schema", "cleanup"} THEN Go(l, "failed", 1) ELSE Go(l, "cleanup", 1)

Raise(l, why) ==
  /\ ToCleanup(l)
  /\ outcome' = [outcome EXCEPT ![l] = IF stage[l] = "cleanup" THEN "not dropped" ELSE why]

Meddle(l) ==
  meddled' = meddled \union
    UNION {{l, k} : k \in {k \in DOMAIN case.loads \ {l} : Running(k) /\ Load(k).model = Load(l).model}}

(***************************************************************************)
(* Start of a load; callers may serialise their loads with a lock.         *)
(* Dialects but DuckDB look the schema up first.                           *)
(***************************************************************************)
Start(l) ==
  /\ stage[l] = "idle"
  /\ case.serial => \A k \in Loader : ~Running(k)
  /\ Go(l, IF case.schema THEN "schema" ELSE "drop", 1)
  /\ before' = [before EXCEPT ![l] = made]
  /\ Meddle(l)
  /\ UNCHANGED <<case, base, outcome, fed, ways, faults>>

Exists(l, x) == IF stage[l] \in {"schema", "target"} THEN x \in made ELSE x \in DOMAIN TempsOf(l)
ToDo(l, x) == IF stage[l] \in {"drop", "cleanup"} THEN Exists(l, x) ELSE ~Exists(l, x)
Defines == {"schema", "drop", "create", "target", "cleanup"}

Look(l) ==
  /\ stage[l] \in Defines /\ ~missing[l]
  /\ case.link.dialect = "duckdb" => stage[l] # "schema"
  /\ IF ToDo(l, Current(l))
     THEN missing' = [missing EXCEPT ![l] = TRUE] /\ UNCHANGED <<stage, step, offset>>
     ELSE Advance(l)
  /\ Meddle(l)
  /\ UNCHANGED <<case, base, outcome, fed, ways, before, faults>>

CreateSchema(l) ==
  /\ stage[l] = "schema"
  /\ case.link.dialect = "duckdb" \/ missing[l]
  /\ IF Schema \in made /\ case.link.dialect # "duckdb"
     THEN Raise(l, "already exists") /\ UNCHANGED made
     ELSE Advance(l) /\ made' = made \union {Schema} /\ UNCHANGED outcome
  /\ Meddle(l)
  /\ UNCHANGED <<case, temps, server, probed, fed, ways, before, faults>>

CreateTarget(l) ==
  /\ stage[l] = "target" /\ missing[l]
  /\ IF Current(l) \in made THEN Raise(l, "already exists") /\ UNCHANGED made
     ELSE Advance(l) /\ made' = made \union {Current(l)} /\ UNCHANGED outcome
  /\ Meddle(l)
  /\ UNCHANGED <<case, temps, server, probed, fed, ways, before, faults>>

CreateTemp(l) ==
  /\ stage[l] = "create" /\ missing[l]
  /\ IF Exists(l, Current(l)) THEN Raise(l, "already exists") /\ UNCHANGED temps
     ELSE /\ Advance(l)
          /\ temps' = [temps EXCEPT ![Prefix(l)] =
                         [t \in DOMAIN @ \union {Current(l)} |-> IF t \in DOMAIN @ THEN @[t] ELSE <<>>]]
          /\ UNCHANGED outcome
  /\ Meddle(l)
  /\ UNCHANGED <<case, made, server, probed, fed, ways, before, faults>>

DropTemp(l) ==
  /\ stage[l] \in {"drop", "cleanup"} /\ missing[l]
  /\ IF ~Exists(l, Current(l)) THEN Raise(l, "no such table") /\ UNCHANGED temps
     ELSE /\ temps' = [temps EXCEPT ![Prefix(l)] = [t \in DOMAIN @ \ {Current(l)} |-> @[t]]]
          /\ Advance(l)
          /\ UNCHANGED outcome
  /\ Meddle(l)
  /\ UNCHANGED <<case, made, server, probed, fed, ways, before, faults>>

(***************************************************************************)
(* Nothing is staged for a table that has no records.                      *)
(***************************************************************************)
SkipTable(l) ==
  /\ stage[l] = "insert" /\ ~HasRecords(l, Current(l))
  /\ Advance(l)
  /\ Meddle(l)
  /\ UNCHANGED <<case, base, outcome, fed, ways, before, faults>>

(***************************************************************************)
(* One batch: a transaction, bulk_insert, commit.                          *)
(***************************************************************************)
InsertBatch(l) ==
  LET t == Current(l)
      batch == Batch(l, t)
      n == Len(batch)
      way == WayOf(case.link, Load(l).options, n, FileThreshold, probed[Prefix(l)], server)
  IN
  /\ stage[l] = "insert" /\ HasRecords(l, t) /\ n > 0
  /\ probed' = IF /\ Probes(case.link, Load(l).options, n, FileThreshold, probed[Prefix(l)])
                  /\ server => Exists(l, t)
               THEN [probed EXCEPT ![Prefix(l)] = IF server THEN "works" ELSE "refused"]
               ELSE probed
  /\ IF way = "raise" THEN Raise(l, "no bulk load") /\ UNCHANGED <<temps, ways>>
     ELSE IF ~Exists(l, t) THEN Raise(l, "no such table") /\ UNCHANGED <<temps, ways>>
     ELSE IF way = "executemany" /\ ~Complete(batch) THEN Raise(l, "no value") /\ UNCHANGED <<temps, ways>>
     ELSE /\ \E rows \in RowsWritten(case.link.dialect, way, Columns[t], batch, Defaults[t]) :
               temps' = [temps EXCEPT ![Prefix(l)][t] = @ \o rows]
          /\ ways' = [ways EXCEPT ![l] = @ \union {[way |-> way, n |-> n]}]
          /\ IF offset[l] + BatchSize(l, t) < Len(Records(l, t))
             THEN offset' = [offset EXCEPT ![l] = @ + BatchSize(l, t)] /\ UNCHANGED <<stage, step, missing>>
             ELSE Advance(l)
          /\ UNCHANGED outcome
  /\ Meddle(l)
  /\ UNCHANGED <<case, made, server, fed, before, faults>>

(***************************************************************************)
(* bcp fails on rows it cannot convert or that the end of the file cuts    *)
(* off.  What it loaded before is committed: it has a connection of its    *)
(* own.                                                                    *)
(***************************************************************************)
BcpFails(l) ==
  LET t == Current(l)
      batch == Batch(l, t)
  IN
  /\ stage[l] = "insert" /\ HasRecords(l, t) /\ Len(batch) > 0 /\ Exists(l, t)
  /\ case.link.dialect = "mssql"
  /\ WayOf(case.link, Load(l).options, Len(batch), FileThreshold, probed[Prefix(l)], server) = "native"
  /\ ~InPlace(Columns[t], batch[1], Defaults[t])
  /\ \E rows \in RowsWritten("mssql", "native", Columns[t], batch, Defaults[t]) :
       temps' = [temps EXCEPT ![Prefix(l)][t] = @ \o rows]
  /\ Raise(l, "bcp failed")
  /\ Meddle(l)
  /\ UNCHANGED <<case, made, server, probed, fed, ways, before, faults>>

(***************************************************************************)
(* With max_lines = 0 a batch is empty: nothing is inserted, and the next  *)
(* batch starts where this one did.                                        *)
(***************************************************************************)
InsertNothing(l) ==
  /\ stage[l] = "insert" /\ HasRecords(l, Current(l)) /\ Batch(l, Current(l)) = <<>>
  /\ UNCHANGED vars

(***************************************************************************)
(* merge_into_target_tables reads every temporary table.                   *)
(***************************************************************************)
Merge(l) ==
  /\ stage[l] = "merge"
  /\ IF TempTable \subseteq DOMAIN TempsOf(l)
     THEN /\ Advance(l)
          /\ fed' = [fed EXCEPT ![l] = TempsOf(l)]
          /\ outcome' = [outcome EXCEPT ![l] = "ok"]
     ELSE Raise(l, "no such table") /\ UNCHANGED fed
  /\ Meddle(l)
  /\ UNCHANGED <<case, base, ways, before, faults>>

(***************************************************************************)
(* Faults: a statement fails, a loader is killed, the setting of a MySQL   *)
(* server is changed.                                                      *)
(***************************************************************************)
Fault == faults < MaxFaults /\ faults' = faults + 1

StatementFails(l) ==
  /\ Fault
  /\ \/ missing[l] \/ stage[l] = "merge"
     \/ stage[l] = "insert" /\ HasRecords(l, Current(l))
  /\ Raise(l, "error")
  /\ UNCHANGED <<case, base, history>>

Kill(l) ==
  /\ Fault
  /\ Running(l)
  /\ Go(l, "killed", 1)
  /\ UNCHANGED <<case, base, outcome, history>>

ChangeSetting ==
  /\ Fault
  /\ case.link.dialect = "mysql"
  /\ server' = ~server
  /\ UNCHANGED <<case, made, temps, probed, where, outcome, history>>

Init ==
  /\ case \in Cases
  /\ made = case.made /\ server = case.server
  /\ temps = [m \in Model |-> <<>>]
  /\ probed = [m \in Model |-> "untried"]
  /\ stage = [l \in Loader |-> IF l \in DOMAIN case.loads THEN "idle" ELSE "done"]
  /\ step = [l \in Loader |-> 1]
  /\ offset = [l \in Loader |-> 0]
  /\ missing = [l \in Loader |-> FALSE]
  /\ outcome = [l \in Loader |-> "none"]
  /\ fed = [l \in Loader |-> <<>>]
  /\ ways = [l \in Loader |-> {}]
  /\ before = [l \in Loader |-> {}]
  /\ meddled = {}
  /\ faults = 0

LoaderStep(l) ==
  \/ Start(l)
  \/ Look(l)
  \/ CreateSchema(l)
  \/ CreateTarget(l)
  \/ CreateTemp(l)
  \/ DropTemp(l)
  \/ SkipTable(l)
  \/ InsertBatch(l)
  \/ BcpFails(l)
  \/ InsertNothing(l)
  \/ Merge(l)

Next ==
  \/ \E l \in Loader : LoaderStep(l) \/ StatementFails(l) \/ Kill(l)
  \/ ChangeSetting

(***************************************************************************)
(* A running load goes on.                                                 *)
(***************************************************************************)
Fairness == \A l \in Loader : WF_vars(LoaderStep(l))
Spec == Init /\ [][Next]_vars
FairSpec == Spec /\ Fairness

-----------------------------------------------------------------------------
(***************************************************************************)
(* What a merge reads is what the document holds, row for row, whatever    *)
(* the batches, the way of each, and what a killed load with the prefix    *)
(* had left.  But a key that the first record of its batch lacks is lost,  *)
(* and so is an empty string where files are loaded.  And a table whose    *)
(* first batch goes to bcp has fewer rows than the document.               *)
(***************************************************************************)
FirstOfBatch(l, t, i) ==
  LET size == BatchSize(l, t) IN Records(l, t)[((i - 1) \div size) * size + 1]

StagedAs(l, t, i, k) ==
  LET r == Records(l, t)[i]
      v == IF k \in DOMAIN r THEN r[k] ELSE Defaults[t][k]
  IN IF k \notin DOMAIN FirstOfBatch(l, t, i) THEN {Defaults[t][k]}
     ELSE {v} \union (IF case.link.dialect \in {"postgresql", "duckdb"} /\ Load(l).options.bulk # "never"
                      THEN {OnWire(case.link.dialect, v)} ELSE {})

GoesToBcp(l, t) ==
  /\ case.link.dialect = "mssql" /\ case.link.tool
  /\ ~Small("mssql", Load(l).options, Min({BatchSize(l, t), Len(Records(l, t))}), FileThreshold)

StagedWhole ==
  \A l \in DOMAIN case.loads : outcome[l] = "ok" /\ l \notin meddled =>
    \A t \in TempTable :
      IF Records(l, t) # <<>> /\ GoesToBcp(l, t) THEN Len(fed[l][t]) < Len(Records(l, t))
      ELSE /\ Len(fed[l][t]) = Len(Records(l, t))
           /\ \A i \in DOMAIN Records(l, t) : \A k \in DOMAIN Defaults[t] :
                fed[l][t][i][k] \in StagedAs(l, t, i, k)

(***************************************************************************)
(* Loads with prefixes of their own do not collide, as the documentation   *)
(* says, but for two that both start while the schema or a target table is *)
(* missing.                                                                *)
(***************************************************************************)
AllMade == TempTable \union (IF case.schema THEN {Schema} ELSE {})

PrefixesSeparate ==
  \A l \in DOMAIN case.loads : l \notin meddled =>
    /\ outcome[l] # "no such table"
    /\ outcome[l] = "already exists" =>
         /\ ~(AllMade \subseteq before[l])
         /\ \E k \in DOMAIN case.loads \ {l} : stage[k] # "idle"

(***************************************************************************)
(* A load leaves no temporary table, however it ends, unless it is killed  *)
(* or the drop itself fails.                                               *)
(***************************************************************************)
TempsDropped ==
  \A m \in Model : DOMAIN temps[m] # {} =>
    \E l \in DOMAIN case.loads :
      /\ Prefix(l) = m
      /\ Running(l) \/ stage[l] = "killed" \/ outcome[l] = "not dropped"

(***************************************************************************)
(* bulk_load as documented, up to the size of batches: True never stages   *)
(* a batch that is large enough otherwise, False never bulk loads, None    *)
(* never fails for want of it, even when the server stops allowing it      *)
(* between two batches.  But a backend without a bulk_insert of its own    *)
(* takes no notice of True, where it should fail, and never bulk loads.    *)
(***************************************************************************)
BulkLoadHonoured ==
  \A l \in DOMAIN case.loads :
    LET options == Load(l).options
        large == Threshold(case.link.dialect, options, FileThreshold)
        some == {w.way : w \in {v \in ways[l] : ~(v.n < large)}}
    IN /\ options.bulk = "required" =>
            some \subseteq {IF case.link.dialect = "base" THEN "executemany" ELSE "native"}
       /\ options.bulk = "never" => \A w \in ways[l] : w.way = "executemany"
       /\ outcome[l] = "no bulk load" => options.bulk = "required"

(***************************************************************************)
(* Every load ends, unless max_lines is 0.                                 *)
(***************************************************************************)
Ended(l) == stage[l] \in {"done", "failed", "killed"}
LoadsEnd == \A l \in Loader : <>(Ended(l) \/ (stage[l] = "insert" /\ Load(l).options.max_lines = 0))
=============================================================================
