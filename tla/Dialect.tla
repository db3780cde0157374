------------------------------- MODULE Dialect -------------------------------
(***************************************************************************)
(* DatabaseDialect.bulk_insert and its overrides: which way a batch of     *)
(* staged records takes, and what the database then holds.                 *)
(*                                                                         *)
(* A connection is a record.  dialect: "base" stands for every backend     *)
(* without a bulk_insert of its own; driver: the Python driver is one that *)
(* bulk loading knows; tool: bcp is on the PATH and the connection has     *)
(* credentials it can use.  Options are bulk_load ("required" for True,    *)
(* "never" for False, "default" for None) and bulk_load_threshold.         *)
(*                                                                         *)
(* A record is a function of column keys; Null is an SQL NULL, Empty the   *)
(* empty string, Tabbed a text with a tab and Spaced that text with a      *)
(* space in its place; Misplaced is what a column holds that was given     *)
(* another column's text.                                                  *)
(***************************************************************************)
EXTENDS Integers, FiniteSets, SequencesExt

Null == "NULL"
Empty == ""
Tabbed == "tabbed"
Spaced == "spaced"
Misplaced == "misplaced"
Unset == -1

(***************************************************************************)
(* Batches below the threshold are not bulk loaded.  PostgreSQL's is 0.    *)
(***************************************************************************)
Threshold(dialect, options, file_threshold) ==
  IF options.threshold # Unset THEN options.threshold
  ELSE IF dialect = "postgresql" THEN 0 ELSE file_threshold

Small(dialect, options, n, file_threshold) ==
  options.bulk = "never" \/ n < Threshold(dialect, options, file_threshold)

(***************************************************************************)
(* The way of a batch of n records: "native", "executemany" or "raise".    *)
(* The driver is looked at before the threshold, bcp and MySQL's cached    *)
(* probe after it; the probe itself is the first LOAD DATA, which a server *)
(* with local_infile off refuses.                                          *)
(***************************************************************************)
BarredAlways(options) == "executemany"
Barred(options) == IF options.bulk = "required" THEN "raise" ELSE "executemany"

NoDriver(link) == link.dialect \in {"postgresql", "mysql"} /\ ~link.driver
NoTool(link, probed) ==
  \/ link.dialect = "mssql" /\ ~link.tool
  \/ link.dialect = "mysql" /\ probed = "refused"

Probes(link, options, n, file_threshold, probed) ==
  /\ link.dialect = "mysql" /\ link.driver
  /\ ~Small(link.dialect, options, n, file_threshold) /\ probed # "refused"

WayOf(link, options, n, file_threshold, probed, server) ==
  IF link.dialect = "base" THEN "executemany"
  ELSE IF NoDriver(link) THEN Barred(options)
  ELSE IF Small(link.dialect, options, n, file_threshold) THEN "executemany"
  ELSE IF NoTool(link, probed) THEN Barred(options)
  ELSE IF link.dialect = "mysql" /\ ~server THEN Barred(options)
  ELSE "native"

(***************************************************************************)
(* What executemany and files that name their columns write.  The columns  *)
(* are those of the first record of the batch, the others take the         *)
(* column's default.  executemany refuses a record that lacks one of these *)
(* columns, files write it as NULL.  In a file an empty string is NULL,    *)
(* but for LOAD DATA, which has \N; bcp is given tabs as spaces.           *)
(***************************************************************************)
Complete(records) == \A i \in DOMAIN records : DOMAIN records[1] \subseteq DOMAIN records[i]

OnWire(dialect, v) ==
  IF v = Empty /\ dialect # "mysql" THEN Null
  ELSE IF v = Tabbed /\ dialect = "mssql" THEN Spaced
  ELSE v

FileValue(dialect, r, k) == IF k \in DOMAIN r THEN OnWire(dialect, r[k]) ELSE Null

Rows(records, defaults, Value(_, _)) ==
  [i \in DOMAIN records |->
     [k \in DOMAIN defaults |->
        IF k \in DOMAIN records[1] THEN Value(records[i], k) ELSE defaults[k]]]

(***************************************************************************)
(* bcp is told no columns.  Its file has the keys of the first record, in  *)
(* the order of the columns, then the defaults of the others; it reads     *)
(* these fields by position.  Only what has a field for every column, the  *)
(* defaults last, is in its place.                                         *)
(***************************************************************************)
Written(columns, first, defaults) ==
  {j \in DOMAIN columns : columns[j] \in DOMAIN first \/ defaults[columns[j]] # Null}
Leading(columns, first) == {j \in DOMAIN columns : \A i \in 1..j : columns[i] \in DOMAIN first}

InPlace(columns, first, defaults) ==
  /\ Written(columns, first, defaults) = DOMAIN columns
  /\ \A j \in DOMAIN columns : columns[j] \in DOMAIN first => j \in Leading(columns, first)

(***************************************************************************)
(* A row of the table ends at the first line end after one tab less than   *)
(* it has columns, so that short lines are read together, and the last     *)
(* field of a line with the first of the next one.  A row with a value     *)
(* that does not convert is refused.                                       *)
(***************************************************************************)
LinesPerRow(columns, fields) == (columns + fields - 3) \div (fields - 1)

ByPosition(columns, records, defaults) ==
  LET fields == Cardinality(Written(columns, records[1], defaults))
      lines == LinesPerRow(Len(columns), fields)
      kept == {columns[j] : j \in Leading(columns, records[1]) \intersect 1..(fields - 1)}
  IN IF fields < 2 THEN <<>>
     ELSE [i \in 1..(Len(records) \div lines) |->
             [k \in DOMAIN defaults |->
                IF k \in kept THEN FileValue("mssql", records[(i - 1) * lines + 1], k) ELSE Misplaced]]

Some(rows) ==
  UNION {{[i \in 1..n |-> rows[at[i]]] :
            at \in {f \in [1..n -> DOMAIN rows] : \A i, j \in 1..n : i < j => f[i] < f[j]}} :
         n \in 0..Len(rows)}

(***************************************************************************)
(* What the database may hold of a batch.                                  *)
(***************************************************************************)
RowsWithoutDefaults(dialect, way, columns, records, defaults) ==
  LET None == [k \in DOMAIN defaults |-> Null]
  IN IF way # "native" THEN {Rows(records, defaults, LAMBDA r, k : r[k])}
     ELSE IF dialect = "mssql" THEN Some(ByPosition(columns, records, None))
     ELSE {Rows(records, None, LAMBDA r, k : FileValue(dialect, r, k))}
RowsWritten(dialect, way, columns, records, defaults) ==
  IF way # "native" THEN {Rows(records, defaults, LAMBDA r, k : r[k])}
  ELSE IF dialect = "mssql" /\ ~InPlace(columns, records[1], defaults)
  THEN Some(ByPosition(columns, records, defaults))
  ELSE {Rows(records, defaults, LAMBDA r, k : FileValue(dialect, r, k))}
=============================================================================
