-------------------------------- MODULE Store --------------------------------
(***************************************************************************)
(* What loading promises, whatever the tables, statements, keys and locks: *)
(* a store of records that only grows, by the records of one document at a *)
(* time; with everything a record refers to and all its children; all of   *)
(* the document at once when it is loaded in a single transaction; and a   *)
(* document counts as loaded once all its records are there.               *)
(*                                                                         *)
(* The contract of Document.insert_into_target_tables as its docstring     *)
(* puts it: changes are rolled back on failure, and single_transaction or  *)
(* "the minimum scope required to ensure database consistency".            *)
(***************************************************************************)
EXTENDS Schema

CONSTANTS Loader, Doc

VARIABLES atomic, stored, loaded
vars == <<atomic, stored, loaded>>

(***************************************************************************)
(* The parts of a document one transaction may leave in the store.         *)
(***************************************************************************)
Parts == [l \in Loader |-> {S \in SUBSET Doc[l] : Closed(S)}]

Init ==
  /\ atomic \in BOOLEAN
  /\ stored = {}
  /\ loaded = {}

StorePart(l) ==
  /\ stored' \in {stored \union S : S \in IF atomic THEN {Doc[l]} ELSE Parts[l]}
  /\ UNCHANGED <<atomic, loaded>>

FinishLoad(l) ==
  /\ Doc[l] \subseteq stored
  /\ loaded' = loaded \union {l}
  /\ UNCHANGED <<atomic, stored>>

Next == \E l \in Loader : StorePart(l) \/ FinishLoad(l)

Spec == Init /\ [][Next]_vars
=============================================================================
