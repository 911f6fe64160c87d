------------------------------- MODULE MCWAL -------------------------------
(* Instances of WAL for TLC. *)
EXTENDS WAL, FiniteSets, TLC

CONSTANTS c1, c2, e1, e2, e3

\* With MaxFileSize = 28: an entry of 4 bytes is a record of 12 bytes, so two
\* of them fill a file; an entry of 20 bytes does not even fit an empty file.
MCEntryLen == [e \in Entries |-> IF e = e3 THEN 20 ELSE 4]

\* The third entry is for behaviours without a crash. This cuts off only crashes
\* and calls of Append, of which no fairness is assumed.
Scenarios == crashes = 0 \/ Cardinality(started) <= 2
=============================================================================
