------------------------------- MODULE Table -------------------------------
(***************************************************************************)
(* The database file as server/db.cpp uses it: over one connection of      *)
(* SQLite, without testing more than whether a statement failed.  Outside  *)
(* of a transaction a statement is committed by itself; insertRecords      *)
(* makes one of a batch.  When its COMMIT fails because another process    *)
(* reads the file, the transaction stays open: what is written from then   *)
(* on is seen by the server, and is gone when it stops.                    *)
(*                                                                         *)
(* The tables are those of one agent: its samples and its row.             *)
(***************************************************************************)
EXTENDS Naturals, Sequences, FiniteSets

CONSTANTS Refused  \* samples a column of which is NaN, and so NULL

VARIABLES
  records,  \* records table as the server sees it
  row,      \* the agent's row of the agents table, the same
  disk,     \* both, as the file has them
  txn       \* a transaction was left open

tableVars == <<records, row, disk, txn>>

InTable(recs, r) == [records |-> recs, row |-> r]

Values(batch) == {batch[i] : i \in DOMAIN batch}

\* A statement that succeeds.
Write(recs, r) ==
  /\ records' = recs /\ row' = r
  /\ disk' = IF txn THEN disk ELSE InTable(recs, r)
  /\ UNCHANGED txn

\* A NULL violates the column, a second sample of one date the unique index.
insertRecord(s, refused) ==
  Write(IF s \in refused THEN records ELSE records \cup {s}, row)

updateAgent(r) == Write(records, r)

\* No INSERT of the batch fails.
Insertable(batch, refused) ==
  /\ Values(batch) \cap (records \cup refused) = {}
  /\ Cardinality(Values(batch)) = Len(batch)

\* Mutant: the ROLLBACK is forgotten.
insertRecordsNoRollback(batch, refused) ==
  IF ~txn /\ Insertable(batch, refused)
  THEN Write(records \cup Values(batch), row)
  ELSE txn' = TRUE /\ UNCHANGED <<records, row, disk>>

\* All of the batch or, after ROLLBACK or when BEGIN fails, nothing.
insertRecords(batch, refused) ==
  IF ~txn /\ Insertable(batch, refused)
  THEN Write(records \cup Values(batch), row)
  ELSE UNCHANGED tableVars

\* insertRecords, the COMMIT of which fails.
CommitFails(batch, refused) ==
  /\ ~txn /\ Insertable(batch, refused)
  /\ records' = records \cup Values(batch) /\ txn' = TRUE
  /\ UNCHANGED <<row, disk>>

\* The server ends, and starts with what the file has.
Reopen ==
  /\ records' = disk.records /\ row' = disk.row /\ txn' = FALSE
  /\ UNCHANGED disk
=============================================================================
