-------------------------- MODULE MCSaveTransaction --------------------------
(***************************************************************************)
(* SaveTransaction implements SerialSaves: the transaction of a save spans *)
(* its whole life, and its rows appear with the COMMIT and never before.   *)
(***************************************************************************)
EXTENDS SaveTransaction

Serial == INSTANCE SerialSaves WITH
            active <- txn,
            saved  <- {t \in Saves : {t} \X Rows \subseteq db}

\* Although BEGIN runs before the lock is taken and ROLLBACK after it is given
\* back, on one connection for all threads, saves are serial: no COMMIT
\* completes another save than the one whose BEGIN opened the transaction.
SavesSerial == Serial!Spec
=============================================================================
