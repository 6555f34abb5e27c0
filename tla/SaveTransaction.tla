-------------------------- MODULE SaveTransaction ---------------------------
(***************************************************************************)
(* Several filesave objects of one process, each on a thread of its own,   *)
(* over the one SQLite connection that `database' (svslib/maindb.h) wraps. *)
(*                                                                         *)
(* A filesave holds a db_transaction (BEGIN ... COMMIT or ROLLBACK) and a  *)
(* unique_lock on database::lck.  Members are constructed in the order of  *)
(* their declaration (dbt, then lck) and destroyed in the reverse order,   *)
(* so BEGIN runs before the lock is taken and ROLLBACK after it is given   *)
(* up.  There is one transaction per connection, whoever began it, and a   *)
(* statement outside any transaction commits at once.                      *)
(***************************************************************************)
EXTENDS Integers, FiniteSets

CONSTANTS
  Saves,            \* the filesave objects
  None,
  AutoRollback      \* a failing statement may roll the transaction back by
                    \* itself, as SQLite does on SQLITE_FULL, IOERR, NOMEM...

VARIABLES
  pc,               \* where each filesave stands
  ok,               \* db_transaction::ok of each
  lck,              \* holder of database::lck
  txn, pending,     \* who began the open transaction; rows written in it
  db,               \* rows on the disk
  terminated        \* std::terminate has been called

vars == <<pc, ok, lck, txn, pending, db, terminated>>

ASSUME SavesAssumption == None \notin Saves /\ AutoRollback \in BOOLEAN

\* The three statements of commit(), in order
Rows == {"object", "file", "filesize"}
RowOf    == [streaming |-> "object", object |-> "file", file |-> "filesize"]

\* The types of the state; the lock is held by the save that is between taking
\* and releasing it, and rows wait only while there is a transaction.
TypeOK ==
  /\ pc \in [Saves -> {"new", "begun", "streaming", "object", "file", "filesize",
                       "returned", "thrown", "unlocked", "gone"}]
  /\ ok \in [Saves -> BOOLEAN]
  /\ lck \in Saves \cup {None} /\ txn \in Saves \cup {None}
  /\ pending \subseteq Saves \X Rows /\ db \subseteq Saves \X Rows
  /\ terminated \in BOOLEAN
  /\ txn = None => pending = {}
  /\ \A t \in Saves :
       lck = t <=> pc[t] \in {"streaming", "object", "file", "filesize", "returned", "thrown"}

Init ==
  /\ pc = [t \in Saves |-> "new"] /\ ok = [t \in Saves |-> FALSE]
  /\ lck = None /\ txn = None /\ pending = {} /\ db = {}
  /\ terminated = FALSE

Goto(t, l) == pc' = [pc EXCEPT ![t] = l]

-----------------------------------------------------------------------------
(* SQLite, as exec and db_query see it.                                    *)

\* A statement that fails leaves the transaction as it is, or ends it
FailedStatement ==
  \/ UNCHANGED <<txn, pending>>
  \/ AutoRollback /\ txn # None /\ txn' = None /\ pending' = {}

\* INSERT or UPDATE: into the open transaction, or straight to the disk
Insert(r) ==
  IF txn # None THEN pending' = pending \cup {r} /\ UNCHANGED db
                ELSE db' = db \cup {r} /\ UNCHANGED pending

-----------------------------------------------------------------------------
(* db_transaction::db_transaction, then the lock, then the constructor     *)

\* Mutant: BEGIN is not checked for success
BeginUnchecked(t) ==
  /\ pc[t] = "new"
  /\ txn' = IF txn = None THEN t ELSE txn
  /\ Goto(t, "begun")
  /\ UNCHANGED <<ok, lck, pending, db, terminated>>

\* BEGIN TRANSACTION; inside a transaction it fails, and nothing is left
Begin(t) ==
  /\ pc[t] = "new"
  /\ IF txn = None THEN txn' = t /\ Goto(t, "begun")
                   ELSE UNCHANGED txn /\ Goto(t, "gone")
  /\ UNCHANGED <<ok, lck, pending, db, terminated>>

Lock(t) ==
  /\ pc[t] = "begun" /\ lck = None
  /\ lck' = t
  /\ Goto(t, "streaming")
  /\ UNCHANGED <<ok, txn, pending, db, terminated>>

\* process(), commit() or their caller gives up
Throw(t) ==
  /\ pc[t] = "streaming"
  /\ Goto(t, "thrown")
  /\ UNCHANGED <<ok, lck, txn, pending, db, terminated>>

-----------------------------------------------------------------------------
(* commit(): three statements and COMMIT                                   *)

Statement(t) ==
  /\ pc[t] \in DOMAIN RowOf
  /\ Insert(<<t, RowOf[pc[t]]>>)
  /\ Goto(t, RowOf[pc[t]])
  /\ UNCHANGED <<ok, lck, txn, terminated>>

\* Mutant: an INSERT that fails is passed over
StatementErrorIgnored(t) ==
  /\ pc[t] \in DOMAIN RowOf
  /\ FailedStatement
  /\ Goto(t, RowOf[pc[t]])
  /\ UNCHANGED <<ok, lck, db, terminated>>

StatementError(t) ==
  /\ pc[t] \in DOMAIN RowOf
  /\ FailedStatement
  /\ Goto(t, "thrown")
  /\ UNCHANGED <<ok, lck, db, terminated>>

\* db_transaction::commit.  COMMIT outside a transaction is an error.
Commit(t) ==
  /\ pc[t] = "filesize" /\ txn # None
  /\ db' = db \cup pending
  /\ txn' = None /\ pending' = {}
  /\ ok' = [ok EXCEPT ![t] = TRUE]
  /\ Goto(t, "returned")
  /\ UNCHANGED <<lck, terminated>>

\* Mutant: ok is set before COMMIT is tried
CommitErrorOk(t) ==
  /\ pc[t] = "filesize"
  /\ FailedStatement
  /\ ok' = [ok EXCEPT ![t] = TRUE]
  /\ Goto(t, "thrown")
  /\ UNCHANGED <<lck, db, terminated>>

CommitError(t) ==
  /\ pc[t] = "filesize"
  /\ FailedStatement
  /\ Goto(t, "thrown")
  /\ UNCHANGED <<ok, lck, db, terminated>>

-----------------------------------------------------------------------------
(* ~filesave: the lock first, then ~db_transaction                         *)

\* Mutant: the lock is given back by commit(), not by a destructor
UnlockReturned(t) ==
  /\ pc[t] \in {"returned", "thrown"}
  /\ lck' = IF pc[t] = "returned" THEN None ELSE lck
  /\ Goto(t, "unlocked")
  /\ UNCHANGED <<ok, txn, pending, db, terminated>>

Unlock(t) ==
  /\ pc[t] \in {"returned", "thrown"}
  /\ lck' = None
  /\ Goto(t, "unlocked")
  /\ UNCHANGED <<ok, txn, pending, db, terminated>>

\* Mutant: rolls back whether or not it was committed
EndTransactionAlways(t) ==
  /\ pc[t] = "unlocked"
  /\ Goto(t, "gone")
  /\ txn' = None /\ terminated' = (txn = None)
  /\ pending' = {}
  /\ UNCHANGED <<ok, lck, db>>

\* ~db_transaction() noexcept: ROLLBACK outside a transaction makes exec
\* throw, which ends the process
EndTransaction(t) ==
  /\ pc[t] = "unlocked"
  /\ Goto(t, "gone")
  /\ IF ok[t] THEN UNCHANGED <<txn, terminated>>
     ELSE txn' = None /\ terminated' = (txn = None)
  /\ pending' = IF ok[t] THEN pending ELSE {}
  /\ UNCHANGED <<ok, lck, db>>

\* The process dies; SQLite's journal undoes the open transaction
Crash ==
  /\ \E t \in Saves : pc[t] \notin {"new", "gone"}
  /\ pc' = [t \in Saves |-> "gone"]
  /\ lck' = None /\ txn' = None /\ pending' = {}
  /\ UNCHANGED <<ok, db, terminated>>

Steps(t) ==
  \/ Begin(t) \/ Lock(t) \/ Throw(t)
  \/ Statement(t) \/ StatementError(t) \/ Commit(t) \/ CommitError(t)
  \/ Unlock(t) \/ EndTransaction(t)

Finished ==
  terminated \/ \A t \in Saves : pc[t] = "gone"

Next ==
  \/ ~terminated /\ (Crash \/ \E t \in Saves : Steps(t))
  \/ Finished /\ UNCHANGED vars

Spec == Init /\ [][Next]_vars

\* A thread that can run, runs
FairSpec == Spec /\ \A t \in Saves : WF_vars(~terminated /\ Steps(t))

-----------------------------------------------------------------------------
(* Properties.                                                             *)

\* A save is in MAIN.DB with all of its rows or not at all, whatever the
\* other saves do and whenever the process dies.
AllOrNothing ==
  \A t \in Saves : {r \in db : r[1] = t} \in {{}, {t} \X Rows}

\* The statements of a save run in the transaction it began itself: no other
\* save's ROLLBACK or COMMIT ends it, although BEGIN comes before the lock
\* and ROLLBACK after it.
OwnTransaction ==
  \A t \in Saves : pc[t] \in {"begun", "streaming", "object", "file", "filesize"} => txn = t

\* commit() that returned has reached the disk, commit() that threw has not.
OutcomeTold ==
  \A t \in Saves : pc[t] = "unlocked" => (ok[t] <=> {t} \X Rows \subseteq db)

\* ~db_transaction() is declared noexcept: ending a save does not throw.
NeverTerminates == ~terminated

\* A save that has begun its transaction comes to an end: nobody waits for
\* the lock forever, although the holder of the lock and the owner of the
\* transaction may be two different saves.
SavesEnd == \A t \in Saves : pc[t] = "begun" ~> pc[t] = "gone" \/ terminated
=============================================================================
