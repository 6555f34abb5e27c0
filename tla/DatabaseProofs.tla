--------------------------- MODULE DatabaseProofs ---------------------------
(***************************************************************************)
(* Proofs about svslib/maindb.h.  Any number of saves share a connection:  *)
(* they are serial and each of them is in MAIN.DB as a whole or not at     *)
(* all, whatever fails, as long as no save begins between SQLite's own     *)
(* rollback of another one and the end of that one's destructor.  And      *)
(* db_query, for all statements, columns, parameters and numbers of rows,  *)
(* and for all sequences of operations.                                    *)
(***************************************************************************)
EXTENDS MCDatabase, TLAPS

-----------------------------------------------------------------------------
(* What the theorems about saves exclude, as steps.                        *)

\* A save that is giving up, by way of its destructor
Late(t) == pc[t] \in {"thrown", "unlocked"} /\ ~ok[t]

\* SQLite has rolled back its transaction by itself: its ROLLBACK, still to
\* come, is not for the transaction that is open then.
Orphaned(t) == Late(t) /\ txn # t

\* Another thread begins a save while there is such a ROLLBACK to come
Intruder == \E t, u \in Saves : Orphaned(t) /\ Begin(u)

\* SQLite rolls back because of a statement that has failed: a full disk, an
\* I/O error, no memory
RolledBackByItself ==
  \E t \in Saves : (StatementError(t) \/ CommitError(t)) /\ txn # None /\ txn' = None

-----------------------------------------------------------------------------
(* Saves: the inductive invariant.  The properties do not say who owns the *)
(* open transaction between a destructor's two halves, nor which rows wait *)
(* in it.                                                                  *)

\* From BEGIN to the end of commit(), that is, even when the lock is not held
\* yet
Active(t) == pc[t] \in {"begun", "streaming", "object", "file", "filesize"}

Stored(t) == \A r \in Rows : <<t, r>> \in db
Absent(t) == \A r \in Rows : <<t, r>> \notin db

\* A save that is active has its transaction, one that gives up has its own or
\* none is open, and nobody else has one
Owners ==
  \A t \in Saves :
    /\ Active(t) => txn = t
    /\ Late(t) => txn \in {t, None}
    /\ txn = t => Active(t) \/ Late(t)

\* The transaction holds what its owner has inserted so far
PendingRows ==
  /\ \A r \in pending : r[1] = txn
  /\ \A t \in Saves :
       /\ pc[t] \in {"object", "file", "filesize"} => <<t, "object">> \in pending
       /\ pc[t] \in {"file", "filesize"} => <<t, "file">> \in pending
       /\ pc[t] = "filesize" => <<t, "filesize">> \in pending

\* What is on the disk of a save, and what it knows of it
Told(t) ==
  /\ pc[t] \in {"new", "begun", "streaming", "object", "file", "filesize", "thrown"}
       => Absent(t) /\ ~ok[t]
  /\ pc[t] = "returned" => Stored(t) /\ ok[t]
  /\ pc[t] = "unlocked" => IF ok[t] THEN Stored(t) ELSE Absent(t)
  /\ pc[t] = "gone" => Stored(t) \/ Absent(t)

IInv ==
  /\ TypeOK
  /\ Owners
  /\ PendingRows
  /\ \A t \in Saves : Told(t)

-----------------------------------------------------------------------------

LEMMA InitInvariant == Init => IInv
  BY SavesAssumption
  DEF Init, IInv, TypeOK, Owners, Active, Late, PendingRows, Told, Absent, Rows

\* The types need nothing of the rest, whatever SQLite rolls back
LEMMA TypesKept ==
  ASSUME TypeOK, [Next]_vars
  PROVE  TypeOK'
  <1> USE SavesAssumption DEF TypeOK, Goto
  <1>1. CASE UNCHANGED vars
    BY <1>1 DEF vars
  <1>2. CASE Crash
    BY <1>2 DEF Crash
  <1>3. ASSUME NEW t \in Saves, Steps(t) PROVE TypeOK'
    <2>1. CASE Begin(t) \/ Lock(t) \/ Throw(t)
      BY <2>1 DEF Begin, Lock, Throw
    <2>2. CASE Statement(t)
      <3>1. RowOf[pc[t]] \in Rows /\ RowOf[pc[t]] \in {"object", "file", "filesize"}
        BY <2>2 DEF Statement, RowOf, Rows
      <3>2. /\ pc[t] \in {"streaming", "object", "file"}
            /\ pc' = [pc EXCEPT ![t] = RowOf[pc[t]]]
            /\ UNCHANGED <<ok, lck, txn, terminated>>
        BY <2>2 DEF Statement, RowOf
      <3>3. pending' \subseteq Saves \X Rows /\ db' \subseteq Saves \X Rows
            /\ (txn' = None => pending' = {})
        BY <2>2, <3>1 DEF Statement, Insert
      <3> QED
        BY <3>1, <3>2, <3>3
    <2>3. CASE StatementError(t) \/ CommitError(t)
      <3>1. pc[t] \in {"streaming", "object", "file", "filesize"} /\ UNCHANGED <<ok, lck, db, terminated>>
            /\ pc' = [pc EXCEPT ![t] = "thrown"]
        BY <2>3 DEF StatementError, CommitError, RowOf
      <3>2. UNCHANGED <<txn, pending>> \/ (txn' = None /\ pending' = {})
        BY <2>3 DEF StatementError, CommitError, FailedStatement
      <3> QED
        BY <3>1, <3>2
    <2>4. CASE Commit(t) \/ Unlock(t)
      BY <2>4 DEF Commit, Unlock
    <2>5. CASE EndTransaction(t)
      BY <2>5 DEF EndTransaction
    <2> QED
      BY <1>3, <2>1, <2>2, <2>3, <2>4, <2>5 DEF Steps
  <1> QED
    BY <1>1, <1>2, <1>3 DEF Next

\* BEGIN opens a transaction only where nobody has one
LEMMA BeginInvariant ==
  ASSUME IInv, NEW t \in Saves, Begin(t), ~Intruder
  PROVE  (Owners /\ PendingRows /\ \A u \in Saves : Told(u))'
  <1>1. pc[t] = "new" /\ UNCHANGED <<ok, lck, pending, db, terminated>>
        /\ \/ txn = None /\ txn' = t /\ pc' = [pc EXCEPT ![t] = "begun"]
           \/ txn # None /\ txn' = txn /\ pc' = [pc EXCEPT ![t] = "gone"]
    BY DEF Begin, Goto
  <1>2. txn = None => \A u \in Saves : ~Active(u) /\ ~Late(u)
    BY SavesAssumption DEF Intruder, Orphaned, IInv, Owners
  <1>3. Owners'
    BY <1>1, <1>2, SavesAssumption DEF IInv, TypeOK, Owners, Active, Late
  <1>4. PendingRows'
    BY <1>1, SavesAssumption DEF IInv, TypeOK, PendingRows
  <1>5. (\A u \in Saves : Told(u))'
    BY <1>1 DEF IInv, TypeOK, Told, Absent, Stored
  <1> QED
    BY <1>3, <1>4, <1>5

LEMMA LockInvariant ==
  ASSUME IInv, NEW t \in Saves, Lock(t) \/ Throw(t)
  PROVE  (Owners /\ PendingRows /\ \A u \in Saves : Told(u))'
  BY SavesAssumption
  DEF IInv, TypeOK, Lock, Throw, Goto, Owners, Active, Late, PendingRows, Told, Absent, Stored

\* A statement of a save meets the transaction that the save has begun
LEMMA StatementInvariant ==
  ASSUME IInv, NEW t \in Saves, Statement(t)
  PROVE  (Owners /\ PendingRows /\ \A u \in Saves : Told(u))'
  <1>1. txn = t /\ txn # None
    BY SavesAssumption DEF IInv, Statement, RowOf, Owners, Active
  <1>2. pending' = pending \cup {<<t, RowOf[pc[t]]>>} /\ UNCHANGED db
    BY <1>1 DEF Statement, Insert
  <1>3. \/ pc[t] = "streaming" /\ pc'[t] = "object" /\ RowOf[pc[t]] = "object"
        \/ pc[t] = "object" /\ pc'[t] = "file" /\ RowOf[pc[t]] = "file"
        \/ pc[t] = "file" /\ pc'[t] = "filesize" /\ RowOf[pc[t]] = "filesize"
    BY DEF Statement, Goto, RowOf, IInv, TypeOK
  <1>4. Owners'
    BY <1>1, <1>2, <1>3 DEF IInv, TypeOK, Statement, Goto, Owners, Active, Late
  <1>5. PendingRows'
    BY <1>1, <1>2, <1>3, SavesAssumption
    DEF IInv, TypeOK, Statement, Goto, PendingRows, Owners, Active
  <1>6. (\A u \in Saves : Told(u))'
    BY <1>1, <1>2, <1>3 DEF IInv, TypeOK, Statement, Goto, Told, Absent, Stored
  <1> QED
    BY <1>4, <1>5, <1>6

\* A statement that fails makes its save give up, with its transaction or
\* without one
LEMMA ErrorInvariant ==
  ASSUME IInv, NEW t \in Saves, StatementError(t) \/ CommitError(t)
  PROVE  (Owners /\ PendingRows /\ \A u \in Saves : Told(u))'
  <1>1. /\ pc[t] \in {"streaming", "object", "file", "filesize"}
        /\ pc' = [pc EXCEPT ![t] = "thrown"]
        /\ UNCHANGED <<ok, lck, db, terminated>>
    BY DEF StatementError, CommitError, RowOf, Goto
  <1>2. UNCHANGED <<txn, pending>> \/ (txn' = None /\ pending' = {})
    BY DEF StatementError, CommitError, FailedStatement
  <1>3. txn = t /\ txn # None
    BY <1>1, SavesAssumption DEF IInv, Owners, Active
  <1>4. ASSUME NEW u \in Saves, u # t PROVE ~Active(u) /\ ~Late(u) /\ pc'[u] = pc[u]
    BY <1>1, <1>3, <1>4, SavesAssumption DEF IInv, TypeOK, Owners
  <1>5. pc'[t] = "thrown" /\ ~ok[t]
    BY <1>1 DEF IInv, TypeOK, Told
  <1>6. Owners'
    BY <1>1, <1>2, <1>3, <1>4, <1>5, SavesAssumption DEF Owners, Active, Late
  <1>7. PendingRows'
    <2>1. \A u \in Saves : pc'[u] \notin {"object", "file", "filesize"}
      BY <1>4, <1>5 DEF Active
    <2> QED
      BY <1>2, <2>1 DEF IInv, PendingRows
  <1>8. (\A u \in Saves : Told(u))'
    BY <1>1, <1>5 DEF IInv, TypeOK, Told, Absent, Stored
  <1> QED
    BY <1>6, <1>7, <1>8

\* COMMIT writes the rows of its own save and of no other
LEMMA CommitStores ==
  ASSUME IInv, NEW t \in Saves, Commit(t)
  PROVE  /\ txn = t
         /\ Stored(t)'
         /\ \A u \in Saves \ {t} : (Stored(u) => Stored(u)') /\ (Absent(u) => Absent(u)')
  <1>1. txn = t
    BY DEF IInv, Commit, Owners, Active
  <1>2. Stored(t)'
    BY DEF IInv, Commit, PendingRows, Stored, Rows
  <1>3. ASSUME NEW u \in Saves \ {t}
        PROVE  (Stored(u) => Stored(u)') /\ (Absent(u) => Absent(u)')
    <2>1. \A r \in Rows : <<u, r>> \notin pending
      BY <1>1 DEF IInv, PendingRows
    <2> QED
      BY <2>1 DEF Commit, Stored, Absent
  <1> QED
    BY <1>1, <1>2, <1>3

LEMMA CommitInvariant ==
  ASSUME IInv, NEW t \in Saves, Commit(t)
  PROVE  (Owners /\ PendingRows /\ \A u \in Saves : Told(u))'
  <1>1. /\ txn = t /\ txn' = None /\ pending' = {}
        /\ pc' = [pc EXCEPT ![t] = "returned"] /\ ok' = [ok EXCEPT ![t] = TRUE]
    BY CommitStores DEF Commit, Goto
  <1>2. ASSUME NEW u \in Saves, u # t PROVE ~Active(u) /\ ~Late(u)
    BY <1>1, <1>2, SavesAssumption DEF IInv, TypeOK, Owners
  <1>3. Owners'
    BY <1>1, <1>2, SavesAssumption DEF IInv, TypeOK, Owners, Active, Late
  <1>4. PendingRows'
    BY <1>1, <1>2 DEF IInv, TypeOK, PendingRows, Active
  <1>5. ASSUME NEW u \in Saves PROVE Told(u)'
    <2>1. CASE u = t
      BY <2>1, CommitStores DEF IInv, TypeOK, Commit, Goto, Told
    <2>2. CASE u # t
      <3>1. pc'[u] = pc[u] /\ ok'[u] = ok[u] /\ Told(u)
        BY <2>2 DEF IInv, TypeOK, Commit, Goto
      <3>2. (Stored(u) => Stored(u)') /\ (Absent(u) => Absent(u)')
        BY <2>2, CommitStores
      <3> QED
        BY <3>1, <3>2 DEF Told
    <2> QED
      BY <2>1, <2>2
  <1> QED
    BY <1>3, <1>4, <1>5

LEMMA UnlockInvariant ==
  ASSUME IInv, NEW t \in Saves, Unlock(t)
  PROVE  (Owners /\ PendingRows /\ \A u \in Saves : Told(u))'
  BY SavesAssumption
  DEF IInv, TypeOK, Unlock, Goto, Owners, Active, Late, PendingRows, Told, Absent, Stored

\* ROLLBACK finds the transaction of this save, or none
LEMMA EndTransactionInvariant ==
  ASSUME IInv, NEW t \in Saves, EndTransaction(t)
  PROVE  (Owners /\ PendingRows /\ \A u \in Saves : Told(u))'
  <1>1. pc[t] = "unlocked" /\ pc' = [pc EXCEPT ![t] = "gone"] /\ UNCHANGED <<ok, lck, db>>
    BY DEF EndTransaction, Goto
  <1>2. (\A u \in Saves : Told(u))'
    BY <1>1 DEF IInv, TypeOK, Told, Absent, Stored
  <1>3. CASE ok[t]
    <2>1. UNCHANGED <<txn, pending>>
      BY <1>3 DEF EndTransaction
    <2>2. Owners' /\ PendingRows'
      BY <1>1, <1>3, <2>1, SavesAssumption DEF IInv, TypeOK, Owners, Active, Late, PendingRows
    <2> QED
      BY <1>2, <2>2
  <1>4. CASE ~ok[t]
    <2>1. txn' = None /\ pending' = {}
      BY <1>4 DEF EndTransaction
    <2>2. Late(t) /\ txn \in {t, None}
      BY <1>1, <1>4 DEF IInv, Owners, Late
    <2>3. \A u \in Saves : u # t => ~Active(u) /\ pc'[u] = pc[u]
      BY <1>1, <2>2, SavesAssumption DEF IInv, TypeOK, Owners
    <2>4. \A u \in Saves : ~Active(u)'
      BY <1>1, <2>3 DEF IInv, TypeOK, Active
    <2>5. Owners' /\ PendingRows'
      BY <2>1, <2>4, SavesAssumption DEF Owners, PendingRows, Active
    <2> QED
      BY <1>2, <2>5
  <1> QED
    BY <1>3, <1>4

LEMMA CrashInvariant ==
  ASSUME IInv, Crash
  PROVE  (Owners /\ PendingRows /\ \A u \in Saves : Told(u))'
  BY SavesAssumption
  DEF IInv, TypeOK, Crash, Owners, Active, Late, PendingRows, Told, Absent, Stored

LEMMA NextInvariant ==
  ASSUME IInv, [Next]_vars, [~Intruder]_vars
  PROVE  IInv'
  <1>1. TypeOK'
    BY TypesKept DEF IInv
  <1>2. CASE UNCHANGED vars
    BY <1>1, <1>2 DEF IInv, Owners, Active, Late, PendingRows, Told, Absent, Stored, vars
  <1>3. CASE Crash
    BY <1>1, <1>3, CrashInvariant DEF IInv
  <1>4. CASE ~(UNCHANGED vars) /\ \E t \in Saves : Steps(t)
    BY <1>1, <1>4, BeginInvariant, LockInvariant, StatementInvariant,
       ErrorInvariant, CommitInvariant, UnlockInvariant, EndTransactionInvariant
    DEF Steps, IInv
  <1> QED
    BY <1>2, <1>3, <1>4 DEF Next

LEMMA Invariant == Spec /\ [][~Intruder]_vars => []IInv
  BY InitInvariant, NextInvariant, PTL DEF Spec

\* As long as SQLite does not roll back by itself, there is no save whose
\* ROLLBACK is not for its own transaction, and nobody can intrude.
Unorphaned == ~terminated /\ \A t \in Saves : ~Orphaned(t)

LEMMA UnorphanedKept ==
  ASSUME IInv, Unorphaned, [Next]_vars, [~RolledBackByItself]_vars
  PROVE  (IInv /\ Unorphaned)' /\ [~Intruder]_vars
  <1>1. ~Intruder
    BY DEF Unorphaned, Intruder
  <1>2. IInv'
    BY <1>1, NextInvariant
  <1>3. CASE UNCHANGED vars
    BY <1>1, <1>2, <1>3 DEF Unorphaned, Orphaned, Late, vars
  <1>4. CASE Crash
    BY <1>1, <1>2, <1>4 DEF Crash, Unorphaned, Orphaned, Late, IInv, TypeOK
  <1>5. ASSUME NEW t \in Saves, Steps(t), ~UNCHANGED vars PROVE Unorphaned'
    <2>1. CASE Begin(t)
      BY <2>1, SavesAssumption
      DEF Begin, Goto, Unorphaned, Orphaned, Late, IInv, TypeOK, Owners
    <2>2. CASE Lock(t) \/ Throw(t) \/ Unlock(t)
      BY <2>2, SavesAssumption
      DEF Lock, Throw, Unlock, Goto, Unorphaned, Orphaned, Late, IInv, TypeOK, Owners, Active, Told
    <2>3. CASE Statement(t)
      BY <2>3 DEF Statement, RowOf, Goto, Unorphaned, Orphaned, Late, IInv, TypeOK
    <2>4. CASE StatementError(t) \/ CommitError(t)
      <3>1. /\ pc[t] \in {"streaming", "object", "file", "filesize"}
            /\ pc' = [pc EXCEPT ![t] = "thrown"] /\ UNCHANGED <<ok, terminated>>
        BY <2>4 DEF StatementError, CommitError, RowOf, Goto
      <3>2. txn = t /\ txn # None
        BY <3>1, SavesAssumption DEF IInv, Owners, Active
      <3>3. txn' = txn
        BY <1>5, <2>4, <3>2 DEF RolledBackByItself, StatementError, CommitError, FailedStatement
      <3> QED
        BY <3>1, <3>2, <3>3 DEF Unorphaned, Orphaned, Late, IInv, TypeOK
    <2>5. CASE Commit(t)
      <3>1. txn = t /\ pc' = [pc EXCEPT ![t] = "returned"] /\ ok' = [ok EXCEPT ![t] = TRUE]
            /\ UNCHANGED terminated
        BY <2>5, CommitStores DEF Commit, Goto
      <3>2. \A u \in Saves : u # t => ~Late(u)
        BY <3>1, SavesAssumption DEF Unorphaned, Orphaned
      <3> QED
        BY <3>1, <3>2 DEF Unorphaned, Orphaned, Late, IInv, TypeOK
    <2>6. CASE EndTransaction(t)
      <3>1. pc[t] = "unlocked" /\ pc' = [pc EXCEPT ![t] = "gone"] /\ UNCHANGED ok
        BY <2>6 DEF EndTransaction, Goto
      <3>2. CASE ok[t]
        BY <2>6, <3>1, <3>2 DEF EndTransaction, Unorphaned, Orphaned, Late, IInv, TypeOK
      <3>3. CASE ~ok[t]
        <4>1. txn = t
          BY <3>1, <3>3 DEF Unorphaned, Orphaned, Late
        <4>2. ~terminated'
          BY <2>6, <3>3, <4>1, SavesAssumption DEF EndTransaction
        <4>3. \A u \in Saves : u # t => ~Late(u)
          BY <4>1 DEF Unorphaned, Orphaned
        <4> QED
          BY <3>1, <4>2, <4>3 DEF Unorphaned, Orphaned, Late, IInv, TypeOK
      <3> QED
        BY <3>2, <3>3
    <2> QED
      BY <1>5, <2>1, <2>2, <2>3, <2>4, <2>5, <2>6 DEF Steps
  <1> QED
    BY <1>1, <1>2, <1>3, <1>4, <1>5 DEF Next

LEMMA NoIntruders ==
  Spec /\ [][~RolledBackByItself]_vars => [](IInv /\ Unorphaned) /\ [][~Intruder]_vars
  <1>1. Init => IInv /\ Unorphaned
    BY InitInvariant DEF Init, Unorphaned, Orphaned, Late
  <1> QED
    BY <1>1, UnorphanedKept, PTL DEF Spec

-----------------------------------------------------------------------------
(* The properties that the runs check.                                     *)

\* The state is typed, and the lock is held by the save that stands between
\* taking and releasing it, however many saves there are and whatever SQLite
\* rolls back.
THEOREM TransactionTypes == Spec => []TypeOK
  <1>1. Init => TypeOK
    BY InitInvariant DEF IInv
  <1> QED
    BY <1>1, TypesKept, PTL DEF Spec

\* The statements of a save run in the transaction that it has begun itself,
\* although BEGIN comes before the lock and ROLLBACK after it; SQLite may roll
\* back by itself, if no other save begins before the one that it has rolled
\* back is gone.
THEOREM OwnTransactions == Spec /\ [][~Intruder]_vars => []OwnTransaction
  <1>1. IInv => OwnTransaction
    BY DEF IInv, OwnTransaction, Owners, Active
  <1> QED
    BY <1>1, Invariant, PTL

\* Of any save, MAIN.DB has all three rows or none, whatever the other saves
\* do, whenever the process dies, and also when SQLite rolls back by itself, if
\* no other save begins between that and the end of the save rolled back.
THEOREM WholeSaves == Spec /\ [][~Intruder]_vars => []AllOrNothing
  <1>1. IInv => AllOrNothing
    <2> SUFFICES ASSUME IInv, NEW t \in Saves
                 PROVE  {r \in db : r[1] = t} \in {{}, {t} \X Rows}
      BY DEF AllOrNothing
    <2>1. db \subseteq Saves \X Rows
      BY DEF IInv, TypeOK
    <2>2. CASE Stored(t)
      BY <2>1, <2>2 DEF Stored
    <2>3. CASE Absent(t)
      BY <2>1, <2>3 DEF Absent
    <2>4. Stored(t) \/ Absent(t)
      BY DEF IInv, TypeOK, Told
    <2> QED
      BY <2>2, <2>3, <2>4
  <1> QED
    BY <1>1, Invariant, PTL

\* A commit() that returned has reached the disk, one that threw has not, also
\* after the lock is given back and when SQLite has rolled back by itself.
THEOREM OutcomesTold == Spec /\ [][~Intruder]_vars => []OutcomeTold
  <1>1. IInv => OutcomeTold
    <2> SUFFICES ASSUME IInv, NEW t \in Saves, pc[t] = "unlocked"
                 PROVE  ok[t] <=> {t} \X Rows \subseteq db
      BY DEF OutcomeTold
    <2>1. {t} \X Rows \subseteq db <=> Stored(t)
      BY DEF Stored
    <2>2. Absent(t) => ~Stored(t)
      BY DEF Absent, Stored, Rows
    <2>3. IF ok[t] THEN Stored(t) ELSE Absent(t)
      BY DEF IInv, Told
    <2> QED
      BY <2>1, <2>2, <2>3
  <1> QED
    BY <1>1, Invariant, PTL

\* SQLite's own rollback is the only way to a ROLLBACK that fails and with it
\* to std::terminate: a process that terminates has met one.  (The run
\* AutoRollback shows that it may.)
THEOREM NobodyTerminates == Spec /\ [][~RolledBackByItself]_vars => []NeverTerminates
  <1>1. Unorphaned => NeverTerminates
    BY DEF Unorphaned, NeverTerminates
  <1> QED
    BY <1>1, NoIntruders, PTL

-----------------------------------------------------------------------------
(* The refinement.                                                         *)

savedSet == {t \in Saves : {t} \X Rows \subseteq db}

\* A save is there when its three rows are
LEMMA SavedRows ==
  ASSUME NEW t \in Saves
  PROVE  /\ t \in savedSet <=> Stored(t)
         /\ t \in savedSet' <=> Stored(t)'
         /\ Absent(t) => ~Stored(t)
  BY DEF savedSet, Stored, Absent, Rows

\* Every step of the threads is one of the serial saves, or is not seen there
LEMMA SerialStep ==
  ASSUME IInv, [Next]_vars, [~Intruder]_vars
  PROVE  [Serial!Next]_Serial!vars
  <1> DEFINE Quiet == UNCHANGED <<txn, db>>
  <1>1. Quiet => UNCHANGED Serial!vars
    BY DEF Serial!vars
  <1>2. ASSUME NEW t \in Saves, Begin(t) PROVE Quiet \/ Serial!Begin(t)
    <2>1. pc[t] = "new" /\ UNCHANGED db
      BY <1>2 DEF Begin
    <2>2. t \notin savedSet
      BY <2>1, SavedRows DEF IInv, Told
    <2> QED
      BY <1>2, <2>1, <2>2 DEF Begin, Serial!Begin, savedSet
  <1>3. ASSUME NEW t \in Saves, Statement(t) PROVE Quiet
    <2>1. txn # None
      BY <1>3, SavesAssumption DEF IInv, Statement, RowOf, Owners, Active
    <2> QED
      BY <1>3, <2>1 DEF Statement, Insert
  <1>4. ASSUME NEW t \in Saves, Commit(t) PROVE Serial!Commit
    <2>1. txn = t /\ txn # None /\ txn' = None
      BY <1>4, CommitStores, SavesAssumption DEF Commit
    <2>2. t \in savedSet'
      BY <1>4, CommitStores, SavedRows
    <2>3. ASSUME NEW u \in Saves, u # t PROVE u \in savedSet' <=> u \in savedSet
      <3>1. Stored(u) \/ Absent(u)
        BY DEF IInv, TypeOK, Told
      <3>2. Absent(u)' => ~Stored(u)'
        BY DEF Absent, Stored, Rows
      <3> QED
        BY <1>4, <2>3, <3>1, <3>2, CommitStores, SavedRows
    <2>4. savedSet' = savedSet \cup {t}
      <3>1. savedSet \subseteq Saves /\ savedSet' \subseteq Saves
        BY DEF savedSet
      <3> QED
        BY <2>2, <2>3, <3>1
    <2> QED
      BY <2>1, <2>4 DEF Serial!Commit, savedSet
  <1>5. ASSUME NEW t \in Saves, StatementError(t) \/ CommitError(t) PROVE Quiet \/ Serial!Abort
    BY <1>5 DEF StatementError, CommitError, FailedStatement, Serial!Abort
  <1>6. ASSUME NEW t \in Saves, EndTransaction(t) PROVE Quiet \/ Serial!Abort
    BY <1>6 DEF EndTransaction, Serial!Abort
  <1>7. ASSUME Crash PROVE Quiet \/ Serial!Abort
    BY <1>7 DEF Crash, Serial!Abort
  <1>8. ASSUME NEW t \in Saves, Lock(t) \/ Throw(t) \/ Unlock(t) PROVE Quiet
    BY <1>8 DEF Lock, Throw, Unlock
  <1>9. CASE UNCHANGED vars
    BY <1>1, <1>9 DEF vars
  <1> QED
    BY <1>1, <1>2, <1>3, <1>4, <1>5, <1>6, <1>7, <1>8, <1>9
    DEF Next, Steps, Serial!Next

\* Saves are serial: BEGIN before the lock, ROLLBACK after it and one
\* connection for all threads notwithstanding, no COMMIT completes another
\* save than the one whose BEGIN opened the transaction.  SQLite's own rollback
\* is one more way to abort a save, as long as nobody intrudes after it.
THEOREM SerialRefinement == Spec /\ [][~Intruder]_vars => SavesSerial
  <1>1. Init => Serial!Init
    <2> SUFFICES ASSUME Init PROVE Serial!Init
      OBVIOUS
    <2>1. \A t \in Saves : ~Stored(t)
      BY DEF Init, Stored, Rows
    <2>2. savedSet = {}
      BY <2>1, SavedRows DEF savedSet
    <2> QED
      BY <2>2 DEF Init, Serial!Init, savedSet
  <1>2. IInv /\ [Next]_vars /\ [~Intruder]_vars => [Serial!Next]_Serial!vars
    BY SerialStep
  <1> QED
    BY <1>1, <1>2, Invariant, PTL DEF Spec, SavesSerial, Serial!Spec

-----------------------------------------------------------------------------
(* Queries: the inductive invariant.  It says what a user who has seen no  *)
(* exception may rely on, and what is in the cache after any number of     *)
(* them.                                                                   *)

\* A statement that has only been run is ready to be bound
ReadyWhenClean == use = "clean" => stmt \in {"none", "ready"}

\* Without an exception the cache is empty or filled
CacheWhole == use # "thrown" => colnames = {} \/ colnames = Columns[sql]

QueryInv == ReadyWhenClean /\ CacheWhole /\ NamesOfStatement

LEMMA QueryInitInvariant == QueryInit => QueryInv
  BY DEF QueryInit, QueryInv, ReadyWhenClean, CacheWhole, NamesOfStatement

\* setup, setupError, reset and what is refused without a statement
LEMMA SetupKeeps ==
  ASSUME QueryInv, (\E q \in Queries : setup(q)) \/ setupError \/ reset \/ noStatement
  PROVE  QueryInv'
  <1> USE DEF QueryInv, ReadyWhenClean, CacheWhole, NamesOfStatement, Throws, Finishes
  <1>1. ASSUME NEW q \in Queries, setup(q) PROVE QueryInv'
    BY <1>1 DEF setup
  <1>2. ASSUME setupError PROVE QueryInv'
    BY <1>2 DEF setupError
  <1>3. ASSUME reset PROVE QueryInv'
    BY <1>3 DEF reset, Become, Now, ResetTo
  <1>4. ASSUME noStatement PROVE QueryInv'
    BY <1>4 DEF noStatement, execution
  <1> QED
    BY <1>1, <1>2, <1>3, <1>4

\* bind, step and reading
LEMMA StepKeeps ==
  ASSUME QueryInv,
         (\E x \in Params : bind(x)) \/ step \/ stepError
           \/ (\E name \in UNION {Columns[q] : q \in Queries} : get(name))
  PROVE  QueryInv'
  <1> USE DEF QueryInv, ReadyWhenClean, CacheWhole, NamesOfStatement, Throws, Returns, Become, Now
  <1>1. ASSUME NEW x \in Params, bind(x) PROVE QueryInv'
    BY <1>1 DEF bind, Bound
  <1>2. ASSUME step PROVE QueryInv'
    <2>1. stmt # "none" /\ UNCHANGED <<sql, colnames>> /\ use' \in {"stepped", "thrown"}
      BY <1>2 DEF step
    <2>2. use' = "thrown" <=> use = "thrown"
      BY <1>2 DEF step
    <2> QED
      BY <2>1, <2>2
  <1>3. ASSUME stepError PROVE QueryInv'
    <2>1. stmt # "none" /\ use' = "thrown" /\ sql' = sql /\ colnames' \subseteq colnames \cup {"#"}
      BY <1>3 DEF stepError
    <2> QED
      BY <2>1
  <1>4. ASSUME NEW name, get(name) PROVE QueryInv'
    BY <1>4 DEF get, execution
  <1> QED
    BY <1>1, <1>2, <1>3, <1>4

\* run and run_one leave the statement ready, or they throw
LEMMA RunOneKeeps ==
  ASSUME QueryInv, NEW e, NEW asked, stmt # "none", RunOne(e, asked), sql' = sql
  PROVE  QueryInv'
  <1>1. \/ use' = "thrown" /\ colnames' \subseteq colnames \cup {"#"}
        \/ use' = "clean" /\ colnames' = {} /\ stmt' = "ready"
    <2> DEFINE second == Stepped(Stepped(e))
    <2>1. CASE Stepped(e).stmt # "row"
      BY <2>1 DEF RunOne, Throws
    <2>2. CASE Stepped(e).stmt = "row" /\ second.stmt = "row"
      BY <2>2 DEF RunOne, Throws
    <2>3. CASE Stepped(e).stmt = "row" /\ second.stmt # "row"
      <3>1. Become(ResetTo(second)) /\ use' = "clean" /\ colnames' = {}
        BY <2>3 DEF RunOne, Finishes
      <3>2. ResetTo(second).stmt = "ready"
        BY DEF ResetTo, Stepped, Started
      <3> QED
        BY <3>1, <3>2 DEF Become
    <2> QED
      BY <2>1, <2>2, <2>3
  <1> QED
    BY <1>1 DEF QueryInv, ReadyWhenClean, CacheWhole, NamesOfStatement

LEMMA RunKeeps ==
  ASSUME QueryInv, run
  PROVE  QueryInv'
  <1>1. \/ use' = "thrown" /\ colnames' = colnames
        \/ use' = "clean" /\ colnames' = {} /\ stmt' = "ready"
    <2>1. ResetTo(Stepped(Now)).stmt = "ready"
      BY DEF ResetTo, Stepped, Started, Now
    <2> QED
      BY <2>1 DEF run, Throws, Finishes, Become
  <1>2. sql' = sql /\ stmt # "none"
    BY DEF run
  <1> QED
    BY <1>1, <1>2 DEF QueryInv, ReadyWhenClean, CacheWhole, NamesOfStatement

LEMMA QueryNextInvariant ==
  ASSUME QueryInv, [QueryNext]_queryvars
  PROVE  QueryInv'
  <1>1. CASE UNCHANGED queryvars
    BY <1>1 DEF QueryInv, ReadyWhenClean, CacheWhole, NamesOfStatement, queryvars, execution
  <1>2. ASSUME run_one \/ (\E x \in Params : run_one_inline(x)) PROVE QueryInv'
    BY <1>2, RunOneKeeps DEF run_one, run_one_inline
  <1> QED
    BY <1>1, <1>2, SetupKeeps, StepKeeps, RunKeeps DEF QueryNext

LEMMA QueryInvariant == QuerySpec => []QueryInv
  BY QueryInitInvariant, QueryNextInvariant, PTL DEF QuerySpec

-----------------------------------------------------------------------------
(* The properties that the runs check.                                     *)

\* Whatever was set up, run and thrown before, the cache has no name of another
\* statement than the one that will be stepped.
THEOREM NamesAlwaysOfStatement == QuerySpec => []NamesOfStatement
  <1>1. QueryInv => NamesOfStatement
    BY DEF QueryInv
  <1> QED
    BY <1>1, QueryInvariant, PTL

LEMMA ResultFields ==
  /\ Ok.k = "ok"
  /\ \A e : Error(e).k = "error"
  /\ \A n : NoColumn(n).k = "invalid column name" /\ NoColumn(n).name = n
  /\ \A a, f : Value(a, f).k = "value" /\ Value(a, f).asked = a /\ Value(a, f).from = f
  BY DEF Ok, Error, NoColumn, Value

LEMMA RunOneResult ==
  ASSUME NEW e, NEW asked, RunOne(e, asked)
  PROVE  \/ result' = Error("no data returned") \/ result' = Error("too many data returned")
         \/ result' = Value(asked, Stepped(e).source)
  BY DEF RunOne, Throws, Finishes

\* Only run_one delivers values, and a value of a statement that is ready is
\* the one of the parameter that was bound to it.
LEMMA OwnValue ==
  ASSUME QueryInv, [QueryNext]_queryvars, use = "clean"
  PROVE  (result'.k = "value" => result'.from = result'.asked) \/ UNCHANGED queryvars
  <1>1. ASSUME NEW e, NEW asked, RunOne(e, asked), e.stmt = "ready", e.bound = asked
        PROVE  result'.k = "value" => result'.from = result'.asked
    <2>1. e.stmt # "row" => Started(e).source = e.bound
      BY DEF Started
    <2>2. Stepped(e).source = asked
      BY <1>1, <2>1 DEF Stepped
    <2>3. CASE result' = Value(asked, Stepped(e).source)
      <3>1. result' = Value(asked, asked)
        BY <2>2, <2>3
      <3>2. result'.from = asked /\ result'.asked = asked
        BY <3>1, ResultFields, Zenon
      <3> QED
        BY <3>2
    <2>4. CASE result' = Error("no data returned") \/ result' = Error("too many data returned")
      BY <2>4, ResultFields
    <2> QED
      BY <1>1, <2>3, <2>4, RunOneResult
  <1>2. ASSUME run_one \/ (\E x \in Params : run_one_inline(x))
        PROVE  result'.k = "value" => result'.from = result'.asked
    <2>1. stmt = "ready"
      BY <1>2 DEF QueryInv, ReadyWhenClean, run_one, run_one_inline
    <2>2. Now.stmt = "ready" /\ Now.bound = bound
      BY <2>1 DEF Now
    <2>3. \A x : Bound(Now, x).stmt = "ready" /\ Bound(Now, x).bound = x
      BY <2>2 DEF Bound, Now
    <2> QED
      BY <1>1, <1>2, <2>2, <2>3 DEF run_one, run_one_inline
  <1>3. ASSUME (\E q \in Queries : setup(q)) \/ setupError \/ reset \/ noStatement
               \/ (\E x \in Params : bind(x)) \/ step \/ stepError \/ run
               \/ (\E name \in UNION {Columns[q] : q \in Queries} : get(name))
        PROVE  result'.k # "value"
    BY <1>3, ResultFields
    DEF setup, setupError, reset, noStatement, bind, step, stepError, run, get,
        Throws, Returns, Finishes
  <1> QED
    BY <1>2, <1>3 DEF QueryNext

\* run_one_inline, whose bind is not looked at, answers for the name it was
\* given on every statement that was set up or reset and only run since.
THEOREM AnswersForName == QuerySpec => OwnAnswer
  <1>1. QueryInv /\ [QueryNext]_queryvars
          => [use = "clean" /\ result'.k = "value" => result'.from = result'.asked]_queryvars
    BY OwnValue
  <1> QED
    BY <1>1, QueryInvariant, PTL DEF QuerySpec, OwnAnswer

\* A column is reported missing only if the statement does not have it, as long
\* as there was no exception.
LEMMA MissingColumn ==
  ASSUME QueryInv, QueryNext, stmt # "none", use # "thrown",
         result'.k = "invalid column name"
  PROVE  result'.name \notin Columns[sql]
  <1>1. ASSUME NEW name, get(name) PROVE result'.name \notin Columns[sql]
    <2>1. (IF colnames = {} /\ stmt # "none" THEN Columns[sql] ELSE colnames) = Columns[sql]
      BY DEF QueryInv, CacheWhole
    <2> QED
      BY <1>1, <2>1, ResultFields DEF get, Returns, Throws
  <1>2. ASSUME NEW e, NEW asked, RunOne(e, asked) PROVE result'.k # "invalid column name"
    <2>1. CASE result' = Value(asked, Stepped(e).source)
      BY <2>1, ResultFields
    <2>2. CASE result' = Error("no data returned") \/ result' = Error("too many data returned")
      BY <2>2, ResultFields
    <2> QED
      BY <1>2, <2>1, <2>2, RunOneResult
  <1>3. ~(run_one \/ (\E x \in Params : run_one_inline(x)))
    BY <1>2 DEF run_one, run_one_inline
  <1>4. ~((\E q \in Queries : setup(q)) \/ setupError \/ reset \/ noStatement
               \/ (\E x \in Params : bind(x)) \/ step \/ stepError \/ run)
    BY ResultFields
    DEF setup, setupError, reset, noStatement, bind, step, stepError, run,
        Throws, Returns, Finishes
  <1> QED
    BY <1>1, <1>3, <1>4 DEF QueryNext

\* The "#" that run_one leaves in the cache never keeps a column from being
\* found, as long as there was no exception.
THEOREM ColumnsAlwaysFound == QuerySpec => ColumnsFound
  <1>1. QueryInv /\ [QueryNext]_queryvars
          => [stmt # "none" /\ use # "thrown" /\ result'.k = "invalid column name"
                => result'.name \notin Columns[sql]]_queryvars
    BY MissingColumn
  <1> QED
    BY <1>1, QueryInvariant, PTL DEF QuerySpec, ColumnsFound

-----------------------------------------------------------------------------
(* Both together.                                                          *)

\* The connection's saves and somebody's db_query, one after the other as the
\* run Database has them, are each what they are alone.
THEOREM DatabaseParts == DatabaseSpec => Spec /\ QuerySpec
  <1>1. DatabaseInit => Init /\ QueryInit
    BY DEF DatabaseInit
  <1>2. [DatabaseNext]_<<vars, queryvars>> => [Next]_vars /\ [QueryNext]_queryvars
    BY DEF DatabaseNext
  <1> QED
    BY <1>1, <1>2, PTL DEF DatabaseSpec, Spec, QuerySpec

\* A statement that fails without SQLite rolling back: the runs' AutoRollback
\* is FALSE
LEMMA NeverByItself ==
  ASSUME AutoRollback = FALSE
  PROVE  ~RolledBackByItself
  BY DEF RolledBackByItself, StatementError, CommitError, FailedStatement

\* So everything of safety that the run Database checks holds of its own
\* specification, for any number of saves and any statements, as long as SQLite
\* does not roll back by itself; and all but NeverTerminates also if it does,
\* if no other save begins before the one rolled back is gone.
THEOREM DatabaseSafe ==
  /\ DatabaseSpec => [](TypeOK /\ NamesOfStatement) /\ OwnAnswer /\ ColumnsFound
  /\ DatabaseSpec /\ [][~Intruder]_vars
       => [](AllOrNothing /\ OwnTransaction /\ OutcomeTold) /\ SavesSerial
  /\ AutoRollback = FALSE /\ DatabaseSpec
       => [](AllOrNothing /\ OwnTransaction /\ OutcomeTold /\ NeverTerminates) /\ SavesSerial
  <1>1. DatabaseSpec => [](TypeOK /\ NamesOfStatement) /\ OwnAnswer /\ ColumnsFound
    BY DatabaseParts, TransactionTypes, NamesAlwaysOfStatement, AnswersForName,
       ColumnsAlwaysFound, PTL
  <1>2. DatabaseSpec /\ [][~Intruder]_vars
          => [](AllOrNothing /\ OwnTransaction /\ OutcomeTold) /\ SavesSerial
    BY DatabaseParts, WholeSaves, OwnTransactions, OutcomesTold, SerialRefinement, PTL
  <1>3. ASSUME AutoRollback = FALSE
        PROVE  DatabaseSpec
          => [](AllOrNothing /\ OwnTransaction /\ OutcomeTold /\ NeverTerminates) /\ SavesSerial
    <2>1. [~RolledBackByItself]_vars
      BY <1>3, NeverByItself
    <2>2. [][~RolledBackByItself]_vars
      BY <2>1, PTL
    <2> QED
      BY <1>2, <2>2, DatabaseParts, NoIntruders, NobodyTerminates, PTL
  <1> QED
    BY <1>1, <1>2, <1>3
=============================================================================
