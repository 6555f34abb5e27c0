----------------------------- MODULE Repository -----------------------------
(***************************************************************************)
(* How a repository comes into being: the SVS constructor of               *)
(* svslib/svslib.cpp, called by several processes for the same paths.      *)
(*                                                                         *)
(* The constructor looks for MAIN.DB, opens it (which creates it), looks   *)
(* for MAIN.DAT, and then creates or opens.  A creation is one database    *)
(* transaction for the tables, CREATE_NEW and the magic number for         *)
(* MAIN.DAT, and one INSERT in a transaction of its own for each row of    *)
(* config.  Nothing ties these together: between any two of them the       *)
(* process may die, a call may fail, or another constructor may run.       *)
(*                                                                         *)
(* SQLite is modelled by its file locks: a statement that reads the schema *)
(* or a table holds a SHARED lock, the creating transaction a RESERVED     *)
(* one, and who wants to write to the file while another reads gets        *)
(* SQLITE_BUSY (no busy handler is installed).  Windows is modelled by the *)
(* sharing modes of CreateFileW.                                           *)
(***************************************************************************)
EXTENDS Integers, Sequences, FiniteSets, SequencesExt

CONSTANTS
  Procs,            \* the processes, each with one thread and one SVS object
  Calls,            \* the arguments a constructor may be called with
  None,
  MayFail,          \* any call of the operating system or SQLite may fail
  MayDie,           \* a process may die inside the constructor
  PowerMayFail      \* the power may fail; the magic is never flushed

VARIABLES
  db,               \* MAIN.DB: "absent", "empty" (0 bytes) or "tables"
  config,           \* MAIN.DB: names of the rows of config
  dat,              \* MAIN.DAT: "absent", "empty", "magic", or "lost": empty
                    \* again after a power failure
  local,            \* LOCAL.DB exists
  reading, reserved,   \* SQLite's locks on MAIN.DB: SHARED, RESERVED
  pc, call,         \* where each process stands; its arguments
  dbexist,          \* what it has found out about MAIN.DB
  hdata,            \* the handle of its SVS object: "none", "R" or "W"
  leaked            \* handles of objects whose constructor has thrown

files   == <<db, config, dat, local>>
locks   == <<reading, reserved>>
procs   == <<pc, call, dbexist, hdata, leaked>>
vars    == <<files, locks, procs>>

ASSUME CallsAssumption ==
  /\ Calls \subseteq [readonly : BOOLEAN, diskchck : BOOLEAN,
                      datafile : BOOLEAN, localfile : BOOLEAN]
  /\ Calls # {}
  /\ None \notin Procs
  /\ {MayFail, MayDie, PowerMayFail} \subseteq BOOLEAN

\* The rows of config, in the order in which they are inserted
ConfigRows ==
  <<"filesize", "codepage", "author", "time", "zlib", "embed_s", "delta_prob",
    "delta_coef", "archive", "local", "local_inline", "raw_content", "warning">>

Init ==
  /\ db = "absent" /\ config = {} /\ dat = "absent" /\ local = FALSE
  /\ reading = {} /\ reserved = None
  /\ pc = [p \in Procs |-> "idle"]
  /\ call = [p \in Procs |-> CHOOSE c \in Calls : TRUE]
  /\ dbexist = [p \in Procs |-> FALSE]
  /\ hdata = [p \in Procs |-> "none"] /\ leaked = [p \in Procs |-> {}]

Goto(p, l) == pc' = [pc EXCEPT ![p] = l]

-----------------------------------------------------------------------------
(* Handles and locks.                                                      *)

Handles == UNION {leaked[p] \cup ({hdata[p]} \ {"none"}) : p \in Procs}

\* Every handle is opened with FILE_SHARE_READ: readers tolerate readers
ShareAllows(mode) == IF mode = "W" THEN Handles = {} ELSE "W" \notin Handles

Mode(p) == IF call[p].readonly THEN "R" ELSE "W"

\* SQLITE_BUSY for a statement of p that writes to the database file
Busy(p) == reading \ {p} # {} \/ reserved \notin {p, None}

\* An exception leaves the constructor.  The transaction and the connection
\* are given up by destructors; ~SVS does not run, so nobody closes hdata.
Unwind(p) ==
  /\ Goto(p, "thrown")
  /\ reading' = reading \ {p}
  /\ reserved' = IF reserved = p THEN None ELSE reserved
  /\ hdata' = [hdata EXCEPT ![p] = "none"]
  /\ leaked' = [leaked EXCEPT ![p] = @ \cup ({hdata[p]} \ {"none"})]
  /\ UNCHANGED <<call, dbexist>>

\* Mutant: a constructor that fails removes what it believes it has created
ThrowCleaning(p) ==
  /\ Unwind(p)
  /\ dat' = IF dbexist[p] THEN dat ELSE "absent"
  /\ UNCHANGED <<db, config, local>>

Throw(p) == Unwind(p) /\ UNCHANGED files

-----------------------------------------------------------------------------
(* SVS::SVS, up to the decision between creating and opening.              *)

CheckDb(p) ==
  /\ pc[p] \in {"idle", "thrown"}
  /\ call' \in {[call EXCEPT ![p] = c] : c \in Calls}
  /\ dbexist' = [dbexist EXCEPT ![p] = db # "absent"]
  /\ Goto(p, "checked")
  /\ UNCHANGED <<files, locks, hdata, leaked>>

\* sqlite3_open16 creates the file
OpenDb(p) ==
  /\ pc[p] = "checked"
  /\ db' = IF db = "absent" THEN "empty" ELSE db
  /\ Goto(p, "opened")
  /\ UNCHANGED <<config, dat, local, locks, call, dbexist, hdata, leaked>>

\* "Both database and data file must exist or be created"
Mismatch(p) == call[p].datafile /\ dbexist[p] # (dat # "absent")

CheckDat(p) ==
  /\ pc[p] = "opened"
  /\ \/ Mismatch(p) /\ Throw(p)
     \/ /\ ~Mismatch(p)
        /\ Goto(p, IF ~dbexist[p] THEN "create"
                   ELSE IF call[p].datafile THEN "open" ELSE "attach")
        /\ UNCHANGED <<files, locks, call, dbexist, hdata, leaked>>

-----------------------------------------------------------------------------
(* A new repository.                                                       *)

\* BEGIN, and CREATE TABLE begins by reading the schema
ReadSchema(p) ==
  /\ pc[p] = "create"
  /\ reading' = reading \cup {p}
  /\ Goto(p, "schema")
  /\ UNCHANGED <<files, reserved, call, dbexist, hdata, leaked>>

\* Mutant: CREATE TABLE IF NOT EXISTS
CreateIfNotExists(p) ==
  /\ pc[p] = "schema"
  /\ \/ reserved # None /\ Throw(p)
     \/ /\ reserved = None
        /\ reading' = reading \ {p} /\ reserved' = p
        /\ Goto(p, "tables")
        /\ UNCHANGED <<files, call, dbexist, hdata, leaked>>

\* "table config already exists", or another transaction is creating it
CreateTables(p) ==
  /\ pc[p] = "schema"
  /\ \/ (db = "tables" \/ reserved # None) /\ Throw(p)
     \/ /\ db # "tables" /\ reserved = None
        /\ reading' = reading \ {p} /\ reserved' = p
        /\ Goto(p, "tables")
        /\ UNCHANGED <<files, call, dbexist, hdata, leaked>>

CommitTables(p) ==
  /\ pc[p] = "tables"
  /\ \/ Busy(p) /\ Throw(p)
     \/ /\ ~Busy(p)
        /\ db' = "tables" /\ reserved' = None
        /\ Goto(p, IF call[p].datafile THEN "newdat" ELSE "row1")
        /\ UNCHANGED <<config, dat, local, reading, call, dbexist, hdata, leaked>>

\* CreateFileW with CREATE_NEW
CreateDat(p) ==
  /\ pc[p] = "newdat"
  /\ \/ dat # "absent" /\ Throw(p)
     \/ /\ dat = "absent" /\ dat' = "empty"
        /\ hdata' = [hdata EXCEPT ![p] = Mode(p)]
        /\ Goto(p, "magic")
        /\ UNCHANGED <<db, config, local, locks, call, dbexist, leaked>>

\* Mutant: the result of WriteFile is not looked at
WriteMagicUnchecked(p) ==
  /\ pc[p] = "magic"
  /\ dat' = IF hdata[p] = "R" THEN dat ELSE "magic"
  /\ Goto(p, "row1")
  /\ UNCHANGED <<db, config, local, locks, call, dbexist, hdata, leaked>>

\* WriteFile needs a handle that may write: not the one of a reader
WriteMagic(p) ==
  /\ pc[p] = "magic"
  /\ \/ hdata[p] = "R" /\ Throw(p)
     \/ /\ hdata[p] = "W" /\ dat' = "magic"
        /\ Goto(p, "row1")
        /\ UNCHANGED <<db, config, local, locks, call, dbexist, hdata, leaked>>

RowPc == <<"row1", "row2", "row3", "row4", "row5", "row6", "row7", "row8",
           "row9", "row10", "row11", "row12", "row13", "attach">>

\* One INSERT, committed at once; name is the primary key
InsertRow(p, i) ==
  /\ pc[p] = RowPc[i]
  /\ \/ (Busy(p) \/ ConfigRows[i] \in config) /\ Throw(p)
     \/ /\ ~Busy(p) /\ ConfigRows[i] \notin config
        /\ config' = config \cup {ConfigRows[i]}
        /\ Goto(p, RowPc[i + 1])
        /\ UNCHANGED <<db, dat, local, locks, call, dbexist, hdata, leaked>>

-----------------------------------------------------------------------------
(* An existing repository.                                                 *)

\* CreateFileW with OPEN_EXISTING
OpenDat(p) ==
  /\ pc[p] = "open"
  /\ \/ (dat = "absent" \/ ~ShareAllows(Mode(p))) /\ Throw(p)
     \/ /\ dat # "absent" /\ ShareAllows(Mode(p))
        /\ hdata' = [hdata EXCEPT ![p] = Mode(p)]
        /\ Goto(p, "select")
        /\ UNCHANGED <<files, locks, call, dbexist, leaked>>

Select(p) ==
  /\ pc[p] = "select"
  /\ reading' = reading \cup {p}
  /\ Goto(p, "sizes")
  /\ UNCHANGED <<files, reserved, call, dbexist, hdata, leaked>>

\* Mutant: only a MAIN.DAT that is too long is turned away
AcceptedWhenShort(p) == db = "tables" /\ "filesize" \in config

\* Without tables or the row the queries throw.  'filesize' is 4, the size of
\* the magic: a repository created without MAIN.DAT, where it is 0, never gets
\* here.  A checked opening and a reader only print a mismatch.
Accepted(p) ==
  /\ db = "tables" /\ "filesize" \in config
  /\ dat = "magic" \/ call[p].diskchck \/ call[p].readonly

CompareSizes(p) ==
  /\ pc[p] = "sizes"
  /\ \/ ~Accepted(p) /\ Throw(p)
     \/ /\ Accepted(p)
        /\ reading' = reading \ {p}
        /\ Goto(p, "attach")
        /\ UNCHANGED <<files, reserved, call, dbexist, hdata, leaked>>

-----------------------------------------------------------------------------
(* LOCAL.DB, and the end of the constructor and of the object.             *)

\* ATTACH reads the schema of MAIN.DB, too, if no query has done so before
ReadsMain(p) == call[p].localfile /\ ~call[p].datafile /\ dbexist[p]

AttachReads(p) ==
  /\ pc[p] = "attach" /\ ReadsMain(p)
  /\ reading' = reading \cup {p}
  /\ Goto(p, "attaching")
  /\ UNCHANGED <<files, reserved, call, dbexist, hdata, leaked>>

\* ATTACH creates LOCAL.DB; a new one is "NOT IMPLEMENTED", but it is there
\* from now on
Attach(p) ==
  /\ pc[p] = IF ReadsMain(p) THEN "attaching" ELSE "attach"
  /\ local' = (local \/ call[p].localfile)
  /\ \/ call[p].localfile /\ ~local /\ Unwind(p)
     \/ /\ call[p].localfile => local
        /\ reading' = reading \ {p}
        /\ Goto(p, "returned")
        /\ UNCHANGED <<reserved, call, dbexist, hdata, leaked>>
  /\ UNCHANGED <<db, config, dat>>

\* ~SVS
Destroy(p) ==
  /\ pc[p] = "returned"
  /\ hdata' = [hdata EXCEPT ![p] = "none"]
  /\ Goto(p, "idle")
  /\ UNCHANGED <<files, locks, call, dbexist, leaked>>

Constructing(p) == pc[p] \notin {"idle", "thrown", "returned"}

\* A call of the operating system or of SQLite fails for reasons of its own
Fail(p) == MayFail /\ Constructing(p) /\ Throw(p)

\* The process ends, and with it its handles and locks
Exit(p) ==
  /\ pc[p] # "idle" \/ leaked[p] # {}
  /\ Constructing(p) => MayDie
  /\ reading' = reading \ {p}
  /\ reserved' = IF reserved = p THEN None ELSE reserved
  /\ Goto(p, "idle")
  /\ hdata' = [hdata EXCEPT ![p] = "none"] /\ leaked' = [leaked EXCEPT ![p] = {}]
  /\ UNCHANGED <<files, call, dbexist>>

\* SQLite has flushed what it has committed; MAIN.DAT, which was not, loses its
\* content or is not there at all
PowerFailure ==
  /\ PowerMayFail /\ dat # "absent"
  /\ dat' \in {"absent", IF dat = "magic" THEN "lost" ELSE dat}
  /\ reading' = {} /\ reserved' = None
  /\ pc' = [p \in Procs |-> "idle"]
  /\ hdata' = [p \in Procs |-> "none"] /\ leaked' = [p \in Procs |-> {}]
  /\ UNCHANGED <<db, config, local, call, dbexist>>

Construct(p) ==
  \/ CheckDb(p) \/ OpenDb(p) \/ CheckDat(p)
  \/ ReadSchema(p) \/ CreateTables(p) \/ CommitTables(p)
  \/ CreateDat(p) \/ WriteMagic(p)
  \/ \E i \in 1 .. Len(ConfigRows) : InsertRow(p, i)
  \/ OpenDat(p) \/ Select(p) \/ CompareSizes(p) \/ AttachReads(p) \/ Attach(p)

Next ==
  \/ \E p \in Procs : Construct(p) \/ Fail(p) \/ Destroy(p) \/ Exit(p)
  \/ PowerFailure

Spec == Init /\ [][Next]_vars

-----------------------------------------------------------------------------
(* Properties.                                                             *)

CreatingPcs == {"tables", "newdat", "magic"} \cup (ToSet(RowPc) \ {"attach"})

\* The types of the state; a handle on MAIN.DAT means that there is one, and
\* only the creating transaction holds SQLite's RESERVED lock.
TypeOK ==
  /\ db \in {"absent", "empty", "tables"} /\ dat \in {"absent", "empty", "magic", "lost"}
  /\ config \subseteq ToSet(ConfigRows) /\ local \in BOOLEAN
  /\ reading \subseteq Procs /\ reserved \in Procs \cup {None}
  /\ pc \in [Procs -> {"idle", "checked", "opened", "create", "schema", "open",
                       "select", "sizes", "attach", "attaching", "thrown", "returned"} \cup CreatingPcs]
  /\ call \in [Procs -> Calls] /\ dbexist \in [Procs -> BOOLEAN]
  /\ hdata \in [Procs -> {"none", "R", "W"}] /\ leaked \in [Procs -> SUBSET {"R", "W"}]
  /\ Handles # {} => dat # "absent"
  /\ \A p \in Procs : (reserved = p) = (pc[p] = "tables")

\* Of all the constructors that have found no MAIN.DB - and found that out
\* before they, or others, created it - at most one goes on to create.
OneCreator == Cardinality({p \in Procs : pc[p] \in CreatingPcs}) <= 1

\* Whatever fails, dies or runs at the same time, config holds the rows of one
\* creation in their order: 'filesize' before the switches, and nothing before
\* the tables and, if there is to be one, MAIN.DAT with its magic number.
RowsInOrder ==
  /\ \E i \in 0 .. Len(ConfigRows) : config = ToSet(SubSeq(ConfigRows, 1, i))
  /\ config # {} => db = "tables" /\ dat # "empty"

Complete == db = "tables" /\ dat = "magic" /\ config = ToSet(ConfigRows)

\* A repository that is complete stays so until the power fails: a constructor
\* that found no MAIN.DB when it looked, but is late, fails without touching
\* what others have made.
CompleteStays == [][Complete => Complete' \/ PowerFailure]_vars

\* An unchecked opening that lets a writer in finds MAIN.DAT as long as
\* recorded, and as long as the writer has it nobody changes that, whatever
\* was lost in a power failure before.
WriterFitsSize ==
  \A p \in Procs : pc[p] = "returned" /\ hdata[p] = "W" /\ ~call[p].diskchck
     => "filesize" \in config /\ dat = "magic"

\* svslib.h: "If files on given paths not exist, creates this files" - all of
\* both, once every constructor that was started has returned or thrown.
CreatesFiles ==
  (\A p \in Procs : ~Constructing(p)) => Complete \/ (db = "absent" /\ dat = "absent")
=============================================================================
