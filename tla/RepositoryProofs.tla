--------------------------- MODULE RepositoryProofs ---------------------------
(***************************************************************************)
(* Any number of processes call the SVS constructor for the same paths, in *)
(* any combination of its arguments, and calls fail, processes die and the *)
(* power goes: proofs of what a creation promises all the same.            *)
(***************************************************************************)
EXTENDS Repository, SequenceTheorems, FiniteSetTheorems, TLAPS

-----------------------------------------------------------------------------
(* The inductive invariant.                                                *)

RowNo == 1 .. 13

FirstRows(i) == {ConfigRows[j] : j \in 1 .. i}

AtRow(p) == pc[p] \in CreatingPcs \ {"tables", "newdat", "magic"}

\* TypeOK, conjunct by conjunct
Typed ==
  /\ db \in {"absent", "empty", "tables"} /\ dat \in {"absent", "empty", "magic", "lost"}
  /\ config \subseteq ToSet(ConfigRows) /\ local \in BOOLEAN
  /\ reading \subseteq Procs /\ reserved \in Procs \cup {None}
  /\ pc \in [Procs -> {"idle", "checked", "opened", "create", "schema", "open",
                       "select", "sizes", "attach", "attaching", "thrown", "returned"} \cup CreatingPcs]
  /\ call \in [Procs -> Calls] /\ dbexist \in [Procs -> BOOLEAN]
  /\ hdata \in [Procs -> {"none", "R", "W"}] /\ leaked \in [Procs -> SUBSET {"R", "W"}]

OpenIsThere ==
  \A p \in Procs : hdata[p] # "none" \/ leaked[p] # {} => dat # "absent"

Reserving == \A p \in Procs : reserved = p <=> pc[p] = "tables"

\* The constructors that have begun their creating transaction
OneAtATime ==
  \A p, q \in Procs : pc[p] \in CreatingPcs /\ pc[q] \in CreatingPcs => p = q

\* The tables tell a creator that has passed CommitTables from one that has not
TablesFirst ==
  /\ \A p \in Procs : pc[p] \in CreatingPcs => (db = "tables" <=> pc[p] # "tables")
  /\ db # "tables" => config = {} /\ dat = "absent"

\* Where a creator stands says which rows there are
RowsSoFar ==
  /\ \E i \in 0 .. 13 : config = FirstRows(i)
  /\ config # {} => dat # "empty"
  /\ \A p \in Procs :
       /\ pc[p] \in {"newdat", "magic"} => config = {}
       /\ AtRow(p) => dat # "empty"
       /\ \A i \in RowNo : pc[p] = RowPc[i] => config = FirstRows(i - 1)

\* Handles, and what they allow an unchecked writer to rely on
HandlesFit ==
  \A p \in Procs :
    /\ pc[p] \in {"idle", "thrown", "checked", "opened", "create", "schema",
                  "tables", "newdat", "open"} => hdata[p] = "none"
    /\ hdata[p] = "W" => ~call[p].readonly
    /\ hdata[p] = "W" /\ AtRow(p) => dat = "magic"
    /\ hdata[p] = "W" /\ ~call[p].diskchck /\ pc[p] \in {"attach", "attaching", "returned"}
         => "filesize" \in config /\ dat = "magic"

IInv ==
  /\ Typed /\ OpenIsThere /\ Reserving
  /\ OneAtATime /\ TablesFirst /\ RowsSoFar /\ HandlesFit

-----------------------------------------------------------------------------
(* Locations and rows.                                                     *)

LEMMA RowPcs ==
  /\ RowPc[1] = "row1" /\ RowPc[14] = "attach"
  /\ \A i, j \in 1 .. 14 : RowPc[i] = RowPc[j] => i = j
  /\ Len(ConfigRows) = 13
  BY DEF RowPc, ConfigRows

LEMMA NextRow ==
  ASSUME NEW i \in RowNo, NEW j \in RowNo, RowPc[i + 1] = RowPc[j]
  PROVE  j = i + 1
  <1>1. i + 1 \in 1 .. 14 /\ j \in 1 .. 14
    BY DEF RowNo
  <1> QED
    BY <1>1, RowPcs

LEMMA Creating ==
  /\ "tables" \in CreatingPcs /\ "newdat" \in CreatingPcs /\ "magic" \in CreatingPcs
  /\ "row1" \in CreatingPcs
  /\ \A i \in RowNo : RowPc[i] \in CreatingPcs \ {"tables", "newdat", "magic"}
  /\ "idle" \notin CreatingPcs /\ "checked" \notin CreatingPcs /\ "opened" \notin CreatingPcs
  /\ "create" \notin CreatingPcs /\ "schema" \notin CreatingPcs /\ "open" \notin CreatingPcs
  /\ "select" \notin CreatingPcs /\ "sizes" \notin CreatingPcs /\ "attach" \notin CreatingPcs
  /\ "attaching" \notin CreatingPcs
  /\ "thrown" \notin CreatingPcs /\ "returned" \notin CreatingPcs
  <1>1. DOMAIN RowPc = 1 .. 14
    BY DEF RowPc
  <1>2. ToSet(RowPc) = {RowPc[i] : i \in 1 .. 14}
    BY <1>1 DEF ToSet
  <1>3. \A i \in 1 .. 14 : RowPc[i] = "attach" <=> i = 14
    BY RowPcs
  <1>4. ToSet(RowPc) \ {"attach"} = {RowPc[i] : i \in RowNo}
    BY <1>2, <1>3 DEF RowNo
  <1>5. \A i \in RowNo : RowPc[i] \notin {"tables", "newdat", "magic", "idle", "checked",
          "opened", "create", "schema", "open", "select", "sizes", "attaching", "thrown", "returned"}
    BY DEF RowNo, RowPc
  <1>6. CreatingPcs = {"tables", "newdat", "magic"} \cup {RowPc[i] : i \in RowNo}
    BY <1>4 DEF CreatingPcs
  <1>7. \A i \in RowNo : RowPc[i] # "attach"
    BY <1>3 DEF RowNo
  <1>8. 1 \in RowNo
    BY DEF RowNo
  <1> QED
    BY <1>5, <1>6, <1>7, <1>8, RowPcs

LEMMA Rows ==
  /\ FirstRows(0) = {}
  /\ FirstRows(13) = ToSet(ConfigRows)
  /\ \A i \in RowNo : FirstRows(i) = FirstRows(i - 1) \cup {ConfigRows[i]}
  /\ \A i \in 0 .. 13 : FirstRows(i) \subseteq ToSet(ConfigRows)
  /\ \A i \in 0 .. 13 : FirstRows(i) = ToSet(SubSeq(ConfigRows, 1, i))
  /\ \A i \in RowNo : "filesize" \in FirstRows(i)
  <1>1. DOMAIN ConfigRows = 1 .. 13 /\ ConfigRows[1] = "filesize"
    BY DEF ConfigRows
  <1>2. ToSet(ConfigRows) = {ConfigRows[i] : i \in 1 .. 13}
    BY <1>1 DEF ToSet
  <1>3. ASSUME NEW i \in RowNo
        PROVE  FirstRows(i) = FirstRows(i - 1) \cup {ConfigRows[i]} /\ "filesize" \in FirstRows(i)
    <2>1. 1 .. i = (1 .. i - 1) \cup {i} /\ 1 \in 1 .. i
      BY DEF RowNo
    <2> QED
      BY <1>1, <2>1 DEF FirstRows
  <1>4. ASSUME NEW i \in 0 .. 13
        PROVE  FirstRows(i) = ToSet(SubSeq(ConfigRows, 1, i))
    <2> DEFINE q == SubSeq(ConfigRows, 1, i)
    <2>1. \A j \in 1 .. i : ConfigRows[j] \in FirstRows(13)
      BY DEF FirstRows
    <2>2. /\ q \in Seq(FirstRows(13)) /\ Len(q) = i
          /\ \A j \in 1 .. i : q[j] = ConfigRows[j]
      BY <2>1, SubSeqProperties
    <2>3. DOMAIN q = 1 .. i
      BY <2>2
    <2> QED
      BY <2>2, <2>3 DEF ToSet, FirstRows
  <1>5. FirstRows(0) = {} /\ FirstRows(13) = ToSet(ConfigRows)
    BY <1>2 DEF FirstRows
  <1>6. \A i \in 0 .. 13 : 1 .. i \subseteq 1 .. 13
    OBVIOUS
  <1>7. \A i \in 0 .. 13 : FirstRows(i) \subseteq ToSet(ConfigRows)
    BY <1>2, <1>6 DEF FirstRows
  <1> QED
    BY <1>3, <1>4, <1>5, <1>7

-----------------------------------------------------------------------------
(* One lemma for each step.                                                *)

\* An exception has left the constructor
Threw(p) == Unwind(p) /\ UNCHANGED <<db, config, dat>> /\ local' \in BOOLEAN

LEMMA TypesMeanTypeOK == TypeOK <=> Typed /\ OpenIsThere /\ Reserving
  <1>1. Typed => (OpenIsThere <=> (Handles # {} => dat # "absent"))
    <2>1. ASSUME NEW p \in Procs, hdata[p] # "none" \/ leaked[p] # {}
          PROVE  Handles # {}
      BY <2>1 DEF Handles
    <2>2. ASSUME NEW h \in Handles, \A p \in Procs : hdata[p] = "none" /\ leaked[p] = {}
          PROVE  FALSE
      BY <2>2 DEF Handles
    <2> QED
      BY <2>1, <2>2 DEF OpenIsThere
  <1>2. Typed => (Reserving <=> \A p \in Procs : (reserved = p) = (pc[p] = "tables"))
    BY DEF Reserving
  <1> QED
    BY <1>1, <1>2 DEF TypeOK, Typed

LEMMA InitInvariant == Init => IInv
  <1> SUFFICES ASSUME Init PROVE IInv
    OBVIOUS
  <1>1. (CHOOSE c \in Calls : TRUE) \in Calls
    BY CallsAssumption
  <1>2. Typed /\ OpenIsThere /\ Reserving
    BY <1>1, CallsAssumption DEF Init, Typed, OpenIsThere, Reserving
  <1>3. OneAtATime /\ TablesFirst /\ HandlesFit
    BY Creating DEF Init, OneAtATime, TablesFirst, HandlesFit, AtRow
  <1>4. RowsSoFar
    BY Creating, Rows DEF Init, RowsSoFar, AtRow
  <1> QED
    BY <1>2, <1>3, <1>4 DEF IInv

\* A step of a process that is not creating, and nothing for a creator to notice
Quiet(p) ==
  /\ pc[p] \notin CreatingPcs /\ pc'[p] \notin CreatingPcs
  /\ pc' = [pc EXCEPT ![p] = pc'[p]]
  /\ UNCHANGED <<config, dat, reserved>> /\ (db' = "tables" <=> db = "tables")

LEMMA QuietInvariant ==
  ASSUME IInv, NEW p \in Procs, Quiet(p), Typed'
  PROVE  (Reserving /\ OneAtATime /\ TablesFirst /\ RowsSoFar)'
  <1> USE CallsAssumption, Creating DEF IInv, Typed, Quiet
  <1>1. Reserving'
    BY DEF Reserving
  <1>2. OneAtATime'
    BY DEF OneAtATime
  <1>3. TablesFirst'
    BY DEF TablesFirst
  <1>4. RowsSoFar'
    BY DEF RowsSoFar, AtRow
  <1> QED
    BY <1>1, <1>2, <1>3, <1>4

LEMMA CheckDbInvariant ==
  ASSUME IInv, NEW p \in Procs, CheckDb(p)
  PROVE  IInv'
  <1> USE CallsAssumption, Creating DEF IInv, Typed, CheckDb, Goto, files, locks
  <1>1. Typed' /\ Quiet(p)
    BY DEF Quiet
  <1>2. OpenIsThere'
    BY DEF OpenIsThere
  <1>3. HandlesFit'
    BY DEF HandlesFit, AtRow
  <1> QED
    BY <1>1, <1>2, <1>3, QuietInvariant

LEMMA OpenDbInvariant ==
  ASSUME IInv, NEW p \in Procs, OpenDb(p)
  PROVE  IInv'
  <1> USE CallsAssumption, Creating DEF IInv, Typed, OpenDb, Goto, files, locks
  <1>1. Typed' /\ Quiet(p)
    BY DEF Quiet
  <1>2. OpenIsThere'
    BY DEF OpenIsThere
  <1>3. HandlesFit'
    BY DEF HandlesFit, AtRow
  <1> QED
    BY <1>1, <1>2, <1>3, QuietInvariant

\* An exception, wherever it leaves the constructor
LEMMA UnwindInvariant ==
  ASSUME IInv, NEW p \in Procs, Threw(p)
  PROVE  IInv'
  <1> USE CallsAssumption, Creating DEF IInv, Threw, Unwind, Goto, Typed
  <1>1. Typed'
    OBVIOUS
  <1>2. OpenIsThere'
    BY DEF OpenIsThere
  <1>3. Reserving'
    BY DEF Reserving
  <1>4. OneAtATime'
    BY DEF OneAtATime
  <1>5. TablesFirst'
    BY DEF TablesFirst
  <1>6. RowsSoFar'
    BY DEF RowsSoFar, AtRow
  <1>7. HandlesFit'
    BY DEF HandlesFit, AtRow
  <1> QED
    BY <1>1, <1>2, <1>3, <1>4, <1>5, <1>6, <1>7

LEMMA CheckDatInvariant ==
  ASSUME IInv, NEW p \in Procs, CheckDat(p), ~Threw(p)
  PROVE  IInv'
  <1> USE CallsAssumption, Creating DEF IInv, Typed, CheckDat, Threw, Throw, Mismatch, Goto, files, locks
  <1>1. Typed' /\ Quiet(p)
    BY DEF Quiet
  <1>2. OpenIsThere'
    BY DEF OpenIsThere
  <1>3. HandlesFit'
    BY DEF HandlesFit, AtRow
  <1> QED
    BY <1>1, <1>2, <1>3, QuietInvariant

LEMMA ReadSchemaInvariant ==
  ASSUME IInv, NEW p \in Procs, ReadSchema(p), ~Threw(p)
  PROVE  IInv'
  <1> USE CallsAssumption, Creating DEF IInv, Typed, ReadSchema, Threw, Throw, Goto, files, locks
  <1>1. Typed' /\ Quiet(p)
    BY DEF Quiet
  <1>2. OpenIsThere'
    BY DEF OpenIsThere
  <1>3. HandlesFit'
    BY DEF HandlesFit, AtRow
  <1> QED
    BY <1>1, <1>2, <1>3, QuietInvariant

\* Who creates the tables is the only one: they were not there, and nobody
\* else holds the RESERVED lock
LEMMA CreateTablesInvariant ==
  ASSUME IInv, NEW p \in Procs, CreateTables(p), ~Threw(p)
  PROVE  IInv'
  <1> USE CallsAssumption, Creating DEF IInv, CreateTables, Threw, Throw, Goto, files, locks, Typed
  <1>1. Typed'
    OBVIOUS
  <1>2. OpenIsThere'
    BY DEF OpenIsThere
  <1>3. Reserving'
    BY DEF Reserving
  <1>4. OneAtATime'
    BY DEF OneAtATime, TablesFirst, Reserving
  <1>5. TablesFirst'
    BY DEF TablesFirst
  <1>6. RowsSoFar'
    BY DEF RowsSoFar, AtRow
  <1>7. HandlesFit'
    BY DEF HandlesFit, AtRow
  <1> QED
    BY <1>1, <1>2, <1>3, <1>4, <1>5, <1>6, <1>7

LEMMA CommitTablesInvariant ==
  ASSUME IInv, NEW p \in Procs, CommitTables(p), ~Threw(p)
  PROVE  IInv'
  <1> USE CallsAssumption, Creating DEF IInv, CommitTables, Threw, Throw, Goto, files, locks, Typed
  <1>1. Typed'
    OBVIOUS
  <1>2. OpenIsThere'
    BY DEF OpenIsThere
  <1>3. Reserving'
    BY DEF Reserving
  <1>4. OneAtATime'
    BY DEF OneAtATime
  <1>5. TablesFirst'
    BY DEF TablesFirst, OneAtATime
  <1>6. RowsSoFar'
    <2>1. config = {} /\ dat = "absent" /\ db' = "tables"
      BY DEF TablesFirst
    <2>2. \A i \in RowNo : pc'[p] = RowPc[i] => i = 1
      BY RowPcs DEF RowNo
    <2>3. \A q \in Procs \ {p} : pc'[q] \notin CreatingPcs
      BY DEF OneAtATime
    <2>4. FirstRows(1 - 1) = {}
      BY Rows
    <2> QED
      BY <2>1, <2>2, <2>3, <2>4, Rows DEF RowsSoFar, AtRow
  <1>7. HandlesFit'
    BY DEF HandlesFit, AtRow
  <1> QED
    BY <1>1, <1>2, <1>3, <1>4, <1>5, <1>6, <1>7

LEMMA CreateDatInvariant ==
  ASSUME IInv, NEW p \in Procs, CreateDat(p), ~Threw(p)
  PROVE  IInv'
  <1> USE CallsAssumption, Creating DEF IInv, CreateDat, Threw, Throw, Goto, files, locks, Typed
  <1> Mode(p) \in {"R", "W"} /\ (Mode(p) = "W" => ~call[p].readonly)
    BY DEF Mode
  <1>1. Typed'
    <2>1. hdata' \in [Procs -> {"none", "R", "W"}]
      OBVIOUS
    <2>2. pc' \in [Procs -> {"thrown"} \cup CreatingPcs \cup {pc[q] : q \in Procs}]
      OBVIOUS
    <2> QED
      BY <2>1, <2>2
  <1>2. OpenIsThere'
    BY DEF OpenIsThere
  <1>3. Reserving'
    BY DEF Reserving
  <1>4. OneAtATime'
    BY DEF OneAtATime
  <1>5. TablesFirst'
    BY DEF TablesFirst
  <1>6. RowsSoFar'
    BY DEF RowsSoFar, AtRow, TablesFirst, OneAtATime
  <1>7. HandlesFit'
    BY DEF HandlesFit, AtRow
  <1> QED
    BY <1>1, <1>2, <1>3, <1>4, <1>5, <1>6, <1>7

LEMMA WriteMagicInvariant ==
  ASSUME IInv, NEW p \in Procs, WriteMagic(p), ~Threw(p)
  PROVE  IInv'
  <1> USE CallsAssumption, Creating DEF IInv, WriteMagic, Threw, Throw, Goto, files, locks, Typed
  <1>1. Typed'
    OBVIOUS
  <1>2. OpenIsThere'
    BY DEF OpenIsThere
  <1>3. Reserving'
    BY DEF Reserving
  <1>4. OneAtATime'
    BY DEF OneAtATime
  <1>5. TablesFirst'
    BY DEF TablesFirst
  <1>6. RowsSoFar'
    <2>1. config = {}
      BY DEF RowsSoFar
    <2>2. \A i \in RowNo : pc'[p] = RowPc[i] => i = 1
      BY RowPcs DEF RowNo
    <2>3. FirstRows(1 - 1) = {}
      BY Rows
    <2> QED
      BY <2>1, <2>2, <2>3 DEF RowsSoFar, AtRow
  <1>7. HandlesFit'
    BY DEF HandlesFit, AtRow
  <1> QED
    BY <1>1, <1>2, <1>3, <1>4, <1>5, <1>6, <1>7

LEMMA InsertRowInvariant ==
  ASSUME IInv, NEW p \in Procs, NEW i \in RowNo, InsertRow(p, i), ~Threw(p)
  PROVE  IInv'
  <1> USE CallsAssumption, Creating DEF IInv, Typed
  <1> /\ pc[p] = RowPc[i] /\ pc' = [pc EXCEPT ![p] = RowPc[i + 1]]
      /\ config' = config \cup {ConfigRows[i]}
      /\ UNCHANGED <<db, dat, local, locks, call, dbexist, hdata, leaked>>
    BY DEF InsertRow, Threw, Throw, files, Goto
  <1> i \in 1 .. 14 /\ i + 1 \in 1 .. 14 /\ i \in 0 .. 13 /\ (i + 1) - 1 = i
    BY DEF RowNo
  <1> \/ i + 1 \in RowNo /\ RowPc[i + 1] \in CreatingPcs \ {"tables", "newdat", "magic"}
      \/ RowPc[i + 1] = "attach"
    BY RowPcs DEF RowNo
  <1> ConfigRows[i] \in ToSet(ConfigRows)
    BY Rows DEF FirstRows, RowNo
  <1> USE DEF locks
  <1>1. Typed'
    OBVIOUS
  <1>2. OpenIsThere'
    BY DEF OpenIsThere
  <1>3. Reserving'
    BY DEF Reserving
  <1>4. OneAtATime'
    BY DEF OneAtATime
  <1>5. TablesFirst'
    BY DEF TablesFirst
  <1>6. RowsSoFar'
    <2>1. config = FirstRows(i - 1) /\ dat # "empty"
      BY DEF RowsSoFar, AtRow
    <2>2. config' = FirstRows(i)
      BY <2>1, Rows
    <2>3. \A q \in Procs \ {p} : pc'[q] \notin CreatingPcs
      BY DEF OneAtATime
    <2>4. ASSUME NEW q \in Procs, NEW j \in RowNo, pc'[q] = RowPc[j]
          PROVE  config' = FirstRows(j - 1)
      <3>1. q = p
        BY <2>3, <2>4
      <3>2. j = i + 1
        BY <2>4, <3>1, NextRow
      <3> QED
        BY <2>2, <3>2
    <2>5. \A q \in Procs : pc'[q] \notin {"newdat", "magic"}
      BY <2>3
    <2>6. \E j \in 0 .. 13 : config' = FirstRows(j)
      BY <2>2
    <2>7. dat' # "empty"
      BY <2>1
    <2> HIDE DEF IInv, Typed, locks
    <2> QED
      BY <2>4, <2>5, <2>6, <2>7 DEF RowsSoFar
  <1>7. HandlesFit'
    <2>1. "filesize" \in config'
      BY Rows DEF RowsSoFar
    <2> QED
      BY <2>1 DEF HandlesFit, AtRow
  <1> QED
    BY <1>1, <1>2, <1>3, <1>4, <1>5, <1>6, <1>7

LEMMA OpenDatInvariant ==
  ASSUME IInv, NEW p \in Procs, OpenDat(p), ~Threw(p)
  PROVE  IInv'
  <1> USE CallsAssumption, Creating DEF IInv, Typed, OpenDat, Threw, Throw, Mode, Goto, files, locks
  <1>1. Typed' /\ Quiet(p)
    BY DEF Quiet
  <1>2. OpenIsThere'
    BY DEF OpenIsThere
  <1>3. HandlesFit'
    BY DEF HandlesFit, AtRow
  <1> QED
    BY <1>1, <1>2, <1>3, QuietInvariant

LEMMA SelectInvariant ==
  ASSUME IInv, NEW p \in Procs, Select(p), ~Threw(p)
  PROVE  IInv'
  <1> USE CallsAssumption, Creating DEF IInv, Typed, Select, Threw, Throw, Goto, files, locks
  <1>1. Typed' /\ Quiet(p)
    BY DEF Quiet
  <1>2. OpenIsThere'
    BY DEF OpenIsThere
  <1>3. HandlesFit'
    BY DEF HandlesFit, AtRow
  <1> QED
    BY <1>1, <1>2, <1>3, QuietInvariant

LEMMA CompareSizesInvariant ==
  ASSUME IInv, NEW p \in Procs, CompareSizes(p), ~Threw(p)
  PROVE  IInv'
  <1> USE CallsAssumption, Creating DEF IInv, Typed, CompareSizes, Threw, Throw, Accepted, Goto, files, locks
  <1>1. Typed' /\ Quiet(p)
    BY DEF Quiet
  <1>2. OpenIsThere'
    BY DEF OpenIsThere
  <1>3. HandlesFit'
    BY DEF HandlesFit, AtRow
  <1> QED
    BY <1>1, <1>2, <1>3, QuietInvariant

LEMMA AttachReadsInvariant ==
  ASSUME IInv, NEW p \in Procs, AttachReads(p), ~Threw(p)
  PROVE  IInv'
  <1> USE CallsAssumption, Creating DEF IInv, Typed, AttachReads, Goto, files, locks
  <1>1. Typed' /\ Quiet(p)
    BY DEF Quiet
  <1>2. OpenIsThere'
    BY DEF OpenIsThere
  <1>3. HandlesFit'
    BY DEF HandlesFit, AtRow
  <1> QED
    BY <1>1, <1>2, <1>3, QuietInvariant

LEMMA AttachInvariant ==
  ASSUME IInv, NEW p \in Procs, Attach(p), ~Threw(p)
  PROVE  IInv'
  <1> USE CallsAssumption, Creating DEF IInv, Typed, Attach, Threw, Throw, Goto, files, locks
  <1>1. Typed' /\ Quiet(p)
    BY DEF Quiet
  <1>2. OpenIsThere'
    BY DEF OpenIsThere
  <1>3. HandlesFit'
    BY DEF HandlesFit, AtRow
  <1> QED
    BY <1>1, <1>2, <1>3, QuietInvariant

LEMMA DestroyInvariant ==
  ASSUME IInv, NEW p \in Procs, Destroy(p), ~Threw(p)
  PROVE  IInv'
  <1> USE CallsAssumption, Creating DEF IInv, Typed, Destroy, Threw, Throw, Goto, files, locks
  <1>1. Typed' /\ Quiet(p)
    BY DEF Quiet
  <1>2. OpenIsThere'
    BY DEF OpenIsThere
  <1>3. HandlesFit'
    BY DEF HandlesFit, AtRow
  <1> QED
    BY <1>1, <1>2, <1>3, QuietInvariant

LEMMA ExitInvariant ==
  ASSUME IInv, NEW p \in Procs, Exit(p)
  PROVE  IInv'
  <1> USE CallsAssumption, Creating DEF IInv, Exit, Goto, files, locks, Typed
  <1>1. Typed'
    OBVIOUS
  <1>2. OpenIsThere'
    BY DEF OpenIsThere
  <1>3. Reserving'
    BY DEF Reserving
  <1>4. OneAtATime'
    BY DEF OneAtATime
  <1>5. TablesFirst'
    BY DEF TablesFirst
  <1>6. RowsSoFar'
    BY DEF RowsSoFar, AtRow
  <1>7. HandlesFit'
    BY DEF HandlesFit, AtRow
  <1> QED
    BY <1>1, <1>2, <1>3, <1>4, <1>5, <1>6, <1>7

LEMMA PowerFailureInvariant ==
  ASSUME IInv, PowerFailure
  PROVE  IInv'
  <1> USE CallsAssumption, Creating DEF IInv, PowerFailure, Typed
  <1>1. Typed'
    OBVIOUS
  <1>2. OpenIsThere'
    BY DEF OpenIsThere
  <1>3. Reserving'
    BY DEF Reserving
  <1>4. OneAtATime'
    BY DEF OneAtATime
  <1>5. TablesFirst'
    BY DEF TablesFirst
  <1>6. RowsSoFar'
    BY DEF RowsSoFar, AtRow
  <1>7. HandlesFit'
    BY DEF HandlesFit, AtRow
  <1> QED
    BY <1>1, <1>2, <1>3, <1>4, <1>5, <1>6, <1>7

LEMMA NextInvariant ==
  ASSUME IInv, [Next]_vars
  PROVE  IInv'
  <1>1. CASE UNCHANGED vars
    BY <1>1 DEF IInv, Typed, OpenIsThere, Reserving, OneAtATime, TablesFirst, RowsSoFar,
       HandlesFit, AtRow, vars, files, locks, procs
  <1>2. CASE PowerFailure
    BY <1>2, PowerFailureInvariant
  <1>3. ASSUME NEW p \in Procs, Threw(p) PROVE IInv'
    BY <1>3, UnwindInvariant
  <1>4. ASSUME NEW p \in Procs, Construct(p), ~Threw(p) PROVE IInv'
    <2>1. CASE \E i \in 1 .. Len(ConfigRows) : InsertRow(p, i)
      BY <1>4, <2>1, InsertRowInvariant, RowPcs DEF RowNo
    <2> QED
      BY <1>4, <2>1, CheckDbInvariant, OpenDbInvariant, CheckDatInvariant, ReadSchemaInvariant,
         CreateTablesInvariant, CommitTablesInvariant, CreateDatInvariant, WriteMagicInvariant,
         OpenDatInvariant, SelectInvariant, CompareSizesInvariant, AttachReadsInvariant,
         AttachInvariant
      DEF Construct
  <1>5. ASSUME NEW p \in Procs, Fail(p) PROVE IInv'
    <2>1. Threw(p)
      BY <1>5 DEF Fail, Throw, Threw, files, IInv, Typed
    <2> QED
      BY <2>1, <1>3
  <1>6. ASSUME NEW p \in Procs, Destroy(p) PROVE IInv'
    BY <1>3, <1>6, DestroyInvariant
  <1>7. ASSUME NEW p \in Procs, Exit(p) PROVE IInv'
    BY <1>7, ExitInvariant
  <1> QED
    BY <1>1, <1>2, <1>3, <1>4, <1>5, <1>6, <1>7 DEF Next

LEMMA Invariant == Spec => []IInv
  BY InitInvariant, NextInvariant, PTL DEF Spec

-----------------------------------------------------------------------------
(* The properties that the runs check.                                     *)

\* The state of any number of constructors is typed: there is a MAIN.DAT for
\* every handle, and RESERVED is the lock of the creating transaction.
THEOREM RepositoryTypes == Spec => []TypeOK
  <1>1. IInv => TypeOK
    BY TypesMeanTypeOK DEF IInv
  <1> QED
    BY <1>1, Invariant, PTL

\* Of any number of constructors that have found no MAIN.DB, and may all have
\* been right, one at most goes on to create.
THEOREM OneCreatorOnly == Spec => []OneCreator
  <1>1. IInv => OneCreator
    <2> SUFFICES ASSUME IInv PROVE OneCreator
      OBVIOUS
    <2> DEFINE creators == {p \in Procs : pc[p] \in CreatingPcs}
    <2>1. CASE creators = {}
      BY <2>1, FS_EmptySet DEF OneCreator
    <2>2. ASSUME NEW p \in creators PROVE OneCreator
      <3>1. creators = {p}
        BY DEF IInv, OneAtATime
      <3> QED
        BY <3>1, FS_Singleton DEF OneCreator
    <2> QED
      BY <2>1, <2>2
  <1> QED
    BY <1>1, Invariant, PTL

\* Wherever creations fail or die, config holds a beginning of its rows, and
\* only if the tables and the rest of MAIN.DAT have come before.
THEOREM RowsInTheirOrder == Spec => []RowsInOrder
  <1>1. IInv => RowsInOrder
    <2> SUFFICES ASSUME IInv PROVE RowsInOrder
      OBVIOUS
    <2>1. Len(ConfigRows) = 13
      BY RowPcs
    <2>2. PICK i \in 0 .. 13 : config = FirstRows(i)
      BY DEF IInv, RowsSoFar
    <2>3. config = ToSet(SubSeq(ConfigRows, 1, i))
      BY <2>2, Rows
    <2>4. config # {} => db = "tables" /\ dat # "empty"
      BY DEF IInv, RowsSoFar, TablesFirst
    <2> QED
      BY <2>1, <2>3, <2>4 DEF RowsInOrder
  <1> QED
    BY <1>1, Invariant, PTL

\* A writer that an unchecked opening lets in meets a MAIN.DAT of the size that
\* is recorded, whoever else creates, fails or loses the power.
THEOREM WritersFit == Spec => []WriterFitsSize
  <1>1. IInv => WriterFitsSize
    BY DEF IInv, HandlesFit, WriterFitsSize
  <1> QED
    BY <1>1, Invariant, PTL

\* No step of any constructor touches a complete repository; only a power
\* failure does.
LEMMA CompleteStep ==
  ASSUME IInv, [Next]_vars, Complete
  PROVE  Complete' \/ PowerFailure
  <1> USE DEF Complete, files
  <1>1. CASE UNCHANGED vars
    BY <1>1 DEF vars
  <1>2. ASSUME NEW p \in Procs, UNCHANGED <<db, config, dat>> PROVE Complete'
    BY <1>2
  <1>3. ASSUME NEW p \in Procs, CheckDb(p) \/ CheckDat(p) \/ ReadSchema(p) \/ CreateTables(p)
          \/ OpenDat(p) \/ Select(p) \/ CompareSizes(p) \/ AttachReads(p) \/ Attach(p)
          \/ Fail(p) \/ Destroy(p) \/ Exit(p)
        PROVE  UNCHANGED <<db, config, dat>>
    BY <1>3 DEF CheckDb, CheckDat, ReadSchema, CreateTables, OpenDat, Select, CompareSizes,
       AttachReads, Attach, Fail, Destroy, Exit, Throw
  <1>4. ASSUME NEW p \in Procs, OpenDb(p) \/ WriteMagic(p) \/ CreateDat(p) PROVE Complete'
    BY <1>4 DEF OpenDb, WriteMagic, CreateDat, Throw
  <1>5. ASSUME NEW p \in Procs, CommitTables(p) PROVE Complete'
    BY <1>5, Creating DEF CommitTables, Throw, IInv, TablesFirst
  <1>6. ASSUME NEW p \in Procs, NEW i \in 1 .. Len(ConfigRows), InsertRow(p, i) PROVE Complete'
    <2>1. ConfigRows[i] \in ToSet(ConfigRows)
      BY Rows, RowPcs DEF FirstRows
    <2> QED
      BY <1>6, <2>1 DEF InsertRow, Throw
  <1> QED
    BY <1>1, <1>2, <1>3, <1>4, <1>5, <1>6 DEF Next, Construct

\* A repository that is complete stays so: constructors that are late, fail or
\* die leave tables, MAIN.DAT and config as they are.
THEOREM CompleteStaysComplete == Spec => CompleteStays
  <1>1. IInv /\ [Next]_vars => (Complete => Complete' \/ PowerFailure)
    BY CompleteStep
  <1> QED
    BY <1>1, Invariant, PTL DEF Spec, CompleteStays
=============================================================================
