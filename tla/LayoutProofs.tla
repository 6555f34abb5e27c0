---------------------------- MODULE LayoutProofs ----------------------------
(***************************************************************************)
(* How MAIN.DAT is laid out and what datacheck makes of it: proofs of      *)
(* CheckSound, Tiled, WriterAtEnd and NoFalseAlarm for every size,         *)
(* configuration and sequence of failures and crashes.                     *)
(***************************************************************************)
EXTENDS CommittedProofs

\* Where object i ends; the magic number stands for object 0
RowEnd(i) == IF i = 0 THEN 1 ELSE End(objects[i])

-----------------------------------------------------------------------------
(* A check that has not complained so far has read what lies in front of   *)
(* its file pointer, and found it intact.                                  *)

Checked ==
  /\ recorded = RowEnd(Len(objects))
  /\ proc = "checking" /\ ~alarm =>
       /\ row <= Len(objects) + 1
       /\ ptr = RowEnd(row - 1)
       /\ \A i \in DOMAIN objects : i < row => Intact(objects[i]) /\ End(objects[i]) <= ptr

\* Rows are added by commit() and never change.
LEMMA RowsSame ==
  ASSUME [Next]_vars, ~CommitDb
  PROVE  UNCHANGED <<config, objects, files, recorded>>
  BY DEF Next, SaveNext, RepositoryNext, Construct, ConstructError, Process,
         ProcessWriteError, ProcessZlibError, restart, restartError,
         CommitRefused, CommitWrites, CommitWriteError, CommitFlush,
         CommitDbError, Destroy, OpenUnchecked, OpenChecked, CheckObject,
         CheckEnd, Close, Crash, Damage, vars, dbvars

\* While a repository is checked nothing but the check goes on.
LEMMA OnlyChecking ==
  ASSUME Typed, Next, proc = "checking"
  PROVE  CheckObject \/ CheckEnd \/ Crash
  <1>1. s.pc = "none"
    BY DEF Typed, Placed
  <1>2. ~SaveNext
    BY <1>1 DEF SaveNext, Construct, ConstructError, MayConstruct, Process,
                ProcessWriteError, ProcessZlibError, MayProcess, restart, restartError,
                MayRestart, CommitRefused, CommitWrites, CommitWriteError, Going,
                CommitFlush, CommitDb, CommitDbError, Destroy
  <1> QED
    BY <1>2 DEF Next, RepositoryNext, OpenUnchecked, OpenChecked, Close, Damage

\* What datacheck::run has not complained about is the next object, intact.
LEMMA Uncomplained ==
  ASSUME Typed, NEW i \in DOMAIN objects, ~Complaint(objects[i])
  PROVE  /\ objects[i].offset = ptr /\ Intact(objects[i])
         /\ ~ShortRead(objects[i]) /\ ptr <= End(objects[i])
  <1>1. /\ objects[i].offset \in Nat /\ objects[i].size \in Nat
        /\ End(objects[i]) = objects[i].offset + objects[i].size
    BY RowFacts DEF Typed
  <1>2. objects[i].offset = ptr /\ ~ShortRead(objects[i])
        /\ Read(dat, objects[i].offset, objects[i].size) = objects[i].hash
    BY DEF Complaint, UnusedSpace, HashMismatch
  <1>3. End(objects[i]) <= eof
    BY <1>1, <1>2 DEF ShortRead, Typed, TypeOK
  <1> QED
    BY <1>1, <1>2, <1>3 DEF Intact

LEMMA CheckObjectChecked ==
  ASSUME Typed, Checked, CheckObject
  PROVE  Checked'
  <1> DEFINE r == objects[row]
  <1>1. /\ row \in DOMAIN objects /\ proc = "checking"
        /\ UNCHANGED <<dat, eof, objects, recorded>>
    BY DEF CheckObject, Typed, TypeOK, dbvars
  <1>2. recorded' = RowEnd(Len(objects))'
    BY <1>1 DEF Checked, RowEnd, End
  <1>3. SUFFICES ASSUME proc' = "checking", ~alarm'
                 PROVE  /\ row' <= Len(objects) + 1
                        /\ ptr' = RowEnd(row' - 1)
                        /\ \A i \in DOMAIN objects :
                             i < row' => Intact(objects[i]) /\ End(objects[i]) <= ptr'
    BY <1>1, <1>2 DEF Checked, RowEnd, Intact, End
  <1>4. /\ ~alarm /\ ~Complaint(r) /\ row' = row + 1
        /\ ptr' = IF ShortRead(r) THEN Max2(r.offset, eof) ELSE r.offset + r.size
    BY <1>3 DEF CheckObject
  <1>5. /\ r.offset = ptr /\ Intact(r) /\ ~ShortRead(r) /\ ptr <= End(r)
    BY <1>1, <1>4, Uncomplained
  <1>6. ptr' = End(r)
    BY <1>4, <1>5 DEF End
  <1>7. row \in Nat \ {0} /\ row <= Len(objects) /\ Len(objects) \in Nat
        /\ row' - 1 = row
    BY <1>1, <1>4 DEF Typed, TypeOK
  <1>8. ptr' = RowEnd(row' - 1)
    BY <1>6, <1>7 DEF RowEnd
  <1>9. ASSUME NEW i \in DOMAIN objects, i < row'
        PROVE  Intact(objects[i]) /\ End(objects[i]) <= ptr'
    <2>1. i \in Nat
      BY DEF Typed, TypeOK
    <2>2. CASE i = row
      BY <1>1, <1>5, <1>6, <2>2, RowFacts DEF Typed
    <2>3. CASE i < row
      <3>1. Intact(objects[i]) /\ End(objects[i]) <= ptr
        BY <1>1, <1>4, <2>3 DEF Checked
      <3>2. End(objects[i]) \in Nat /\ End(r) \in Nat /\ ptr \in Nat
        BY <1>1, RowFacts DEF Typed, TypeOK
      <3> QED
        BY <1>5, <1>6, <3>1, <3>2
    <2> QED
      BY <1>4, <1>7, <1>9, <2>1, <2>2, <2>3
  <1> QED
    BY <1>4, <1>7, <1>8, <1>9

LEMMA NextChecked ==
  ASSUME Typed, Typed', Checked, [Next]_vars
  PROVE  Checked'
  <1>1. CASE UNCHANGED vars
    BY <1>1 DEF vars, datvars, dbvars, svsvars, Checked, RowEnd, Intact, End
  <1>2. CASE Next /\ proc = "checking"
    <2>1. CASE CheckObject
      BY <2>1, CheckObjectChecked
    <2>2. CASE CheckEnd \/ Crash
      BY <2>2 DEF CheckEnd, Crash, dbvars, Checked, RowEnd, End
    <2> QED
      BY <1>2, <2>1, <2>2, OnlyChecking
  <1>3. CASE CommitDb
    <2>1. /\ objects' = Append(objects, ObjectRow) /\ recorded' = s.postition + s.objsize
          /\ proc' = proc /\ s.pc = "flushed"
      BY <1>3 DEF CommitDb, svsvars
    <2>2. objects \in Seq(ObjectRows) /\ proc = "open"
      BY <2>1 DEF Typed, TypeOK, Placed
    <2>3. Len(objects') = Len(objects) + 1 /\ objects'[Len(objects) + 1] = ObjectRow
          /\ Len(objects) \in Nat
      BY <2>1, <2>2
    <2>4. End(ObjectRow) = s.postition + s.objsize
      BY <2>1, RowsTyped DEF ObjectRow, End
    <2> QED
      BY <2>1, <2>2, <2>3, <2>4 DEF Checked, RowEnd, End
  <1>4. CASE Next /\ proc # "checking" /\ ~CommitDb
    <2>1. objects' = objects /\ recorded' = recorded
      BY <1>4, RowsSame
    <2>2. proc' # "checking" \/ \E ro \in BOOLEAN : OpenChecked(ro)
      BY <1>4 DEF Next, SaveNext, RepositoryNext, Construct, ConstructError, Process,
                  ProcessWriteError, ProcessZlibError, restart, restartError,
                  CommitRefused, CommitWrites, CommitWriteError, CommitFlush,
                  CommitDbError, Destroy, OpenUnchecked, CheckObject,
                  CheckEnd, Close, Crash, Damage, svsvars
    <2>3. CASE proc' # "checking"
      BY <2>1, <2>3 DEF Checked, RowEnd, End
    <2>4. CASE \E ro \in BOOLEAN : OpenChecked(ro)
      <3>1. row' = 1 /\ ptr' = 1
        BY <2>4 DEF OpenChecked
      <3>2. objects \in Seq(ObjectRows)
        BY DEF Typed, TypeOK
      <3> QED
        BY <2>1, <3>1, <3>2 DEF Checked, RowEnd, End
    <2> QED
      BY <2>2, <2>3, <2>4
  <1> QED
    BY <1>1, <1>2, <1>3, <1>4

LEMMA InitChecked == Init => Checked
  BY DEF Init, Checked, RowEnd

\* The end of a silent check finds all objects intact up to the recorded size,
\* behind which it cuts.
LEMMA SilentEnd ==
  ASSUME Typed, Checked, CheckEnd, ~alarm
  PROVE  AllIntact'
  <1>1. /\ proc = "checking" /\ row > Len(objects) /\ objects' = objects
    BY DEF CheckEnd, dbvars
  <1>2. /\ \A i \in DOMAIN objects : Intact(objects[i]) /\ End(objects[i]) <= ptr
        /\ ptr = RowEnd(row - 1) /\ row = Len(objects) + 1
    <2>1. objects \in Seq(ObjectRows) /\ row \in Nat
      BY DEF Typed, TypeOK
    <2>2. Len(objects) \in Nat /\ \A i \in DOMAIN objects : i < row
      BY <1>1, <2>1
    <2>3. /\ row <= Len(objects) + 1 /\ ptr = RowEnd(row - 1)
          /\ \A i \in DOMAIN objects : i < row => Intact(objects[i]) /\ End(objects[i]) <= ptr
      BY <1>1 DEF Checked
    <2> QED
      BY <1>1, <2>1, <2>2, <2>3
  <1>3. ptr = recorded
    BY <1>2 DEF Checked, Typed, TypeOK
  <1> SUFFICES ASSUME NEW i \in DOMAIN objects
               PROVE  /\ End(objects[i]) <= eof'
                      /\ Read(dat', objects[i].offset, objects[i].size) = objects[i].hash
    BY <1>1 DEF AllIntact, Intact, End
  <1> DEFINE q == objects[i].offset
             n == objects[i].size
  <1>4. /\ q \in Nat /\ n \in Nat /\ End(objects[i]) = q + n
        /\ q + n <= eof /\ q + n <= recorded /\ Read(dat, q, n) = objects[i].hash
    BY <1>2, <1>3, RowFacts DEF Intact, Typed
  <1> HIDE DEF q, n
  <1>5. CASE ~(~readonly /\ recorded < eof)
    BY <1>4, <1>5 DEF CheckEnd, q, n
  <1>6. CASE ~readonly /\ recorded < eof
    <2>1. dat' = Cut(dat, recorded) /\ eof' = recorded
      BY <1>6 DEF CheckEnd
    <2>2. \A p \in Nat : q <= p /\ p < q + n => dat'[p] = dat[p]
      <3> SUFFICES ASSUME NEW p \in Nat, q <= p, p < q + n PROVE dat'[p] = dat[p]
        OBVIOUS
      <3>1. p < recorded /\ p \in 0 .. Capacity - 1
        BY <1>4, SizeAssumption DEF Typed, TypeOK
      <3> QED
        BY <2>1, <3>1, CutBelow DEF Typed, TypeOK
    <2>3. Read(dat', q, n) = Read(dat, q, n)
      BY <1>4, <2>2, ReadSame
    <2> QED
      BY <1>4, <2>1, <2>3 DEF q, n
  <1> QED
    BY <1>5, <1>6

\* A checked opening that ends without a complaint has found every committed
\* object intact and leaves it so, whatever has happened to MAIN.DAT before:
\* damage, flushes that failed, gaps that failed saves left behind, a magic
\* number that never reached the disk, or commits of saves that had failed.
THEOREM ChecksAreSound == Spec => CheckSound
  <1>1. Init => Typed /\ Checked
    BY InitShape, InitChecked
  <1>2. (Typed /\ Checked) /\ [Next]_vars => (Typed /\ Checked)'
    BY NextTyped, NextChecked
  <1>3. (Typed /\ Checked) /\ [Next]_vars =>
           [proc = "checking" /\ proc' = "open" /\ ~alarm' => AllIntact']_vars
    <2> SUFFICES ASSUME Typed, Checked, Next, proc = "checking", proc' = "open", ~alarm'
                 PROVE  AllIntact'
      OBVIOUS
    <2>1. CheckEnd
      BY OnlyChecking DEF CheckObject, Crash
    <2>2. ~alarm
      BY <2>1 DEF CheckEnd
    <2> QED
      BY <2>1, <2>2, SilentEnd
  <1> QED
    BY <1>1, <1>2, <1>3, PTL DEF Spec, CheckSound

-----------------------------------------------------------------------------
(* Objects lie one behind the other, because a writer finds MAIN.DAT as    *)
(* long as recorded whenever it begins a save.  That an opening ensures    *)
(* this relies on the magic number being there (CreationFlushed): a check  *)
(* of an empty repository only prints that MAIN.DAT is too short.          *)

\* commit() has recorded an object where the save has put its own
OffsetRecorded == \E i \in DOMAIN objects : objects[i].offset = s.postition

Tiles ==
  /\ \A i \in DOMAIN objects : objects[i].offset = RowEnd(i - 1)
  /\ synced >= 1 /\ recorded >= 1
  /\ proc = "checking" /\ ~readonly => ~alarm
  /\ s.pc # "none" => ~readonly /\ ~aborted
  /\ proc = "open" /\ ~readonly /\ ~aborted /\ s.pc \in {"none", "done"} => eof = recorded
  /\ s.pc = "stream" => s.postition = recorded
  /\ s.pc \in {"written", "flushed"} => s.postition = recorded \/ OffsetRecorded
  /\ s.pc = "done" => OffsetRecorded

\* A step that adds no row, and behind which no save goes on.
LEMMA IdleTiles ==
  ASSUME Tiles, UNCHANGED <<objects, recorded>>, synced' >= 1,
         s'.pc \in {"none", "failed", "broken"},
         s'.pc # "none" => ~readonly' /\ ~aborted',
         proc' = "checking" /\ ~readonly' => ~alarm',
         proc' = "open" /\ ~readonly' /\ ~aborted' /\ s'.pc = "none" => eof' = recorded
  PROVE  Tiles'
  BY DEF Tiles, RowEnd, End

\* A step of a save that leaves its object where it is.
LEMMA SavingTiles ==
  ASSUME Tiles, UNCHANGED <<objects, recorded, readonly, aborted>>, proc = "open",
         proc' = "open", synced' >= 1, s.pc # "none", s'.pc # "none",
         s'.postition = s.postition,
         s'.pc = "stream" => s.pc = "stream",
         s'.pc \in {"written", "flushed"} => s.pc \in {"stream", "done", "written", "flushed"},
         s'.pc = "done" => s.pc = "done" /\ eof' = eof
  PROVE  Tiles'
  BY DEF Tiles, RowEnd, End, OffsetRecorded

LEMMA ConstructTiles ==
  ASSUME ~SaveAfterFailure, Shape, Tiles, NEW n \in FileSizes, NEW prev \in Offsets,
         NEW psign \in BOOLEAN, NEW prob \in BOOLEAN, Construct(n, prev, psign, prob)
  PROVE  Tiles'
  <1>1. /\ proc = "open" /\ ~readonly /\ ~aborted /\ s.pc = "none"
        /\ UNCHANGED <<objects, recorded, synced, proc, readonly, alarm, aborted>>
    BY DEF Construct, MayConstruct, dbvars, svsvars
  <1>2. s'.pc = "stream" /\ s'.postition = eof
    BY DEF Construct, Constructed
  <1>3. eof = recorded
    BY <1>1 DEF Tiles
  <1> QED
    BY <1>1, <1>2, <1>3 DEF Tiles, RowEnd, End

LEMMA ProcessTiles ==
  ASSUME ~CommitAfterError, Shape, Shape', Tiles, NEW k \in Chunks, NEW e \in 0 .. MaxEmit,
         Process(k, e) \/ ProcessWriteError(k, e) \/ ProcessZlibError(k, e)
  PROVE  Tiles'
  <1>1. /\ UNCHANGED <<objects, recorded, proc, readonly, aborted>>
        /\ s.pc \in {"stream", "done"} /\ proc = "open"
    BY DEF Process, ProcessWriteError, ProcessZlibError, MayProcess, Going, dbvars, svsvars,
           Shape, Geometry
  <1>2. synced' = synced
    BY DEF Process, ProcessWriteError, ProcessZlibError, WriteShort, WriteFile, datvars
  <1>3. CASE Process(k, e)
    <2>1. s'.pc \in {s.pc, "failed"} /\ s'.postition = s.postition
      BY <1>3 DEF Process, Shape, TypeOK, SaveStates
    <2>2. s'.pc = "done" => eof' = eof
      BY <1>3, ProcessDone
    <2> QED
      BY <1>1, <1>2, <2>1, <2>2, SavingTiles DEF Tiles
  <1>4. CASE ProcessWriteError(k, e) \/ ProcessZlibError(k, e)
    <2>1. s'.pc = "failed" /\ s'.postition = s.postition
      BY <1>4 DEF ProcessWriteError, ProcessZlibError, Shape, TypeOK, SaveStates
    <2> QED
      BY <1>1, <1>2, <2>1, SavingTiles DEF Tiles
  <1> QED
    BY <1>3, <1>4

LEMMA RestartTiles ==
  ASSUME ~CommitAfterError, Shape, Tiles, restart \/ restartError
  PROVE  Tiles'
  <1>0. /\ UNCHANGED <<objects, recorded, proc, readonly, aborted>>
        /\ s.pc = "stream" /\ proc = "open"
    BY DEF restart, restartError, MayRestart, Going, dbvars, svsvars, Shape, Geometry
  <1>1. /\ UNCHANGED <<objects, recorded, synced, proc, readonly, aborted>>
        /\ s.pc = "stream" /\ proc = "open"
    <2>1. /\ synced <= s.postition /\ s.postition + 2 <= s.data_begin
          /\ synced \in Nat /\ s.postition \in Nat /\ s.data_begin \in Nat
      BY <1>0 DEF Shape, TypeOK, Geometry, SaveStates
    <2> QED
      BY <1>0, <2>1 DEF restart, restartError, Min2
  <1>2. s'.pc \in {"stream", "failed"} /\ s'.postition = s.postition
    BY <1>1 DEF restart, restartError, Restarted, Shape, TypeOK, SaveStates
  <1> QED
    BY <1>1, <1>2, SavingTiles DEF Tiles

\* commit() up to the database transaction, and every way in which it fails.
LEMMA CommitTiles ==
  ASSUME ~CommitAfterError, Shape, Tiles,
         CommitRefused \/ CommitWrites \/ CommitWriteError \/ CommitFlush \/ CommitDbError
  PROVE  Tiles'
  <1>1. /\ UNCHANGED <<objects, recorded, proc, readonly, aborted>>
        /\ s.pc \in {"stream", "done", "written", "flushed"} /\ proc = "open"
    BY DEF CommitRefused, CommitWrites, CommitWriteError, CommitFlush, CommitDbError,
           Going, dbvars, svsvars, Shape, Geometry
  <1>2. /\ s'.pc \in {"failed", "broken", "written", "flushed"}
        /\ s'.postition = s.postition
    BY DEF CommitRefused, CommitWrites, CommitWriteError, CommitFlush, CommitDbError,
           Shape, TypeOK, SaveStates
  <1>3. synced' >= 1
    <2>1. synced \in Nat /\ eof \in Nat /\ synced >= 1 /\ synced <= eof
      BY DEF Shape, TypeOK, Geometry, Tiles
    <2>2. CASE CommitWrites
      BY <2>1, <2>2, CommitWritesCells
    <2>3. CASE CommitWriteError
      <3>1. ptr = eof
        BY <2>3, CommitFacts DEF CommitWriteError
      <3> QED
        BY <2>1, <2>3, <3>1 DEF CommitWriteError, Min2
    <2>4. CASE CommitFlush
      BY <2>1, <2>4 DEF CommitFlush
    <2>5. CASE CommitRefused \/ CommitDbError
      BY <2>1, <2>5 DEF CommitRefused, CommitDbError, datvars
    <2> QED
      BY <2>2, <2>3, <2>4, <2>5
  <1> QED
    BY <1>1, <1>2, <1>3, SavingTiles

\* The unique index on offset refuses an object that is recorded already; any
\* other one begins at the recorded size.
LEMMA CommitDbTiles ==
  ASSUME Shape, Checked, Tiles, CommitDb
  PROVE  Tiles'
  <1>1. /\ s.pc = "flushed" /\ proc = "open" /\ ~OffsetRecorded
        /\ objects' = Append(objects, ObjectRow) /\ recorded' = s.postition + s.objsize
        /\ s' = [s EXCEPT !.pc = "done"]
        /\ UNCHANGED <<eof, synced, proc, readonly, alarm, aborted>>
    BY DEF CommitDb, Shape, Geometry, OffsetRecorded, svsvars
  <1>2. s.postition = recorded
    BY <1>1 DEF Tiles
  <1>3. /\ s.objsize = eof - s.postition /\ s.objsize \in Nat /\ s.postition \in Nat
        /\ eof \in Nat /\ ObjectRow.offset = s.postition /\ ObjectRow.size = s.objsize
    BY <1>1, RowTypes
  <1>4. recorded' = eof /\ recorded' >= 1
    BY <1>1, <1>2, <1>3 DEF Tiles
  <1>5. /\ Len(objects) \in Nat /\ DOMAIN objects = 1 .. Len(objects)
        /\ DOMAIN objects' = 1 .. Len(objects) + 1
        /\ \A i \in DOMAIN objects : objects'[i] = objects[i]
        /\ objects'[Len(objects) + 1] = ObjectRow
    <2>1. objects \in Seq(ObjectRows)
      BY DEF Shape, TypeOK
    <2> QED
      BY <1>1, <2>1
  <1>6. \A i \in DOMAIN objects' : objects'[i].offset = RowEnd(i - 1)'
    <2> TAKE i \in DOMAIN objects'
    <2>1. RowEnd(i - 1)' = RowEnd(i - 1)
      BY <1>5 DEF RowEnd, End
    <2>2. CASE i \in DOMAIN objects
      BY <1>5, <2>1, <2>2 DEF Tiles
    <2>3. CASE i = Len(objects) + 1
      <3>1. RowEnd(i - 1) = recorded
        BY <1>5, <2>3 DEF Checked
      <3> QED
        BY <1>2, <1>3, <1>5, <2>1, <2>3, <3>1
    <2> QED
      BY <1>5, <2>2, <2>3
  <1>7. s'.pc = "done" /\ s'.postition = s.postition
    BY <1>1 DEF Shape, TypeOK, SaveStates
  <1>8. OffsetRecorded'
    <2>1. Len(objects) + 1 \in DOMAIN objects'
      BY <1>5
    <2> QED
      BY <1>3, <1>5, <1>7, <2>1 DEF OffsetRecorded
  <1> QED
    BY <1>1, <1>4, <1>6, <1>7, <1>8 DEF Tiles

\* The end of a filesave object that has not committed, and a constructor that
\* has thrown, leave their bytes behind and mark the repository.
LEMMA DestroyTiles ==
  ASSUME Shape, Tiles, Destroy \/ \E prev \in Offsets : ConstructError(prev)
  PROVE  Tiles'
  <1>1. /\ UNCHANGED <<objects, recorded, synced, proc, readonly>> /\ proc = "open"
    BY DEF Destroy, ConstructError, MayConstruct, datvars, dbvars, svsvars, Shape, Geometry
  <1>2. s'.pc = "none"
    BY NoSaveType DEF Destroy, ConstructError, MayConstruct
  <1>3. CASE Destroy
    BY <1>1, <1>2, <1>3, IdleTiles DEF Destroy, Tiles, datvars
  <1>4. CASE \E prev \in Offsets : ConstructError(prev)
    BY <1>1, <1>2, <1>4, IdleTiles DEF ConstructError, Tiles
  <1> QED
    BY <1>3, <1>4

LEMMA OpenTiles ==
  ASSUME Shape, Tiles, NEW ro \in BOOLEAN, OpenUnchecked(ro) \/ OpenChecked(ro)
  PROVE  Tiles'
  <1>1. /\ UNCHANGED <<objects, recorded, synced, eof, s>> /\ readonly' = ro /\ s.pc = "none"
    BY DEF OpenUnchecked, OpenChecked, dbvars, Shape, Geometry
  <1>2. proc' = "open" /\ ~ro => eof = recorded
    BY DEF OpenUnchecked, OpenChecked
  <1>3. proc' = "checking" => ~alarm'
    BY DEF OpenUnchecked, OpenChecked
  <1> QED
    BY <1>1, <1>2, <1>3, IdleTiles DEF Tiles

\* A writer does not get to the end of a check that has complained.
LEMMA CheckObjectTiles ==
  ASSUME Shape, Tiles, CheckObject
  PROVE  Tiles'
  <1>1. /\ UNCHANGED <<objects, recorded, synced, eof, s, readonly>>
        /\ s.pc = "none" /\ proc = "checking"
    BY DEF CheckObject, dbvars, Shape, Geometry
  <1>2. proc' # "open"
    BY <1>1 DEF CheckObject
  <1>3. proc' = "checking" /\ ~readonly => ~alarm'
    BY <1>1 DEF CheckObject, Tiles
  <1> QED
    BY <1>1, <1>2, <1>3, IdleTiles DEF Tiles

\* Behind a silent check MAIN.DAT is at least as long as recorded, and then it
\* is cut.
LEMMA CheckEndTiles ==
  ASSUME Shape, Checked, Tiles, CheckEnd
  PROVE  Tiles'
  <1>1. /\ UNCHANGED <<objects, recorded, readonly, s>>
        /\ s.pc = "none" /\ proc = "checking" /\ proc' = "open" /\ row > Len(objects)
    BY DEF CheckEnd, dbvars, Shape, Geometry
  <1>2. synced \in Nat /\ eof \in Nat /\ recorded \in Nat /\ row \in Nat
        /\ synced <= eof /\ synced >= 1 /\ recorded >= 1
        /\ Len(objects) \in Nat /\ DOMAIN objects = 1 .. Len(objects)
    BY DEF Shape, TypeOK, Geometry, Tiles
  <1>3. synced' >= 1
    BY <1>2 DEF CheckEnd, Min2
  <1>4. ASSUME ~readonly PROVE eof' = recorded
    <2>1. ~alarm
      BY <1>1, <1>4 DEF Tiles
    <2>2. recorded <= eof
      <3>1. CASE Len(objects) = 0
        BY <1>2, <3>1 DEF Checked, RowEnd
      <3>2. CASE Len(objects) # 0
        <4>1. Len(objects) \in DOMAIN objects /\ Len(objects) < row
          BY <1>1, <1>2, <3>2
        <4>2. Intact(objects[Len(objects)])
          BY <1>1, <2>1, <4>1 DEF Checked
        <4>3. recorded = End(objects[Len(objects)])
          BY <3>2 DEF Checked, RowEnd
        <4> QED
          BY <4>2, <4>3 DEF Intact
      <3> QED
        BY <3>1, <3>2
    <2> QED
      BY <1>2, <1>4, <2>2 DEF CheckEnd
  <1> QED
    BY <1>1, <1>3, <1>4, IdleTiles

LEMMA OutageTiles ==
  ASSUME Shape, Tiles, Crash \/ Damage \/ Close
  PROVE  Tiles'
  <1>1. UNCHANGED <<objects, recorded, readonly, alarm, aborted>> /\ proc' = "down"
    BY DEF Crash, Damage, Close, dbvars, svsvars
  <1>2. s'.pc = "none"
    BY NoSaveType DEF Crash, Damage, Close, Shape, Geometry
  <1>3. synced' >= 1
    BY DEF Crash, Damage, Close, datvars, Shape, TypeOK, Tiles, Min2
  <1> QED
    BY <1>1, <1>2, <1>3, IdleTiles

LEMMA NextTiles ==
  ASSUME ~CommitAfterError, ~SaveAfterFailure, Shape, Shape', Checked, Tiles, [Next]_vars
  PROVE  Tiles'
  <1>1. CASE SaveNext
    <2>1. ASSUME NEW n \in FileSizes, NEW prev \in Offsets, NEW psign \in BOOLEAN,
                 NEW prob \in BOOLEAN, Construct(n, prev, psign, prob)
          PROVE  Tiles'
      BY <2>1, ConstructTiles
    <2>2. ASSUME NEW k \in Chunks, NEW e \in 0 .. MaxEmit,
                 Process(k, e) \/ ProcessWriteError(k, e) \/ ProcessZlibError(k, e)
          PROVE  Tiles'
      BY <2>2, ProcessTiles
    <2> QED
      BY <1>1, <2>1, <2>2, RestartTiles, CommitTiles, CommitDbTiles, DestroyTiles DEF SaveNext
  <1>2. CASE RepositoryNext
    BY <1>2, OpenTiles, CheckObjectTiles, CheckEndTiles, OutageTiles DEF RepositoryNext
  <1>3. CASE UNCHANGED vars
    BY <1>3 DEF vars, datvars, dbvars, svsvars, Tiles, RowEnd, End, OffsetRecorded
  <1> QED
    BY <1>1, <1>2, <1>3 DEF Next

LEMMA InitTiles ==
  ASSUME CreationFlushed, Init
  PROVE  Tiles
  <1>1. s.pc = "none"
    BY NoSaveType DEF Init
  <1> QED
    BY <1>1 DEF Init, Tiles

LEMMA TilesInvariant ==
  ASSUME ~CommitAfterError, ~SaveAfterFailure, CreationFlushed
  PROVE  Spec => [](Shape /\ Checked /\ Tiles)
  <1>1. Init => Shape /\ Checked /\ Tiles
    BY InitShape, InitChecked, InitTiles
  <1>2. (Shape /\ Checked /\ Tiles) /\ [Next]_vars => (Shape /\ Checked /\ Tiles)'
    BY NextShape, NextChecked, NextTiles DEF Shape, Typed
  <1> QED
    BY <1>1, <1>2, PTL DEF Spec

\* Objects lie one behind the other from the magic number to the recorded
\* size, with crashes, damage and flushes that fail anywhere, as long as a
\* caller closes the repository once a save has failed and the magic number
\* was not lost.
THEOREM ObjectsTile ==
  ASSUME ~CommitAfterError, ~SaveAfterFailure, CreationFlushed
  PROVE  Spec => []Tiled
  <1>1. Shape /\ Checked /\ Tiles => Tiled
    <2> SUFFICES ASSUME Shape, Checked, Tiles PROVE Tiled
      OBVIOUS
    <2>1. objects \in Seq(ObjectRows)
      BY DEF Shape, TypeOK
    <2>2. \A i \in DOMAIN objects :
            objects[i].offset = IF i = 1 THEN 1 ELSE End(objects[i - 1])
      BY <2>1 DEF Tiles, RowEnd
    <2>3. recorded = IF objects = << >> THEN 1 ELSE End(objects[Len(objects)])
      BY <2>1 DEF Checked, RowEnd
    <2> QED
      BY <2>2, <2>3 DEF Tiled
  <1> QED
    BY <1>1, TilesInvariant, PTL

\* A writer that has not seen a save fail finds MAIN.DAT exactly as long as
\* recorded, whatever crashes, damage and failed flushes came before it: both
\* kinds of opening turn it away or cut the tail off.
THEOREM WritersAtEnd ==
  ASSUME ~CommitAfterError, ~SaveAfterFailure, CreationFlushed
  PROVE  Spec => []WriterAtEnd
  <1>1. Shape /\ Checked /\ Tiles => WriterAtEnd
    BY DEF Tiles, WriterAtEnd
  <1> QED
    BY <1>1, TilesInvariant, PTL

-----------------------------------------------------------------------------
(* What datacheck expects of an object, commit() has written.              *)

Headed ==
  \A i \in DOMAIN objects :
    /\ objects[i].size >= 1
    /\ objects[i].hash[1] = [k |-> "hdr", type |-> objects[i].type, size |-> objects[i].size]

LEMMA NextHeaded ==
  ASSUME Shape, Written, Headed, [Next]_vars
  PROVE  Headed'
  <1>1. CASE CommitDb
    <2>1. s.pc = "flushed" /\ objects' = Append(objects, ObjectRow) /\ InPlace
      BY <1>1 DEF CommitDb, Written
    <2>2. /\ s.objsize = eof - s.postition /\ s.objsize \in Nat /\ s.postition \in Nat
          /\ ObjectRow.size = s.objsize /\ ObjectRow.type = Flags
          /\ ObjectRow.hash = Read(dat, s.postition, s.objsize)
      BY <2>1, RowTypes DEF ObjectRow
    <2>3. s.objsize >= 1
      <3>1. s.postition + 2 <= s.data_begin /\ s.data_begin <= eof
        BY <2>1 DEF Shape, Geometry
      <3>2. s.data_begin \in Nat /\ eof \in Nat
        BY DEF Shape, TypeOK, SaveStates
      <3> QED
        BY <2>2, <3>1, <3>2
    <2>4. ObjectRow.hash[1] = dat[s.postition]
      BY <2>2, <2>3 DEF Read
    <2>5. ObjectRow.hash[1] = [k |-> "hdr", type |-> ObjectRow.type, size |-> ObjectRow.size]
      BY <2>1, <2>2, <2>4 DEF InPlace, Header
    <2>6. \A i \in DOMAIN objects' :
            objects'[i] = ObjectRow \/ (i \in DOMAIN objects /\ objects'[i] = objects[i])
      BY <2>1 DEF Shape, TypeOK
    <2> HIDE DEF ObjectRow
    <2> QED
      BY <2>2, <2>3, <2>5, <2>6 DEF Headed
  <1>2. CASE ~CommitDb
    BY <1>2, RowsSame DEF Headed
  <1> QED
    BY <1>1, <1>2

\* An undamaged object that lies where the one in front of it ends gives
\* datacheck no reason to complain.
LEMMA NoComplaint ==
  ASSUME Shape, KeptObjects, Headed, NEW i \in DOMAIN objects, objects[i].offset = ptr
  PROVE  ~Complaint(objects[i])
  <1> DEFINE r == objects[i]
  <1>1. /\ r.offset \in Nat /\ r.size \in Nat /\ End(r) = r.offset + r.size
        /\ r.size >= 1 /\ End(r) <= synced
        /\ Read(dat, r.offset, r.size) = r.hash
        /\ r.hash[1] = [k |-> "hdr", type |-> r.type, size |-> r.size]
    BY RowFacts DEF Shape, KeptObjects, Headed
  <1>2. synced <= eof /\ synced \in Nat /\ eof \in Nat
    BY DEF Shape, TypeOK, Geometry
  <1> HIDE DEF r
  <1>3. ~ShortRead(r) /\ ~(r.offset >= eof)
    BY <1>1, <1>2 DEF ShortRead
  <1>4. dat[r.offset] = r.hash[1]
    <2>1. Read(dat, r.offset, r.size)[1] = dat[r.offset]
      BY <1>1 DEF Read
    <2> QED
      BY <1>1, <2>1
  <1>5. ~WrongHeader(r) /\ ~HashMismatch(r)
    BY <1>1, <1>3, <1>4 DEF WrongHeader, HashMismatch
  <1> QED
    BY <1>5 DEF Complaint, UnusedSpace, r

LEMMA NextQuiet ==
  ASSUME Shape, Checked, Tiles, Kept, Headed, NoFalseAlarm, [Next]_vars
  PROVE  NoFalseAlarm'
  <1>1. damaged => damaged'
    BY DEF Next, SaveNext, RepositoryNext, Construct, ConstructError, Process,
           ProcessWriteError, ProcessZlibError, restart, restartError,
           CommitRefused, CommitWrites, CommitWriteError, CommitFlush, CommitDb,
           CommitDbError, Destroy, OpenUnchecked, OpenChecked, CheckObject,
           CheckEnd, Close, Crash, Damage, vars
  <1>2. CASE CheckObject /\ ~damaged /\ ~alarm
    <2>1. /\ row \in DOMAIN objects /\ proc = "checking"
          /\ alarm' = (alarm \/ Complaint(objects[row]))
      BY <1>2 DEF CheckObject, Shape, TypeOK
    <2>2. objects[row].offset = ptr
      BY <1>2, <2>1 DEF Tiles, Checked
    <2>3. KeptObjects
      BY <1>2, Undamaged
    <2>4. ~Complaint(objects[row])
      BY <2>1, <2>2, <2>3, NoComplaint
    <2>5. ~alarm'
      BY <1>2, <2>1, <2>4
    <2> QED
      BY <2>5 DEF NoFalseAlarm
  <1>3. CASE damaged
    BY <1>1, <1>3 DEF NoFalseAlarm
  <1>4. CASE ~CheckObject
    <2>1. alarm' => alarm
      BY <1>4 DEF Next, SaveNext, RepositoryNext, Construct, ConstructError, Process,
                  ProcessWriteError, ProcessZlibError, restart, restartError,
                  CommitRefused, CommitWrites, CommitWriteError, CommitFlush, CommitDb,
                  CommitDbError, Destroy, OpenUnchecked, OpenChecked,
                  CheckEnd, Close, Crash, Damage, vars, svsvars
    <2> QED
      BY <1>1, <2>1 DEF NoFalseAlarm
  <1>5. alarm => damaged
    BY DEF NoFalseAlarm
  <1> QED
    BY <1>2, <1>3, <1>4, <1>5

\* The integrity check complains only about a MAIN.DAT that something else
\* than SVS has changed: crashes, failed saves, restarts and second commits
\* never make it report corruption, and so never lock a writer out.
THEOREM AlarmsAreTrue ==
  ASSUME ~CommitAfterError, ~SaveAfterFailure, ~FlushMayFail, CreationFlushed
  PROVE  Spec => []NoFalseAlarm
  <1> DEFINE Inv == Shape /\ Checked /\ Tiles /\ Written /\ Kept /\ Headed /\ NoFalseAlarm
  <1>1. Init => Inv
    <2>1. Init => Headed /\ NoFalseAlarm
      BY DEF Init, Headed, NoFalseAlarm
    <2> QED
      BY <2>1, InitShape, InitChecked, InitTiles, InitKept
  <1>2. Inv /\ [Next]_vars => Inv'
    BY NextShape, NextChecked, NextTiles, NextWritten, NextKept, NextHeaded, NextQuiet
    DEF Shape, Typed
  <1>3. Inv => NoFalseAlarm
    OBVIOUS
  <1> QED
    BY <1>1, <1>2, <1>3, PTL DEF Spec
=============================================================================
