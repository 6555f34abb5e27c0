--------------------------- MODULE RefinementProofs ---------------------------
(***************************************************************************)
(* FileSave implements VersionStore, for every size, configuration and     *)
(* sequence of failures and crashes: the proof of StoresVersions.  It      *)
(* needs what the proofs of CommittedIntact and of the contents need, and  *)
(* that nothing else writes to MAIN.DAT.                                   *)
(***************************************************************************)
EXTENDS FileSaveRefinement, ContentProofs

-----------------------------------------------------------------------------
(* The invariant under which each step is one of VersionStore or none.     *)

Sound ==
  /\ Shape /\ Written /\ Kept /\ ~damaged
  /\ Saving /\ Stored /\ saves <= MaxSaves

LEMMA InitSound == Init => Sound
  <1>1. Init => Shape /\ Written /\ Kept /\ Saving /\ Stored
    BY InitShape, InitKept, InitSaving
  <1> QED
    BY <1>1, SizeAssumption DEF Init, Sound

\* Nothing but SVS touches MAIN.DAT, and saves are counted when they begin.
LEMMA NextBounded ==
  ASSUME ~DamageMayHappen, ~damaged, saves <= MaxSaves, Shape, [Next]_vars
  PROVE  ~damaged' /\ saves' <= MaxSaves
  <1>1. damaged' = damaged
    BY DEF Next, SaveNext, RepositoryNext, Construct, ConstructError, Process,
           ProcessWriteError, ProcessZlibError, restart, restartError, CommitRefused,
           CommitWrites, CommitWriteError, CommitFlush, CommitDb, CommitDbError, Destroy,
           OpenUnchecked, OpenChecked, CheckObject, CheckEnd, Close, Crash, Damage, vars
  <1>2. saves' = saves \/ (saves' = saves + 1 /\ saves < MaxSaves)
    BY DEF Next, SaveNext, RepositoryNext, Construct, ConstructError, MayConstruct, Process,
           ProcessWriteError, ProcessZlibError, restart, restartError, CommitRefused,
           CommitWrites, CommitWriteError, CommitFlush, CommitDb, CommitDbError, Destroy,
           OpenUnchecked, OpenChecked, CheckObject, CheckEnd, Close, Crash, Damage, vars
  <1>3. saves \in Nat /\ MaxSaves \in Nat
    BY SizeAssumption DEF Shape, TypeOK
  <1> QED
    BY <1>1, <1>2, <1>3

LEMMA NextSound ==
  ASSUME ~CommitAfterError, ~FlushMayFail, ~DamageMayHappen, Sound, [Next]_vars
  PROVE  Sound'
  <1>1. Shape' /\ Written' /\ Kept'
    BY NextShape, NextWritten, NextKept DEF Sound
  <1>2. Saving' /\ Stored'
    BY NextSaving, NextStored DEF Sound
  <1>3. ~damaged' /\ saves' <= MaxSaves
    BY NextBounded DEF Sound
  <1> QED
    BY <1>1, <1>2, <1>3 DEF Sound

-----------------------------------------------------------------------------
(* What is read back from MAIN.DAT.                                        *)

\* The content of each object is the version it was made from, all of it, also
\* when an early restart() has left a hash of a part.
LEMMA ContentReadIs ==
  ASSUME Sound, NEW i \in DOMAIN files, NEW v \in Nat, Stores(i, v)
  PROVE  ContentRead(i) = FileOf(v, files[i].file_size)
  <1>1. /\ Shape /\ Stored /\ KeptObjects /\ i \in DOMAIN objects /\ saves \in Nat
    <2>1. Shape /\ Stored /\ KeptObjects
      BY DEF Sound, Kept
    <2> QED
      BY <2>1 DEF Shape, TypeOK, Stored
  <1>2. Stores(i, v)
    OBVIOUS
  <1> DEFINE o == objects[i].offset
             q == PayloadFrom(i)
             n == RowContent(i)
             z == IF Zipped(i) THEN 1 ELSE 0
             h == objects[i].hash
             w == objects[i].size
  <1>3. /\ o \in Nat /\ w \in Nat /\ End(objects[i]) = o + w /\ Read(dat, o, w) = h
    BY <1>1, RowFacts DEF KeptObjects, Shape
  <1>4. q \in Nat /\ q >= 3 /\ n \in Nat /\ n = w + 1 - q - z /\ z \in Nat
    BY <1>1, <1>2, PayloadIs DEF RowContent
  <1>5. PayloadBegin(i) = o + q - 1 /\ PayloadSize(i) = n
    <2>1. PayloadBegin(i) = o + q - 1
      BY DEF PayloadBegin
    <2>2. PayloadSize(i) = (o + w) - PayloadBegin(i) - z
      BY <1>3 DEF PayloadSize
    <2> HIDE DEF o, q, n, z, w
    <2> QED
      BY <1>3, <1>4, <2>1, <2>2
  <1>6. ASSUME NEW j \in 1 .. n PROVE dat[PayloadBegin(i) + j - 1] = h[q + j - 1]
    <2> HIDE DEF o, q, n, z, h, w
    <2>1. q + j - 1 \in 1 .. w /\ o + (q + j - 1) - 1 = PayloadBegin(i) + j - 1
      BY <1>3, <1>4, <1>5
    <2>2. \A m \in 1 .. w : h[m] = dat[o + m - 1]
      BY <1>3 DEF Read
    <2> QED
      BY <2>1, <2>2
  <1>7. files[i].file_size \in Nat
    BY <1>2, SizeAssumption DEF Stores
  <1>8. CASE ~IsDelta(i)
    <2>1. n = files[i].file_size
      BY <1>2, <1>8 DEF Stores
    <2>2. ASSUME NEW j \in 1 .. n
          PROVE  dat[PayloadBegin(i) + j - 1] = [k |-> "data", b |-> <<v, j>>, z |-> Zipped(i)]
      <3>1. h[q + j - 1] = [k |-> "data", b |-> <<v, j>>, z |-> Zipped(i)]
        BY <1>2, <1>8 DEF Stores
      <3> QED
        BY <1>6, <3>1
    <2>3. ContentRead(i) = [j \in 1 .. n |-> IF dat[PayloadBegin(i) + j - 1].k = "data"
                                            THEN dat[PayloadBegin(i) + j - 1].b ELSE Junk]
      BY <1>5, <1>8 DEF ContentRead
    <2> HIDE DEF n
    <2>4. ContentRead(i) = [j \in 1 .. n |-> <<v, j>>]
      <3>1. ASSUME NEW j \in 1 .. n
            PROVE  (IF dat[PayloadBegin(i) + j - 1].k = "data"
                    THEN dat[PayloadBegin(i) + j - 1].b ELSE Junk) = <<v, j>>
        <4> DEFINE c == dat[PayloadBegin(i) + j - 1]
        <4>1. c = [k |-> "data", b |-> <<v, j>>, z |-> Zipped(i)]
          BY <2>2
        <4> HIDE DEF c
        <4>2. c.k = "data" /\ c.b = <<v, j>>
          BY <4>1
        <4> QED
          BY <4>2 DEF c
      <3> QED
        BY <2>3, <3>1
    <2> QED
      BY <2>1, <2>4 DEF FileOf
  <1>9. CASE IsDelta(i)
    <2> DEFINE from == PayloadBegin(i)
    <2>1. n > 0
      BY <1>2, <1>9 DEF Stores
    <2>2. from \in Nat
      <3> HIDE DEF o, q
      <3> QED
        BY <1>3, <1>4, <1>5
    <2>3. ASSUME NEW p \in from .. from + n - 1 PROVE dat[p] = [k |-> "delta", v |-> v]
      <3>1. p - from + 1 \in 1 .. n /\ from + (p - from + 1) - 1 = p
        <4> HIDE DEF n, from
        <4> QED
          BY <1>4, <2>2
      <3>2. h[q + (p - from + 1) - 1] = [k |-> "delta", v |-> v]
        BY <1>2, <1>9, <3>1 DEF Stores
      <3> QED
        BY <1>6, <3>1, <3>2
    <2>4. dat[from] = [k |-> "delta", v |-> v]
      <3>1. from \in from .. from + n - 1
        <4> HIDE DEF n, from
        <4> QED
          BY <1>4, <2>1, <2>2
      <3> QED
        BY <2>3, <3>1
    <2>5. ContentRead(i) = IF \A p \in from .. from + n - 1 :
                                dat[p].k = "delta" /\ dat[p].v = dat[from].v
                           THEN FileOf(dat[from].v, files[i].file_size) ELSE << >>
      BY <1>5, <1>9 DEF ContentRead
    <2> HIDE DEF from, n
    <2> QED
      BY <2>3, <2>4, <2>5
  <1> QED
    BY <1>8, <1>9

\* The same of the next state.
ReadsBack ==
  \A i \in DOMAIN files : \A v \in Nat :
    Stores(i, v) => ContentRead(i) = FileOf(v, files[i].file_size)

LEMMA SoundReadsBack == Sound => ReadsBack
  BY ContentReadIs DEF ReadsBack

LEMMA ContentReadNext ==
  ASSUME Sound', NEW i \in DOMAIN files', NEW v \in Nat, Stores(i, v)'
  PROVE  ContentRead(i)' = FileOf(v, files'[i].file_size)
  <1>1. ReadsBack'
    BY SoundReadsBack, PTL
  <1> QED
    BY <1>1 DEF ReadsBack

\* No step changes what can be read of an object that is recorded.
LEMMA ContentStays ==
  ASSUME Sound, Sound', CommitDb \/ UNCHANGED <<objects, files>>, NEW i \in DOMAIN files
  PROVE  /\ i \in DOMAIN files' /\ files'[i] = files[i]
         /\ ContentRead(i)' = ContentRead(i)
  <1>1. /\ Shape /\ Stored /\ files \in Seq(FileRows) /\ i \in DOMAIN objects /\ saves \in Nat
    <2>1. Shape /\ Stored
      BY DEF Sound
    <2> QED
      BY <2>1 DEF Shape, TypeOK, Stored
  <1>2. PICK v \in Nat : Stores(i, v)
    BY <1>1 DEF Stored
  <1>3. Stores(i, v)'
    BY <1>1, <1>2, RowKept
  <1>4. i \in DOMAIN files' /\ files'[i] = files[i]
    <2>1. files' = files \/ files' = Append(files, FileRow)
      BY DEF CommitDb
    <2> QED
      BY <1>1, <2>1
  <1>5. ContentRead(i) = FileOf(v, files[i].file_size)
    BY <1>2, ContentReadIs
  <1>6. ContentRead(i)' = FileOf(v, files'[i].file_size)
    BY <1>3, <1>4, ContentReadNext
  <1> QED
    BY <1>4, <1>5, <1>6

\* So what is stored changes with the rows alone.
LEMMA VersionsStay ==
  ASSUME Sound, Sound', UNCHANGED <<objects, files>>
  PROVE  Versions' = Versions
  BY ContentStays DEF Versions

-----------------------------------------------------------------------------
(* Step by step.                                                           *)

\* A save begins behind every object there is.
LEMMA ConstructBegins ==
  ASSUME Sound, Sound', NEW n \in FileSizes, NEW prev \in Offsets,
         NEW psign \in BOOLEAN, NEW prob \in BOOLEAN, Construct(n, prev, psign, prob)
  PROVE  VS!Begin
  <1>1. PICK type : s' = Constructed(n, prev, psign, prob, type)
    BY DEF Construct
  <1>2. /\ s.pc = "none" /\ s'.pc = "stream" /\ s'.postition = eof /\ s'.filesize = n
        /\ objects' = objects /\ files' = files
    BY <1>1 DEF Construct, MayConstruct, Constructed, dbvars
  <1>3. Current = NoVersion
    BY <1>2 DEF Current
  <1>4. Versions' = Versions /\ Len(Versions) = Len(files)
    <2>1. Versions' = Versions
      BY <1>2, VersionsStay
    <2>2. Len(files) \in Nat /\ DOMAIN files = 1 .. Len(files)
      BY DEF Sound, Shape, TypeOK
    <2> QED
      BY <2>1, <2>2 DEF Versions
  <1>5. \A i \in DOMAIN objects : objects[i].offset # eof
    <2> TAKE i \in DOMAIN objects
    <2>1. /\ Shape /\ Stored /\ KeptObjects /\ saves \in Nat /\ synced <= eof
          /\ synced \in Nat /\ eof \in Nat
      BY DEF Sound, Kept, Shape, Geometry, TypeOK
    <2>2. PICK v \in Nat : Stores(i, v)
      BY <2>1 DEF Stored
    <2>3. /\ End(objects[i]) = objects[i].offset + objects[i].size
          /\ objects[i].offset \in Nat /\ objects[i].size \in Nat
          /\ End(objects[i]) <= synced
      BY <2>1, RowFacts DEF KeptObjects, Shape
    <2>4. objects[i].size > 0
      <3> DEFINE q == PayloadFrom(i)
                 c == RowContent(i)
                 z == IF Zipped(i) THEN 1 ELSE 0
                 w == objects[i].size
      <3>1. q \in Nat /\ q >= 3 /\ c \in Nat /\ z \in Nat /\ c = w + 1 - q - z /\ w \in Nat
        BY <2>1, <2>2, <2>3, PayloadIs DEF RowContent
      <3> HIDE DEF q, c, z, w
      <3>2. w > 0
        BY <3>1
      <3> QED
        BY <3>2 DEF w
    <2> QED
      BY <2>1, <2>3, <2>4
  <1>6. Current' = [content |-> FileOf(s'.v, n), parent |-> s'.files_pid]
    BY <1>2, <1>5 DEF Current, Recorded
  <1>7. s'.v \in 1 .. MaxSaves /\ s'.files_pid \in 0 .. Len(files)
    <2>1. Hashing' /\ Begun' /\ saves' <= MaxSaves /\ saves' \in Nat /\ MaxSaves \in Nat
      BY <1>2, SizeAssumption DEF Sound, Saving, Streamed, Shape, TypeOK
    <2>2. s'.v \in 1 .. saves' /\ s'.files_pid \in 0 .. Len(files)
      BY <1>2, <2>1 DEF Hashing, Begun
    <2> QED
      BY <2>1, <2>2
  <1>8. Current' \in [content : AllFiles, parent : 0 .. Len(Versions)]
    BY <1>4, <1>6, <1>7 DEF AllFiles
  <1> QED
    BY <1>3, <1>4, <1>8 DEF VS!Begin

\* The row that commit() inserts is the file its save was begun with.
LEMMA CommitDbStores ==
  ASSUME Sound, Sound', CommitDb
  PROVE  VS!Store
  <1>1. /\ s.pc = "flushed" /\ s'.pc = "done" /\ s'.postition = s.postition
        /\ \A i \in DOMAIN objects : objects[i].offset # s.postition
        /\ objects' = Append(objects, ObjectRow) /\ files' = Append(files, FileRow)
    BY DEF CommitDb, Sound, Shape, TypeOK, SaveStates
  <1>2. /\ Shape /\ Saving /\ Stored /\ objects \in Seq(ObjectRows) /\ files \in Seq(FileRows)
        /\ Len(objects) = Len(files)
    BY DEF Sound, Shape, TypeOK, Stored
  <1>3. Current = [content |-> FileOf(s.v, s.filesize), parent |-> s.files_pid]
    BY <1>1 DEF Current, Recorded
  <1>4. Current # NoVersion
    BY <1>3 DEF NoVersion
  <1>5. Current' = NoVersion
    <2>1. Len(objects) + 1 \in DOMAIN objects' /\ objects'[Len(objects) + 1] = ObjectRow
      BY <1>1, <1>2
    <2>2. ObjectRow.offset = s'.postition
      BY <1>1 DEF ObjectRow
    <2>3. Recorded(s.postition)'
      BY <2>1, <2>2 DEF Recorded
    <2> QED
      BY <2>3 DEF Current
  <1>6. /\ FileRow.file_size = s.filesize /\ FileRow.parent = s.files_pid
        /\ s'.v = s.v /\ s.v \in Nat
    BY <1>1, <1>2 DEF FileRow, CommitDb, Shape, TypeOK, SaveStates
  <1> PICK l \in Nat, v \in Nat : l = Len(files) + 1 /\ v = s.v
    BY <1>2, <1>6
  <1>7. /\ files' \in Seq(FileRows) /\ l \in DOMAIN files' /\ files'[l] = FileRow
        /\ DOMAIN files' = DOMAIN files \cup {l} /\ l \notin DOMAIN files
    <2>1. files' \in Seq(FileRows)
      BY DEF Sound, Shape, TypeOK
    <2> QED
      BY <1>1, <1>2, <2>1
  <1>8. ContentRead(l)' = FileOf(v, s.filesize)
    <2>1. Stores(l, s.v)'
      BY <1>2, NewRowStores
    <2>2. Stores(l, v)'
      BY <1>6, <2>1 DEF Stores
    <2> QED
      BY <1>6, <1>7, <2>2, ContentReadNext
  <1>9. \A i \in DOMAIN files : files'[i] = files[i] /\ ContentRead(i)' = ContentRead(i)
    BY ContentStays
  <1>10. Versions' = Append(Versions, Current)
    <2> DEFINE ver(i) == [content |-> ContentRead(i), parent |-> files[i].parent]
    <2>1. Versions = [i \in DOMAIN files |-> ver(i)]
      BY DEF Versions
    <2>2. Versions' = [i \in DOMAIN files' |-> ver(i)']
      BY DEF Versions
    <2>3. Current = ver(l)'
      BY <1>3, <1>6, <1>7, <1>8
    <2>4. \A i \in DOMAIN files : ver(i)' = ver(i)
      BY <1>9
    <2> HIDE DEF ver
    <2> QED
      BY <1>2, <1>7, <2>1, <2>2, <2>3, <2>4
  <1> QED
    BY <1>4, <1>5, <1>10 DEF VS!Store

\* A save that is given up, by ~filesave or by a crash, leaves no version; one
\* that has been committed is one already.
LEMMA EndAborts ==
  ASSUME Sound, Sound', s' = NoSave, UNCHANGED <<objects, files>>
  PROVE  VS!Abort \/ UNCHANGED VS!vars
  <1>1. Current' = NoVersion
    BY NoSaveType DEF Current
  <1> QED
    BY <1>1, VersionsStay DEF VS!Abort, VS!vars

\* The steps of a save between its constructor and its end.
LEMMA SaveStays ==
  ASSUME Sound, Sound', UNCHANGED <<objects, files>>,
         \/ s' = s
         \/ /\ s.pc # "none" /\ s'.pc # "none" /\ s'.v = s.v /\ s'.filesize = s.filesize
            /\ s'.postition = s.postition /\ s'.files_pid = s.files_pid
  PROVE  UNCHANGED VS!vars
  <1>1. Current' = Current
    BY DEF Current, Recorded
  <1> QED
    BY <1>1, VersionsStay DEF VS!vars

LEMMA SameSave ==
  ASSUME Shape,
         \/ \E k \in Chunks, e \in 0 .. MaxEmit :
              Process(k, e) \/ ProcessWriteError(k, e) \/ ProcessZlibError(k, e)
         \/ restart \/ restartError
         \/ CommitRefused \/ CommitWrites \/ CommitWriteError \/ CommitFlush \/ CommitDbError
  PROVE  /\ s.pc # "none" /\ s'.pc # "none" /\ s'.v = s.v /\ s'.filesize = s.filesize
         /\ s'.postition = s.postition /\ s'.files_pid = s.files_pid
         /\ UNCHANGED <<objects, files>>
  <1>1. s \in SaveStates
    BY DEF Shape, TypeOK
  <1>2. CASE \E k \in Chunks, e \in 0 .. MaxEmit :
               Process(k, e) \/ ProcessWriteError(k, e) \/ ProcessZlibError(k, e)
    <2> PICK k \in Chunks, e \in 0 .. MaxEmit :
               Process(k, e) \/ ProcessWriteError(k, e) \/ ProcessZlibError(k, e)
      BY <1>2
    <2>1. MayProcess(k, e)
      BY DEF Process, ProcessWriteError, ProcessZlibError
    <2>2. s.pc # "none"
      BY <2>1 DEF MayProcess, Going
    <2>3. CASE Process(k, e)
      BY <1>1, <2>2, <2>3 DEF Process, SaveStates, dbvars
    <2>4. CASE ProcessWriteError(k, e) \/ ProcessZlibError(k, e)
      BY <1>1, <2>2, <2>4 DEF ProcessWriteError, ProcessZlibError, SaveStates, dbvars
    <2> QED
      BY <2>3, <2>4
  <1>3. CASE restart \/ restartError
    <2>1. s.pc # "none"
      BY <1>3 DEF restart, restartError, MayRestart, Going
    <2>2. s' = Restarted \/ s' = [Restarted EXCEPT !.pc = "failed"]
      BY <1>3 DEF restart, restartError
    <2>3. /\ s'.pc \in {s.pc, "failed"} /\ s'.v = s.v /\ s'.filesize = s.filesize
          /\ s'.postition = s.postition /\ s'.files_pid = s.files_pid
      <3>1. /\ Restarted.pc = s.pc /\ Restarted.v = s.v /\ Restarted.filesize = s.filesize
            /\ Restarted.postition = s.postition /\ Restarted.files_pid = s.files_pid
            /\ Restarted \in SaveStates
        BY <1>1 DEF Restarted, SaveStates
      <3>2. CASE s' = Restarted
        BY <3>1, <3>2
      <3>3. CASE s' = [Restarted EXCEPT !.pc = "failed"]
        BY <3>1, <3>3 DEF SaveStates
      <3> QED
        BY <2>2, <3>2, <3>3
    <2> QED
      BY <1>3, <2>1, <2>3 DEF restart, restartError, dbvars
  <1>4. CASE CommitRefused \/ CommitWrites \/ CommitWriteError \/ CommitFlush \/ CommitDbError
    <2>1. s.pc # "none"
      BY <1>4 DEF CommitRefused, CommitWrites, CommitWriteError, CommitFlush,
                  CommitDbError, Going
    <2>2. CASE CommitRefused
      BY <1>1, <2>1, <2>2 DEF CommitRefused, SaveStates, dbvars
    <2>3. CASE CommitWrites
      BY <1>1, <2>1, <2>3 DEF CommitWrites, SaveStates, dbvars
    <2>4. CASE CommitWriteError
      BY <1>1, <2>1, <2>4 DEF CommitWriteError, SaveStates, dbvars
    <2>5. CASE CommitFlush
      BY <1>1, <2>1, <2>5 DEF CommitFlush, SaveStates, dbvars
    <2>6. CASE CommitDbError
      BY <1>1, <2>1, <2>6 DEF CommitDbError, SaveStates, dbvars
    <2> QED
      BY <1>4, <2>2, <2>3, <2>4, <2>5, <2>6
  <1> QED
    BY <1>2, <1>3, <1>4

LEMMA StepSimulates ==
  ASSUME Sound, Sound', [Next]_vars
  PROVE  VS!Next \/ UNCHANGED VS!vars
  <1>1. ASSUME NEW n \in FileSizes, NEW prev \in Offsets, NEW psign \in BOOLEAN,
               NEW prob \in BOOLEAN, Construct(n, prev, psign, prob)
        PROVE  VS!Next
    BY <1>1, ConstructBegins DEF VS!Next
  <1>2. CASE CommitDb
    BY <1>2, CommitDbStores DEF VS!Next
  <1>3. CASE Destroy \/ Crash
    BY <1>3, EndAborts DEF VS!Next, Destroy, Crash, dbvars
  <1>4. CASE \/ \E k \in Chunks, e \in 0 .. MaxEmit :
                  Process(k, e) \/ ProcessWriteError(k, e) \/ ProcessZlibError(k, e)
             \/ restart \/ restartError
             \/ CommitRefused \/ CommitWrites \/ CommitWriteError \/ CommitFlush \/ CommitDbError
    <2>1. Shape
      BY DEF Sound
    <2> QED
      BY <1>4, <2>1, SameSave, SaveStays
  <1>5. CASE \/ \E prev \in Offsets : ConstructError(prev)
             \/ \E ro \in BOOLEAN : OpenUnchecked(ro) \/ OpenChecked(ro)
             \/ CheckObject \/ CheckEnd \/ Close \/ Damage \/ UNCHANGED vars
    <2>1. s' = s /\ UNCHANGED <<objects, files>>
      BY <1>5 DEF ConstructError, OpenUnchecked, OpenChecked, CheckObject, CheckEnd, Close,
                  Damage, vars, dbvars
    <2> QED
      BY <2>1, SaveStays
  <1> QED
    BY <1>1, <1>2, <1>3, <1>4, <1>5 DEF Next, SaveNext, RepositoryNext

\* Seen from outside, SVS is a log of versions: a save is begun with a file and
\* its predecessor, and ends either as one new entry, which is that file, or
\* without a trace.  Buffers, deltas, the second pass, failed writes, checked
\* and unchecked openings and crashes all stay inside.
THEOREM VersionsAreStored ==
  ASSUME ~CommitAfterError, ~FlushMayFail, ~DamageMayHappen
  PROVE  Spec => StoresVersions
  <1>1. Init => Sound
    BY InitSound
  <1>2. Sound /\ [Next]_vars => Sound'
    BY NextSound
  <1>3. Init => VS!Init
    <2> SUFFICES ASSUME Init PROVE Versions = << >> /\ Current = NoVersion
      BY DEF VS!Init
    <2>1. files = << >> /\ s.pc = "none"
      BY NoSaveType DEF Init
    <2> QED
      BY <2>1 DEF Versions, Current
  <1>4. Sound /\ Sound' /\ [Next]_vars => [VS!Next]_(VS!vars)
    BY StepSimulates
  <1> QED
    BY <1>1, <1>2, <1>3, <1>4, PTL DEF Spec, StoresVersions, VS!Spec

=============================================================================
