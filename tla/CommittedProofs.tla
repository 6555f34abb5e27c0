---------------------------- MODULE CommittedProofs ----------------------------
(***************************************************************************)
(* What commit() has recorded stays in MAIN.DAT: a proof of                *)
(* CommittedIntact for every size, configuration and sequence of failures  *)
(* and crashes, provided that a flush is a flush (~FlushMayFail) and that  *)
(* callers abandon a save with its first error (~CommitAfterError).        *)
(***************************************************************************)
EXTENDS FileSaveProofs

-----------------------------------------------------------------------------
(* The inductive invariant.  CommittedIntact by itself says nothing of     *)
(* where the next write goes, what a crash spares and what a second        *)
(* commit() of the same object would write.                                *)

\* Committed objects lie below what is on the disk for good, and below the
\* size that a checked opening truncates MAIN.DAT to.
KeptObjects ==
  \A i \in DOMAIN objects :
    /\ End(objects[i]) <= synced /\ End(objects[i]) <= recorded
    /\ Read(dat, objects[i].offset, objects[i].size) = objects[i].hash

\* What commit() writes in front of the data is there already
InPlace ==
  /\ dat[s.postition] = Header(eof)
  /\ s.write_signature =>
       \A j \in 1 .. Len(Signature) : dat[s.postition + 1 + j] = Signature[j]

Written == s.pc \in {"written", "flushed", "done"} => InPlace

KeptSave ==
  /\ s.pc = "stream" => \A i \in DOMAIN objects : End(objects[i]) <= s.postition
  /\ s.pc = "flushed" => synced = eof

Kept == ~damaged => KeptObjects /\ KeptSave

-----------------------------------------------------------------------------
(* What a write leaves alone.                                              *)

LEMMA PutBelow ==
  ASSUME NEW d \in [0 .. Capacity - 1 -> Cells], NEW q \in Nat, NEW c,
         NEW p \in 0 .. Capacity - 1, p < q
  PROVE  Put(d, q, c)[p] = d[p]
  BY SizeAssumption DEF Put

LEMMA PutAt ==
  ASSUME NEW d \in [0 .. Capacity - 1 -> Cells], NEW q \in Nat, NEW c \in Seq(Cells),
         NEW j \in 1 .. Len(c), q + j - 1 <= Capacity - 1
  PROVE  Put(d, q, c)[q + j - 1] = c[j]
  <1>1. q + j - 1 \in 0 .. Capacity - 1 /\ Len(c) \in Nat
    BY SizeAssumption
  <1>2. q <= q + j - 1 /\ q + j - 1 < q + Len(c) /\ (q + j - 1) - q + 1 = j
    BY <1>1
  <1> QED
    BY <1>1, <1>2 DEF Put

LEMMA PutNothing ==
  ASSUME NEW d \in [0 .. Capacity - 1 -> Cells], NEW q \in Nat
  PROVE  Put(d, q, << >>) = d
  BY SizeAssumption DEF Put

LEMMA CutBelow ==
  ASSUME NEW d \in [0 .. Capacity - 1 -> Cells], NEW z, NEW p \in 0 .. Capacity - 1, p < z
  PROVE  Cut(d, z)[p] = d[p]
  BY SizeAssumption DEF Cut

\* Reading depends on the cells read.
LEMMA ReadSame ==
  ASSUME NEW d, NEW e, NEW q \in Nat, NEW n \in Nat,
         \A p \in Nat : q <= p /\ p < q + n => d[p] = e[p]
  PROVE  Read(d, q, n) = Read(e, q, n)
  <1>1. \A j \in 1 .. n : d[q + j - 1] = e[q + j - 1]
    <2> TAKE j \in 1 .. n
    <2>1. q + j - 1 \in Nat /\ q <= q + j - 1 /\ q + j - 1 < q + n
      OBVIOUS
    <2> QED
      BY <2>1
  <1> QED
    BY <1>1 DEF Read

\* The rows of objects, and where their objects end.
LEMMA RowFacts ==
  ASSUME TypeOK
  PROVE  \A i \in DOMAIN objects :
           /\ objects[i].offset \in Nat /\ objects[i].size \in Nat
           /\ End(objects[i]) \in Nat
           /\ End(objects[i]) = objects[i].offset + objects[i].size
  <1> TAKE i \in DOMAIN objects
  <1>1. objects[i] \in ObjectRows
    BY DEF TypeOK
  <1>2. objects[i].offset \in Nat /\ objects[i].size \in Nat
    BY <1>1, SizeAssumption DEF ObjectRows
  <1> QED
    BY <1>2 DEF End

\* A step that changes no cell below z keeps the objects that end there.
LEMMA KeepBelow ==
  ASSUME Shape, KeptObjects, UNCHANGED <<objects, recorded>>, NEW z \in 0 .. Capacity,
         \A i \in DOMAIN objects : End(objects[i]) <= z,
         z <= synced', synced' \in Nat,
         \A p \in 0 .. Capacity - 1 : p < z => dat'[p] = dat[p]
  PROVE  KeptObjects'
  <1> SUFFICES ASSUME NEW i \in DOMAIN objects
               PROVE  /\ End(objects[i]) <= synced' /\ End(objects[i]) <= recorded
                      /\ Read(dat', objects[i].offset, objects[i].size) = objects[i].hash
    BY DEF KeptObjects
  <1> DEFINE o == objects[i]
             q == objects[i].offset
             n == objects[i].size
  <1>1. /\ End(o) <= z /\ End(o) <= recorded /\ Read(dat, q, n) = o.hash
        /\ q \in Nat /\ n \in Nat /\ End(o) \in Nat /\ End(o) = q + n
    BY RowFacts DEF KeptObjects, Shape
  <1> HIDE DEF o, q, n
  <1>2. End(o) <= synced'
    BY <1>1, SizeAssumption
  <1>3. \A p \in Nat : q <= p /\ p < q + n => dat'[p] = dat[p]
    <2> SUFFICES ASSUME NEW p \in Nat, q <= p, p < q + n PROVE dat'[p] = dat[p]
      OBVIOUS
    <2>1. p < z /\ p \in 0 .. Capacity - 1
      BY <1>1, SizeAssumption
    <2> QED
      BY <2>1
  <1>4. Read(dat', q, n) = Read(dat, q, n)
    <2>1. q \in Nat /\ n \in Nat
      BY <1>1
    <2> QED
      BY <1>3, <2>1, ReadSame
  <1> QED
    BY <1>1, <1>2, <1>4 DEF o, q, n

\* In particular a step that changes nothing below the flushed part.
LEMMA KeepSynced ==
  ASSUME Shape, KeptObjects, UNCHANGED <<objects, recorded>>,
         synced <= synced', synced' \in Nat,
         \A p \in 0 .. Capacity - 1 : p < synced => dat'[p] = dat[p]
  PROVE  KeptObjects'
  <1>1. synced \in 0 .. Capacity
    BY DEF Shape, TypeOK
  <1>2. \A i \in DOMAIN objects : End(objects[i]) <= synced
    BY DEF KeptObjects
  <1> QED
    BY <1>1, <1>2, KeepBelow

\* A file pointer at the end of MAIN.DAT: writing there changes nothing that
\* is flushed.
LEMMA WriteKeeps ==
  ASSUME Shape, KeptObjects, UNCHANGED <<objects, recorded>>,
         NEW c \in Seq(Cells), WriteFile(c), ptr = eof
  PROVE  KeptObjects'
  <1>1. synced <= eof /\ synced \in 0 .. Capacity /\ eof \in Nat /\ synced' = synced
        /\ dat \in [0 .. Capacity - 1 -> Cells]
    BY DEF Shape, TypeOK, Geometry, WriteFile
  <1>2. dat' = Put(dat, eof, c)
    BY DEF WriteFile
  <1>3. \A p \in 0 .. Capacity - 1 : p < synced => dat'[p] = dat[p]
    <2> TAKE p \in 0 .. Capacity - 1
    <2>1. p < synced => p < eof
      BY <1>1, SizeAssumption
    <2> QED
      BY <1>1, <1>2, <2>1, PutBelow
  <1> QED
    BY <1>1, <1>3, KeepSynced

-----------------------------------------------------------------------------
(* What commit() writes in front of the data, and that it stays there      *)
(* while the filesave object lives, damage or not.                         *)

\* A process() call behind a commit() has nothing left to write.
LEMMA ProcessDone ==
  ASSUME Shape, ~CommitAfterError, NEW k \in Chunks, NEW e \in 0 .. MaxEmit,
         Process(k, e), s'.pc = "done"
  PROVE  /\ s.pc = "done" /\ k = 0
         /\ dat' = dat /\ eof' = eof /\ ptr' = ptr /\ synced' = synced
         /\ s'.hashed = s.hashed
  <1>1. s.pc = "done"
    BY DEF Process, MayProcess, Going, Shape, TypeOK, SaveStates
  <1>2. s.bytespassed = s.filesize /\ s.zs \in {"off", "freed"} /\ ptr = eof
    BY <1>1 DEF Shape, Geometry
  <1>3. k = 0
    <2>1. s'.bytespassed = s.bytespassed + k /\ s'.filesize = s.filesize
      BY DEF Process, Shape, TypeOK, SaveStates
    <2>2. s'.bytespassed = s.bytespassed
      <3>1. ~(s.bytespassed + k > s.filesize)
        BY DEF Process, Shape, TypeOK, SaveStates
      <3> QED
        BY <1>2, <2>1, <3>1, SizeAssumption DEF Shape, TypeOK, SaveStates
    <2> QED
      BY <2>1, <2>2, SizeAssumption DEF Shape, TypeOK, SaveStates
  <1>4. ProcessCells(k, e) = << >>
    <2>1. Finish = << >>
      BY <1>2 DEF Finish
    <2>2. BufferCells(k, e) = << >>
      BY <1>3 DEF BufferCells, Process, MayProcess
    <2> QED
      BY <2>1, <2>2 DEF ProcessCells
  <1>5. dat' = dat /\ eof' = eof /\ ptr' = ptr /\ synced' = synced
    <2>1. dat \in [0 .. Capacity - 1 -> Cells] /\ ptr \in Nat /\ eof \in Nat
      BY DEF Shape, TypeOK
    <2>2. /\ dat' = Put(dat, ptr, << >>) /\ eof' = Max2(eof, ptr + Len(<< >>))
          /\ ptr' = ptr + Len(<< >>) /\ synced' = synced
      BY <1>4 DEF Process, WriteFile
    <2> QED
      BY <1>2, <2>1, <2>2, PutNothing DEF Max2
  <1>6. s'.hashed = s.hashed
    <2>1. Chunk(k) = << >> /\ s.hashed \in Seq(Bytes)
      BY <1>3 DEF Chunk, Shape, TypeOK, SaveStates
    <2>2. s'.hashed = HashedAfter(k)
      BY DEF Process, Shape, TypeOK, SaveStates
    <2> QED
      BY <2>1, <2>2 DEF HashedAfter
  <1> QED
    BY <1>1, <1>3, <1>5, <1>6

\* commit() writes its header, and the signature, over its own object.
LEMMA CommitWritesCells ==
  ASSUME Shape, ~CommitAfterError, CommitWrites
  PROVE  /\ eof' = eof /\ synced' = synced
         /\ dat'[s.postition] = Header(eof)
         /\ s.write_signature =>
              \A j \in 1 .. Len(Signature) : dat'[s.postition + 1 + j] = Signature[j]
         /\ \A p \in 0 .. Capacity - 1 :
              /\ p < eof /\ p # s.postition
              /\ ~(/\ s.write_signature /\ p >= s.postition + 2
                   /\ p < s.postition + 2 + Len(Signature))
              => dat'[p] = dat[p]
  <1> DEFINE cut    == Cut(dat, ptr)
             headed == Put(cut, s.postition, <<Header(ptr)>>)
  <1>1. s.pc \in Going /\ s.bytespassed >= s.filesize
    BY DEF CommitWrites
  <1>2. /\ s.pc \in {"stream", "done"} /\ ptr = eof /\ eof \in 0 .. Capacity
        /\ synced <= eof /\ synced \in 0 .. Capacity
        /\ s.postition \in Nat /\ s.postition + 2 <= eof
        /\ Signature \in Seq(Cells) /\ Len(Signature) \in Nat
        /\ s.write_signature => s.postition + 2 + Len(Signature) <= eof
    <2>1. /\ s.postition + 2 <= s.data_begin /\ s.data_begin <= eof /\ s.data_begin \in Nat
          /\ eof \in 0 .. Capacity /\ s.postition \in Nat /\ Len(Signature) \in Nat
          /\ s.write_signature => s.postition + 2 + Len(Signature) <= s.data_begin
      BY <1>1, CommitFacts
    <2>2. s.write_signature => s.postition + 2 + Len(Signature) <= eof
      BY <2>1, SizeAssumption
    <2> QED
      BY <1>1, <2>1, <2>2, CommitFacts
  <1>3. eof' = eof /\ synced' = synced
    <2>1. synced' = Min2(synced, ptr)
      BY DEF CommitWrites
    <2>2. /\ eof' = Max2(ptr, ptr')
          /\ ptr' = IF s.write_signature THEN s.postition + 2 + Len(Signature)
                                         ELSE s.postition + 1
      BY DEF CommitWrites
    <2>3. ptr' \in Nat /\ ptr' <= eof /\ eof \in Nat
      BY <1>2, <2>2, SizeAssumption
    <2>4. eof' = eof
      BY <1>2, <2>2, <2>3 DEF Max2
    <2>5. synced' = synced
      BY <1>2, <2>1, SizeAssumption DEF Min2
    <2> QED
      BY <2>4, <2>5
  <1>4. dat' = IF s.write_signature THEN Put(headed, s.postition + 2, Signature) ELSE headed
    BY DEF CommitWrites, WithHeader
  <1>5. /\ dat \in [0 .. Capacity - 1 -> Cells] /\ cut \in [0 .. Capacity - 1 -> Cells]
        /\ headed \in [0 .. Capacity - 1 -> Cells] /\ <<Header(ptr)>> \in Seq(Cells)
    <2>1. dat \in [0 .. Capacity - 1 -> Cells] /\ cut \in [0 .. Capacity - 1 -> Cells]
      BY CutType DEF Shape, TypeOK
    <2>2. <<Header(ptr)>> \in Seq(Cells)
      <3>1. ptr \in Int
        BY <1>2
      <3> QED
        BY <3>1, HeaderType DEF Shape
    <2> HIDE DEF cut
    <2> QED
      BY <1>2, <2>1, <2>2, PutType
  <1>6. dat'[s.postition] = Header(eof)
    <2>1. s.postition \in 0 .. Capacity - 1 /\ s.postition < s.postition + 2
          /\ s.postition + 2 \in Nat /\ s.postition + 1 - 1 = s.postition
      BY <1>2, SizeAssumption
    <2>2. headed[s.postition] = Header(ptr)
      <3>1. 1 \in 1 .. Len(<<Header(ptr)>>) /\ <<Header(ptr)>>[1] = Header(ptr)
        OBVIOUS
      <3>2. s.postition + 1 - 1 <= Capacity - 1
        BY <2>1, SizeAssumption
      <3> HIDE DEF cut
      <3>3. Put(cut, s.postition, <<Header(ptr)>>)[s.postition + 1 - 1] = <<Header(ptr)>>[1]
        BY <1>2, <1>5, <3>1, <3>2, PutAt
      <3> QED
        BY <2>1, <3>1, <3>3
    <2> HIDE DEF headed
    <2>3. Put(headed, s.postition + 2, Signature)[s.postition] = headed[s.postition]
      <3> DEFINE p == s.postition
                 q == s.postition + 2
      <3>1. p \in 0 .. Capacity - 1 /\ q \in Nat /\ p < q
        BY <2>1
      <3> HIDE DEF p, q
      <3>2. Put(headed, q, Signature)[p] = headed[p]
        BY <1>5, <3>1, PutBelow
      <3> QED
        BY <3>2 DEF p, q
    <2> QED
      BY <1>2, <1>4, <2>2, <2>3
  <1>7. ASSUME s.write_signature, NEW j \in 1 .. Len(Signature)
        PROVE  dat'[s.postition + 1 + j] = Signature[j]
    <2> HIDE DEF headed
    <2>1. (s.postition + 2) + j - 1 = s.postition + 1 + j
          /\ (s.postition + 2) + j - 1 <= Capacity - 1 /\ s.postition + 2 \in Nat
      <3> DEFINE l == Len(Signature)
                 q == s.postition
      <3>1. j \in 1 .. l /\ l \in Nat /\ q \in Nat /\ q + 2 + l <= eof /\ eof \in 0 .. Capacity
        BY <1>2, <1>7
      <3> HIDE DEF l, q
      <3>2. (q + 2) + j - 1 = q + 1 + j /\ (q + 2) + j - 1 <= Capacity - 1 /\ q + 2 \in Nat
        BY <3>1, SizeAssumption
      <3> QED
        BY <3>2 DEF q
    <2>2. Put(headed, s.postition + 2, Signature)[(s.postition + 2) + j - 1] = Signature[j]
      BY <1>2, <1>5, <2>1, PutAt
    <2> QED
      BY <1>4, <1>7, <2>1, <2>2
  <1>8. ASSUME NEW p \in 0 .. Capacity - 1, p < eof, p # s.postition,
               ~(/\ s.write_signature /\ p >= s.postition + 2
                 /\ p < s.postition + 2 + Len(Signature))
        PROVE  dat'[p] = dat[p]
    <2>1. p < ptr
      BY <1>2, <1>8
    <2>2. cut[p] = dat[p]
      BY <1>5, <2>1, CutBelow
    <2> HIDE DEF cut
    <2>3. headed[p] = cut[p]
      BY <1>2, <1>5, <1>8, SizeAssumption DEF headed, Put
    <2> HIDE DEF headed
    <2>4. s.write_signature => Put(headed, s.postition + 2, Signature)[p] = headed[p]
      BY <1>2, <1>5, <1>8, SizeAssumption DEF Put
    <2> QED
      BY <1>4, <2>2, <2>3, <2>4
  <1> HIDE DEF cut, headed
  <1> QED
    BY <1>3, <1>6, <1>7, <1>8

\* The fields of the save that header and signature are made of.
LEMMA SameInPlace ==
  ASSUME InPlace, dat' = dat, eof' = eof, s'.postition = s.postition,
         s'.raw_file = s.raw_file, s'.use_zlib = s.use_zlib,
         s'.write_signature = s.write_signature, s'.filesize = s.filesize,
         s'.hashed = s.hashed
  PROVE  InPlace'
  <1>1. Header(eof)' = Header(eof) /\ Signature' = Signature
    BY DEF Header, Flags, Signature
  <1> QED
    BY <1>1 DEF InPlace

\* Only five kinds of steps lead to, or stay at, a save that is streamed,
\* written, flushed or committed.
LEMMA OtherSteps ==
  ASSUME Shape,
         \/ \E prev \in Offsets : ConstructError(prev)
         \/ \E k \in Chunks, e \in 0 .. MaxEmit :
              ProcessWriteError(k, e) \/ ProcessZlibError(k, e)
         \/ restart \/ restartError \/ CommitRefused \/ CommitWriteError
         \/ CommitDbError \/ Destroy \/ RepositoryNext
  PROVE  s'.pc \in {"none", "failed", "broken"} \/ restart
  <1>1. CASE RepositoryNext
    <2>1. CASE Crash
      BY <2>1, NoSaveType DEF Crash
    <2>2. CASE ~Crash
      BY <1>1, <2>2 DEF RepositoryNext, OpenUnchecked, OpenChecked, CheckObject, CheckEnd,
                        Close, Damage, Shape, Geometry
    <2> QED
      BY <2>1, <2>2
  <1>2. CASE Destroy
    BY <1>2, NoSaveType DEF Destroy
  <1>3. CASE \E prev \in Offsets : ConstructError(prev)
    BY <1>3 DEF ConstructError, MayConstruct
  <1>4. CASE restart
    BY <1>4
  <1>5. CASE restartError
    BY <1>5 DEF restartError, Restarted, Shape, TypeOK, SaveStates
  <1>6. CASE \/ \E k \in Chunks, e \in 0 .. MaxEmit :
                  ProcessWriteError(k, e) \/ ProcessZlibError(k, e)
             \/ CommitRefused \/ CommitWriteError \/ CommitDbError
    BY <1>6 DEF ProcessWriteError, ProcessZlibError, CommitRefused, CommitWriteError,
                CommitDbError, Shape, TypeOK, SaveStates
  <1> QED
    BY <1>1, <1>2, <1>3, <1>4, <1>5, <1>6

\* What commit() writes in front of the data is there from then on, also when
\* it is called twice.
LEMMA NextWritten ==
  ASSUME ~CommitAfterError, Shape, Written, [Next]_vars
  PROVE  Written'
  <1> SUFFICES ASSUME s'.pc \in {"written", "flushed", "done"} PROVE InPlace'
    BY DEF Written
  <1>1. CASE CommitWrites
    <2>1. /\ s'.postition = s.postition /\ s'.raw_file = s.raw_file
          /\ s'.use_zlib = s.use_zlib /\ s'.write_signature = s.write_signature
          /\ s'.filesize = s.filesize /\ s'.hashed = s.hashed
      BY <1>1 DEF CommitWrites, Shape, TypeOK, SaveStates
    <2>2. eof' = eof
      BY <1>1, CommitWritesCells
    <2>3. Header(eof)' = Header(eof) /\ Signature' = Signature
      BY <2>1, <2>2 DEF Header, Flags, Signature
    <2> QED
      BY <1>1, <2>1, <2>3, CommitWritesCells DEF InPlace
  <1>2. CASE CommitFlush \/ CommitDb
    <2>1. InPlace
      BY <1>2 DEF Written, CommitFlush, CommitDb
    <2> QED
      BY <1>2, <2>1, SameInPlace DEF CommitFlush, CommitDb, Shape, TypeOK, SaveStates
  <1>3. CASE \E k \in Chunks, e \in 0 .. MaxEmit : Process(k, e)
    <2> PICK k \in Chunks, e \in 0 .. MaxEmit : Process(k, e)
      BY <1>3
    <2>1. /\ s'.pc \in {s.pc, "failed"} /\ s.pc \in {"stream", "done"}
          /\ s'.postition = s.postition /\ s'.raw_file = s.raw_file
          /\ s'.use_zlib = s.use_zlib /\ s'.write_signature = s.write_signature
          /\ s'.filesize = s.filesize
      BY DEF Process, MayProcess, Going, Shape, TypeOK, SaveStates
    <2>2. s'.pc = "done" /\ InPlace
      BY <2>1 DEF Written
    <2> QED
      BY <2>1, <2>2, ProcessDone, SameInPlace
  <1>4. CASE UNCHANGED vars
    <2>1. InPlace /\ dat' = dat /\ eof' = eof /\ s' = s
      BY <1>4 DEF Written, vars, datvars
    <2> QED
      BY <2>1, SameInPlace
  <1>5. ASSUME NEW n \in FileSizes, NEW prev \in Offsets, NEW psign \in BOOLEAN,
               NEW prob \in BOOLEAN, Construct(n, prev, psign, prob)
        PROVE  FALSE
    BY <1>5 DEF Construct, Constructed
  <1>6. CASE \/ \E prev \in Offsets : ConstructError(prev)
             \/ \E k \in Chunks, e \in 0 .. MaxEmit :
                  ProcessWriteError(k, e) \/ ProcessZlibError(k, e)
             \/ restart \/ restartError \/ CommitRefused \/ CommitWriteError
             \/ CommitDbError \/ Destroy \/ RepositoryNext
    <2>1. restart => s'.pc = "stream"
      BY DEF restart, MayRestart, Going, Restarted, Shape, TypeOK, SaveStates
    <2> QED
      BY <1>6, <2>1, OtherSteps
  <1> QED
    BY <1>1, <1>2, <1>3, <1>4, <1>5, <1>6 DEF Next, SaveNext

-----------------------------------------------------------------------------
(* One lemma per kind of step.                                             *)

\* With no save under way there is nothing to say about one.
LEMMA IdleKept ==
  ASSUME s'.pc \in {"none", "failed", "broken"}, KeptObjects'
  PROVE  Kept'
  BY DEF Kept, KeptSave

\* What an undamaged successor says of the state before it.
LEMMA Undamaged ==
  ASSUME Shape, Kept, ~damaged
  PROVE  KeptObjects /\ KeptSave
  BY DEF Kept

LEMMA ConstructKept ==
  ASSUME Shape, Shape', Kept, ~damaged, NEW n \in FileSizes, NEW prev \in Offsets,
         NEW psign \in BOOLEAN, NEW prob \in BOOLEAN, Construct(n, prev, psign, prob)
  PROVE  Kept'
  <1>1. KeptObjects /\ UNCHANGED <<objects, recorded, synced>>
    BY Undamaged DEF Construct, dbvars
  <1>2. synced <= eof /\ synced \in 0 .. Capacity /\ eof \in Nat
        /\ dat \in [0 .. Capacity - 1 -> Cells]
    BY DEF Shape, TypeOK, Geometry
  <1>3. dat' = Put(dat, eof, HeaderWords(prev))
    BY DEF Construct
  <1>4. \A p \in 0 .. Capacity - 1 : p < synced => dat'[p] = dat[p]
    <2> TAKE p \in 0 .. Capacity - 1
    <2>1. p < synced => p < eof
      BY <1>2, SizeAssumption
    <2> QED
      BY <1>2, <1>3, <2>1, PutBelow
  <1>5. KeptObjects'
    BY <1>1, <1>2, <1>4, KeepSynced
  <1>6. s'.pc = "stream" /\ s'.postition = eof
    <2>1. PICK type : s' = Constructed(n, prev, psign, prob, type)
      BY DEF Construct
    <2> QED
      BY <2>1 DEF Constructed
  <1>7. \A i \in DOMAIN objects : End(objects[i]) <= eof
    <2> TAKE i \in DOMAIN objects
    <2>1. End(objects[i]) <= synced /\ End(objects[i]) \in Nat
      BY <1>1, RowFacts DEF KeptObjects, Shape
    <2> QED
      BY <1>2, <2>1, SizeAssumption
  <1>8. KeptSave'
    BY <1>1, <1>6, <1>7 DEF KeptSave, End
  <1> QED
    BY <1>5, <1>8 DEF Kept

LEMMA ConstructErrorKept ==
  ASSUME Shape, Shape', Kept, ~damaged, NEW prev \in Offsets, ConstructError(prev)
  PROVE  Kept'
  <1>1. KeptObjects /\ UNCHANGED <<objects, recorded, synced>> /\ s'.pc = "none"
    BY Undamaged DEF ConstructError, MayConstruct, dbvars
  <1>2. synced <= eof /\ synced \in 0 .. Capacity /\ eof \in Nat
        /\ dat \in [0 .. Capacity - 1 -> Cells]
    BY DEF Shape, TypeOK, Geometry
  <1>3. PICK c : dat' = Put(dat, eof, c)
    BY DEF ConstructError
  <1>4. \A p \in 0 .. Capacity - 1 : p < synced => dat'[p] = dat[p]
    <2> TAKE p \in 0 .. Capacity - 1
    <2>1. p < synced => p < eof
      BY <1>2, SizeAssumption
    <2> QED
      BY <1>2, <1>3, <2>1, PutBelow
  <1> QED
    BY <1>1, <1>2, <1>4, KeepSynced, IdleKept

\* process() appends to MAIN.DAT.
LEMMA ProcessKept ==
  ASSUME Shape, Shape', Kept, ~damaged, ~CommitAfterError,
         NEW k \in Chunks, NEW e \in 0 .. MaxEmit, Process(k, e)
  PROVE  Kept'
  <1> DEFINE c == ProcessCells(k, e)
  <1>1. /\ KeptObjects /\ KeptSave /\ UNCHANGED <<objects, recorded, damaged>>
        /\ c \in Seq(Cells) /\ WriteFile(c) /\ s.pc \in {"stream", "done"}
    BY Undamaged, ProcessCellsType DEF Process, MayProcess, Going, dbvars, Shape
  <1>2. ptr = eof
    BY <1>1 DEF Shape, Geometry
  <1>3. KeptObjects'
    BY <1>1, <1>2, WriteKeeps
  <1>4. s'.pc \in {s.pc, "failed"} /\ s'.postition = s.postition
    BY DEF Process, Shape, TypeOK, SaveStates
  <1>5. CASE s'.pc = "failed"
    BY <1>3, <1>5, IdleKept
  <1>6. CASE s'.pc = "stream"
    <2>1. s.pc = "stream"
      BY <1>1, <1>4, <1>6
    <2>2. KeptSave'
      BY <1>1, <1>4, <1>6, <2>1 DEF KeptSave, End
    <2> QED
      BY <1>3, <2>2 DEF Kept
  <1>7. CASE s'.pc = "done"
    BY <1>3, <1>7 DEF Kept, KeptSave
  <1> QED
    BY <1>1, <1>4, <1>5, <1>6, <1>7

LEMMA ProcessErrorKept ==
  ASSUME Shape, Shape', Kept, ~damaged, ~CommitAfterError,
         NEW k \in Chunks, NEW e \in 0 .. MaxEmit,
         ProcessWriteError(k, e) \/ ProcessZlibError(k, e)
  PROVE  Kept'
  <1>1. KeptObjects /\ UNCHANGED <<objects, recorded, damaged>> /\ s'.pc = "failed"
    BY Undamaged DEF ProcessWriteError, ProcessZlibError, dbvars, Shape, TypeOK, SaveStates
  <1>2. CASE ProcessWriteError(k, e)
    <2>1. PICK j \in 0 .. Len(ProcessCells(k, e)) - 1 : WriteFile(SubSeq(ProcessCells(k, e), 1, j))
      BY <1>2 DEF ProcessWriteError, WriteShort
    <2>2. SubSeq(ProcessCells(k, e), 1, j) \in Seq(Cells)
      BY ProcessCellsType DEF Shape
    <2>3. ptr = eof
      BY <1>2 DEF ProcessWriteError, MayProcess, Going, Shape, Geometry
    <2> QED
      BY <1>1, <2>1, <2>2, <2>3, WriteKeeps, IdleKept
  <1>3. CASE ProcessZlibError(k, e)
    <2>1. UNCHANGED <<dat, synced>> /\ synced \in Nat /\ synced <= synced
      BY <1>3 DEF ProcessZlibError, datvars, Shape, TypeOK
    <2> QED
      BY <1>1, <2>1, KeepSynced, IdleKept
  <1> QED
    BY <1>2, <1>3

\* restart() truncates MAIN.DAT, but behind the header of its own object.
LEMMA RestartKept ==
  ASSUME Shape, Shape', Kept, ~damaged, ~CommitAfterError, restart \/ restartError
  PROVE  Kept'
  <1>0. /\ KeptObjects /\ KeptSave /\ UNCHANGED <<objects, recorded, damaged>>
        /\ s.pc = "stream"
    BY Undamaged DEF restart, restartError, MayRestart, Going, dbvars
  <1>2. /\ synced <= s.postition /\ s.postition + 2 <= s.data_begin
        /\ synced \in Nat /\ s.postition \in Nat /\ s.data_begin \in Nat
        /\ dat \in [0 .. Capacity - 1 -> Cells]
    BY <1>0 DEF Shape, TypeOK, Geometry, SaveStates
  <1>1. /\ KeptObjects /\ KeptSave /\ UNCHANGED <<objects, recorded, damaged, synced>>
        /\ s.pc = "stream"
    BY <1>0, <1>2 DEF restart, restartError, Min2
  <1>3. dat' = dat \/ dat' = Cut(dat, s.data_begin)
    BY DEF restart, restartError
  <1>4. \A p \in 0 .. Capacity - 1 : p < synced => dat'[p] = dat[p]
    <2> TAKE p \in 0 .. Capacity - 1
    <2>1. p < synced => p < s.data_begin
      BY <1>2, SizeAssumption
    <2>2. p < s.data_begin => Cut(dat, s.data_begin)[p] = dat[p]
      BY <1>2, CutBelow
    <2> QED
      BY <1>3, <2>1, <2>2
  <1>5. KeptObjects'
    BY <1>1, <1>2, <1>4, KeepSynced
  <1>6. s'.pc \in {"stream", "failed"} /\ s'.postition = s.postition
    <2>1. s' = Restarted \/ s' = [Restarted EXCEPT !.pc = "failed"]
      BY DEF restart, restartError
    <2>2. Restarted.pc = "stream" /\ Restarted.postition = s.postition
      BY <1>1 DEF Restarted, Shape, TypeOK, SaveStates
    <2>3. [Restarted EXCEPT !.pc = "failed"].pc = "failed"
          /\ [Restarted EXCEPT !.pc = "failed"].postition = s.postition
      BY <2>2 DEF Restarted, Shape, TypeOK, SaveStates
    <2> QED
      BY <2>1, <2>2, <2>3
  <1>7. KeptSave'
    BY <1>1, <1>6 DEF KeptSave, End
  <1> QED
    BY <1>5, <1>7 DEF Kept

\* commit() writes in front of its own data; when it is called a second time
\* it writes what is there already.
LEMMA CommitWritesKept ==
  ASSUME Shape, Written, Kept, ~damaged, ~CommitAfterError, CommitWrites
  PROVE  Kept'
  <1>1. /\ KeptObjects /\ UNCHANGED <<objects, recorded>>
        /\ s.pc \in Going /\ s.bytespassed >= s.filesize
    BY Undamaged DEF CommitWrites, dbvars
  <1>2. /\ s.pc \in {"stream", "done"} /\ ptr = eof /\ eof \in 0 .. Capacity
        /\ synced <= eof /\ synced \in 0 .. Capacity /\ s.postition \in Nat
    BY <1>1, CommitFacts
  <1>3. synced <= synced' /\ synced' \in Nat /\ s'.pc = "written"
    <2>1. synced' = synced
      BY CommitWritesCells
    <2>2. s'.pc = "written"
      BY DEF CommitWrites, Shape, TypeOK, SaveStates
    <2> QED
      BY <1>2, <2>1, <2>2, SizeAssumption
  <1>4. ASSUME NEW p \in 0 .. Capacity - 1, p < synced PROVE dat'[p] = dat[p]
    <2>1. p < eof
      BY <1>2, <1>4
    <2>2. CASE s.pc = "stream"
      <3>1. p < s.postition
        BY <1>2, <1>4, <2>2 DEF Shape, Geometry
      <3> QED
        BY <1>2, <2>1, <3>1, CommitWritesCells
    <2>3. CASE s.pc = "done"
      <3>1. InPlace
        BY <2>3 DEF Written
      <3>2. CASE p = s.postition
        BY <3>1, <3>2, CommitWritesCells DEF InPlace
      <3>3. CASE s.write_signature /\ p >= s.postition + 2
                 /\ p < s.postition + 2 + Len(Signature)
        <4> DEFINE j == p - s.postition - 1
        <4>1. Len(Signature) \in Nat
          BY <1>1, CommitFacts
        <4>2. j \in 1 .. Len(Signature) /\ p = s.postition + 1 + j
          BY <1>2, <3>3, <4>1
        <4> HIDE DEF j
        <4> QED
          BY <3>1, <3>3, <4>2, CommitWritesCells DEF InPlace
      <3> QED
        BY <2>1, <3>2, <3>3, CommitWritesCells
    <2> QED
      BY <1>2, <2>2, <2>3
  <1>5. KeptObjects'
    BY <1>1, <1>3, <1>4, KeepSynced
  <1> QED
    BY <1>3, <1>5 DEF Kept, KeptSave

\* The header that commit() failed to write, or wrote without what follows it.
LEMMA CommitWriteErrorKept ==
  ASSUME Shape, Written, Kept, ~damaged, ~CommitAfterError, CommitWriteError
  PROVE  Kept'
  <1>1. /\ KeptObjects /\ KeptSave /\ UNCHANGED <<objects, recorded, damaged>>
        /\ s.pc \in Going /\ s.bytespassed >= s.filesize
    BY Undamaged DEF CommitWriteError, dbvars
  <1>2. /\ s.pc \in {"stream", "done"} /\ ptr = eof /\ eof \in 0 .. Capacity
        /\ synced <= eof /\ synced \in 0 .. Capacity
        /\ s.postition \in Nat /\ Signature \in Seq(Cells) /\ Len(Signature) \in Nat
    BY <1>1, CommitFacts
  <1>3. synced' = synced /\ s'.pc = "broken"
    <2>1. synced' = Min2(synced, ptr)
      BY DEF CommitWriteError
    <2>2. s'.pc = "broken"
      BY DEF CommitWriteError, Shape, TypeOK, SaveStates
    <2> QED
      BY <1>2, <2>1, <2>2, SizeAssumption DEF Min2
  <1>5. /\ dat \in [0 .. Capacity - 1 -> Cells]
        /\ Cut(dat, ptr) \in [0 .. Capacity - 1 -> Cells]
        /\ WithHeader \in [0 .. Capacity - 1 -> Cells]
    BY CutType, WithHeaderType DEF Shape, TypeOK
  <1>6. ASSUME NEW p \in 0 .. Capacity - 1, p < synced
        PROVE  dat'[p] = dat[p]
    <2> DEFINE cut == Cut(dat, ptr)
    <2>1. p < ptr
      BY <1>2, <1>6, SizeAssumption
    <2>2. cut[p] = dat[p]
      BY <1>5, <2>1, CutBelow
    <2>3. ASSUME p >= s.postition
          PROVE  InPlace
      <3>1. s.pc = "done"
        BY <1>2, <1>6, <2>3, SizeAssumption DEF Shape, Geometry
      <3> QED
        BY <3>1 DEF Written
    <2>4. WithHeader[p] = dat[p]
      <3>1. WithHeader = Put(cut, s.postition, <<Header(ptr)>>)
        BY DEF WithHeader
      <3>2. <<Header(ptr)>> \in Seq(Cells) /\ Len(<<Header(ptr)>>) = 1
        <4>1. ptr \in Int
          BY <1>2
        <4>2. <<Header(ptr)>> \in Seq(Cells)
          BY <4>1, HeaderType DEF Shape
        <4> HIDE DEF Header
        <4> QED
          BY <4>2
      <3>3. p = s.postition => Header(ptr) = cut[p]
        BY <1>2, <2>2, <2>3 DEF InPlace
      <3>4. <<Header(ptr)>>[1] = Header(ptr)
        OBVIOUS
      <3>5. cut \in [0 .. Capacity - 1 -> Cells]
        BY <1>5
      <3> HIDE DEF cut, Header
      <3>6. Put(cut, s.postition, <<Header(ptr)>>)[p] = cut[p]
        BY <1>2, <3>2, <3>3, <3>4, <3>5, SizeAssumption DEF Put
      <3> QED
        BY <2>2, <3>1, <3>6
    <2>5. CASE dat' = cut
      BY <2>2, <2>5
    <2>6. CASE dat' = WithHeader
      BY <2>4, <2>6
    <2>7. ASSUME NEW j \in 0 .. Len(Signature) - 1, s.write_signature,
                 dat' = Put(WithHeader, s.postition + 2, SubSeq(Signature, 1, j))
          PROVE  dat'[p] = dat[p]
      <3> DEFINE c == SubSeq(Signature, 1, j)
                 q == s.postition + 2
      <3>1. Len(c) = j /\ \A i \in 1 .. j : c[i] = Signature[i]
        BY <1>2
      <3>2. q <= p /\ p < q + j => c[p - q + 1] = dat[p]
        <4> SUFFICES ASSUME q <= p, p < q + j PROVE c[p - q + 1] = dat[p]
          OBVIOUS
        <4> DEFINE i == p - q + 1
        <4>1. i \in 1 .. j /\ i \in 1 .. Len(Signature) /\ p = s.postition + 1 + i /\ p >= s.postition
          BY <1>2, SizeAssumption
        <4>2. InPlace
          BY <2>3, <4>1
        <4> HIDE DEF i, c
        <4>3. dat[p] = Signature[i]
          BY <2>7, <4>1, <4>2 DEF InPlace
        <4> QED
          BY <3>1, <4>1, <4>3 DEF i
      <3>3. q \in Nat
        BY <1>2
      <3> HIDE DEF c, q
      <3>4. Put(WithHeader, q, c)[p] = WithHeader[p]
        BY <1>5, <2>4, <3>1, <3>2, <3>3, SizeAssumption DEF Put
      <3> QED
        BY <2>4, <2>7, <3>4 DEF c, q
    <2> QED
      BY <2>5, <2>6, <2>7 DEF CommitWriteError
  <1>7. synced <= synced' /\ synced' \in Nat
    BY <1>2, <1>3
  <1> QED
    BY <1>1, <1>3, <1>6, <1>7, KeepSynced, IdleKept

\* A flush that is one makes the object permanent before it is recorded.
LEMMA CommitFlushKept ==
  ASSUME Shape, Shape', Kept, ~damaged, ~FlushMayFail, CommitFlush
  PROVE  Kept'
  <1>1. /\ KeptObjects /\ KeptSave /\ UNCHANGED <<objects, recorded, damaged, dat, eof>>
        /\ synced' = eof /\ s.pc = "written"
    BY Undamaged DEF CommitFlush, dbvars
  <1>2. synced <= synced' /\ synced' \in Nat
    BY <1>1 DEF Shape, TypeOK, Geometry
  <1>3. KeptObjects'
    BY <1>1, <1>2, KeepSynced
  <1>4. s'.pc = "flushed"
    BY DEF CommitFlush, Shape, TypeOK, SaveStates
  <1> QED
    BY <1>1, <1>3, <1>4 DEF Kept, KeptSave

\* The new row describes what MAIN.DAT holds, flushed, up to its end.
LEMMA CommitDbKept ==
  ASSUME Shape, Shape', Kept, ~damaged, CommitDb
  PROVE  Kept'
  <1>1. /\ KeptObjects /\ KeptSave /\ UNCHANGED <<damaged, dat, eof, synced>>
        /\ s.pc = "flushed" /\ objects' = Append(objects, ObjectRow)
        /\ recorded' = s.postition + s.objsize
    BY Undamaged DEF CommitDb
  <1>2. /\ s.objsize = eof - s.postition /\ s.objsize \in Nat /\ s.postition \in Nat
        /\ eof \in 0 .. Capacity
        /\ ObjectRow.offset = s.postition /\ ObjectRow.size = s.objsize
        /\ ObjectRow.hash = Read(dat, s.postition, s.objsize)
    BY <1>1, RowTypes
  <1>3. synced = eof /\ recorded' = eof /\ End(ObjectRow) = eof
    BY <1>1, <1>2 DEF KeptSave, End
  <1>4. KeptObjects'
    <2> SUFFICES ASSUME NEW i \in DOMAIN objects'
                 PROVE  /\ End(objects'[i]) <= synced /\ End(objects'[i]) <= recorded'
                        /\ Read(dat, objects'[i].offset, objects'[i].size) = objects'[i].hash
      BY <1>1 DEF KeptObjects, End
    <2>1. objects \in Seq(ObjectRows)
      BY DEF Shape, TypeOK
    <2>2. \/ i \in DOMAIN objects /\ objects'[i] = objects[i]
          \/ objects'[i] = ObjectRow
      BY <1>1, <2>1
    <2>3. CASE i \in DOMAIN objects /\ objects'[i] = objects[i]
      BY <1>1, <1>3, <2>3 DEF KeptObjects
    <2>4. CASE objects'[i] = ObjectRow
      BY <1>2, <1>3, <2>4
    <2> QED
      BY <2>2, <2>3, <2>4
  <1>5. s'.pc = "done"
    BY DEF CommitDb, Shape, TypeOK, SaveStates
  <1> QED
    BY <1>4, <1>5 DEF Kept, KeptSave

\* Steps that end a save, or run without one, and leave MAIN.DAT alone.
LEMMA QuietKept ==
  ASSUME Shape, Shape', Kept, ~damaged,
         \/ CommitRefused \/ CommitDbError \/ Destroy \/ CheckObject \/ Close
         \/ \E ro \in BOOLEAN : OpenUnchecked(ro) \/ OpenChecked(ro)
  PROVE  Kept'
  <1>1. KeptObjects /\ UNCHANGED <<objects, recorded, damaged, dat, synced>>
    BY Undamaged DEF CommitRefused, CommitDbError, Destroy, CheckObject, Close,
                     OpenUnchecked, OpenChecked, datvars, dbvars
  <1>2. s'.pc \in {"none", "failed", "broken"}
    <2>1. CASE CommitRefused \/ CommitDbError
      BY <2>1 DEF CommitRefused, CommitDbError, Shape, TypeOK, SaveStates
    <2>2. CASE Destroy
      BY <2>2, NoSaveType DEF Destroy
    <2>3. CASE \/ CheckObject \/ Close
               \/ \E ro \in BOOLEAN : OpenUnchecked(ro) \/ OpenChecked(ro)
      BY <2>3 DEF CheckObject, Close, OpenUnchecked, OpenChecked, Shape, Geometry
    <2> QED
      BY <2>1, <2>2, <2>3
  <1>3. synced <= synced' /\ synced' \in Nat
    BY <1>1 DEF Shape, TypeOK
  <1> QED
    BY <1>1, <1>2, <1>3, KeepSynced, IdleKept

\* A crash spares what is flushed.
LEMMA CrashKept ==
  ASSUME Shape, Shape', Kept, ~damaged, Crash
  PROVE  Kept'
  <1>1. KeptObjects /\ UNCHANGED <<objects, recorded, damaged>> /\ s'.pc = "none"
    BY Undamaged, NoSaveType DEF Crash, dbvars
  <1>2. PICK e \in synced .. eof : \E lost \in SUBSET (synced .. e - 1) :
          /\ dat' = [p \in DOMAIN dat |-> IF p >= e THEN Blank
                                         ELSE IF p \in lost THEN Junk ELSE dat[p]]
          /\ synced' = e
    BY DEF Crash
  <1>3. /\ synced \in 0 .. Capacity /\ eof \in 0 .. Capacity
        /\ dat \in [0 .. Capacity - 1 -> Cells]
    BY DEF Shape, TypeOK
  <1>4. synced <= synced' /\ synced' \in Nat
    BY <1>2, <1>3, SizeAssumption
  <1>5. \A p \in 0 .. Capacity - 1 : p < synced => dat'[p] = dat[p]
    BY <1>2, <1>3, SizeAssumption
  <1> QED
    BY <1>1, <1>4, <1>5, KeepSynced, IdleKept

\* A checked opening truncates MAIN.DAT to the size that MAIN.DB has recorded,
\* which is not in front of any object's end.
LEMMA CheckEndKept ==
  ASSUME Shape, Shape', Kept, ~damaged, CheckEnd
  PROVE  Kept'
  <1>1. KeptObjects /\ UNCHANGED <<objects, recorded, damaged>> /\ s'.pc = "none"
    BY Undamaged DEF CheckEnd, dbvars, Shape, Geometry
  <1>2. /\ synced \in 0 .. Capacity /\ eof \in 0 .. Capacity /\ synced <= eof
        /\ recorded \in Nat /\ dat \in [0 .. Capacity - 1 -> Cells]
    BY DEF Shape, TypeOK, Geometry
  <1>3. CASE ~readonly /\ recorded < eof
    <2> DEFINE z == Min2(synced, recorded)
    <2>1. dat' = Cut(dat, recorded) /\ synced' = z
      BY <1>3 DEF CheckEnd
    <2>2. z \in 0 .. Capacity /\ z <= recorded /\ z <= synced /\ (z = synced \/ z = recorded)
      BY <1>2, SizeAssumption DEF Min2
    <2> HIDE DEF z
    <2>3. \A i \in DOMAIN objects : End(objects[i]) <= z
      BY <1>1, <2>2 DEF KeptObjects
    <2>4. \A p \in 0 .. Capacity - 1 : p < z => dat'[p] = dat[p]
      <3> TAKE p \in 0 .. Capacity - 1
      <3>1. p < z => p < recorded
        BY <1>2, <2>2, SizeAssumption
      <3>2. p < recorded => Cut(dat, recorded)[p] = dat[p]
        BY <1>2, CutBelow
      <3> QED
        BY <2>1, <3>1, <3>2
    <2>5. z <= synced' /\ synced' \in Nat
      BY <2>1, <2>2
    <2> QED
      BY <1>1, <2>2, <2>3, <2>4, <2>5, KeepBelow, IdleKept
  <1>4. CASE ~(~readonly /\ recorded < eof)
    <2>1. UNCHANGED <<dat, synced>>
      BY <1>4 DEF CheckEnd
    <2>2. synced <= synced' /\ synced' \in Nat
      BY <1>2, <2>1
    <2> QED
      BY <1>1, <2>1, <2>2, KeepSynced, IdleKept
  <1> QED
    BY <1>3, <1>4

-----------------------------------------------------------------------------
(* The theorem.                                                            *)

LEMMA InitKept == Init => Written /\ Kept
  <1> SUFFICES ASSUME Init PROVE Written /\ Kept
    OBVIOUS
  <1>1. objects = << >> /\ s.pc = "none"
    BY NoSaveType DEF Init
  <1> QED
    BY <1>1 DEF Kept, KeptObjects, KeptSave, Written

LEMMA NextKept ==
  ASSUME ~CommitAfterError, ~FlushMayFail, Shape, Written, Kept, [Next]_vars
  PROVE  Kept'
  <1>1. Shape'
    BY NextShape
  <1>2. CASE damaged
    <2>1. damaged'
      BY <1>2 DEF Next, SaveNext, RepositoryNext, Construct, ConstructError, Process,
                  ProcessWriteError, ProcessZlibError, restart, restartError,
                  CommitRefused, CommitWrites, CommitWriteError, CommitFlush, CommitDb,
                  CommitDbError, Destroy, OpenUnchecked, OpenChecked, CheckObject,
                  CheckEnd, Close, Crash, Damage, vars
    <2> QED
      BY <2>1 DEF Kept
  <1>3. CASE ~damaged /\ SaveNext
    <2>1. ASSUME NEW n \in FileSizes, NEW prev \in Offsets, NEW psign \in BOOLEAN,
                 NEW prob \in BOOLEAN, Construct(n, prev, psign, prob)
          PROVE  Kept'
      BY <1>1, <1>3, <2>1, ConstructKept
    <2>2. ASSUME NEW prev \in Offsets, ConstructError(prev) PROVE Kept'
      BY <1>1, <1>3, <2>2, ConstructErrorKept
    <2>3. ASSUME NEW k \in Chunks, NEW e \in 0 .. MaxEmit,
                 Process(k, e) \/ ProcessWriteError(k, e) \/ ProcessZlibError(k, e)
          PROVE  Kept'
      BY <1>1, <1>3, <2>3, ProcessKept, ProcessErrorKept
    <2>4. CASE restart \/ restartError
      BY <1>1, <1>3, <2>4, RestartKept
    <2>5. CASE CommitWrites \/ CommitWriteError
      BY <1>1, <1>3, <2>5, CommitWritesKept, CommitWriteErrorKept
    <2>6. CASE CommitFlush \/ CommitDb
      BY <1>1, <1>3, <2>6, CommitFlushKept, CommitDbKept
    <2>7. CASE CommitRefused \/ CommitDbError \/ Destroy
      BY <1>1, <1>3, <2>7, QuietKept
    <2> QED
      BY <1>3, <2>1, <2>2, <2>3, <2>4, <2>5, <2>6, <2>7 DEF SaveNext
  <1>4. CASE ~damaged /\ RepositoryNext
    <2>1. CASE CheckObject \/ Close \/ \E ro \in BOOLEAN : OpenUnchecked(ro) \/ OpenChecked(ro)
      BY <1>1, <1>4, <2>1, QuietKept
    <2>2. CASE Crash
      BY <1>1, <1>4, <2>2, CrashKept
    <2>3. CASE CheckEnd
      BY <1>1, <1>4, <2>3, CheckEndKept
    <2>4. CASE Damage
      BY <2>4 DEF Damage, Kept
    <2> QED
      BY <1>4, <2>1, <2>2, <2>3, <2>4 DEF RepositoryNext
  <1>5. CASE UNCHANGED vars
    <2>1. UNCHANGED <<dat, eof, synced, damaged, objects, recorded, s>>
      BY <1>5 DEF vars, datvars, dbvars
    <2>2. KeptObjects' <=> KeptObjects
      BY <2>1 DEF KeptObjects, End
    <2>3. KeptSave' <=> KeptSave
      BY <2>1 DEF KeptSave, End
    <2> QED
      BY <2>1, <2>2, <2>3 DEF Kept
  <1> QED
    BY <1>2, <1>3, <1>4, <1>5 DEF Next

\* Every object that commit() has recorded in MAIN.DB is in MAIN.DAT exactly
\* as it was when its hash was taken, in every reachable state, as long as
\* nothing but SVS writes to MAIN.DAT, flushes are flushes and callers give up
\* a save with its first error.
THEOREM CommittedStaysIntact ==
  ASSUME ~CommitAfterError, ~FlushMayFail
  PROVE  Spec => []CommittedIntact
  <1>1. Init => Shape /\ Written /\ Kept
    BY InitShape, InitKept
  <1>2. (Shape /\ Written /\ Kept) /\ [Next]_vars => (Shape /\ Written /\ Kept)'
    BY NextShape, NextWritten, NextKept
  <1>3. Shape /\ Kept => CommittedIntact
    <2> SUFFICES ASSUME Shape, Kept, ~damaged, NEW i \in DOMAIN objects
                 PROVE  Intact(objects[i])
      BY DEF CommittedIntact, AllIntact
    <2>1. End(objects[i]) <= synced /\ Read(dat, objects[i].offset, objects[i].size) = objects[i].hash
      BY Undamaged DEF KeptObjects
    <2>2. synced <= eof /\ synced \in Nat /\ eof \in Nat /\ End(objects[i]) \in Nat
      BY RowFacts DEF Shape, TypeOK, Geometry
    <2> QED
      BY <2>1, <2>2 DEF Intact
  <1> QED
    BY <1>1, <1>2, <1>3, PTL DEF Spec
=============================================================================
