---------------------------- MODULE ContentProofs ----------------------------
(***************************************************************************)
(* What a committed object says: proofs of WholeFileHashed, ContentStored, *)
(* SignatureStored and ChainAccounting.  They need a caller that abandons a*)
(* save with its first error, and where a hash is compared with a file one *)
(* that does not restart() before the first pass is over; whether flushes  *)
(* fail, MAIN.DAT gets damaged or a writer goes on behind a failed save does*)
(* not matter, because rows say what was hashed and read back, not what    *)
(* MAIN.DAT holds later.                                                   *)
(***************************************************************************)
EXTENDS CommittedProofs, WellFoundedInduction

-----------------------------------------------------------------------------
(* The inductive invariant.  The rows say nothing of a save that is not    *)
(* recorded yet, so it follows the save from the constructor on: what was  *)
(* hashed, what was decided, what is behind data_begin, and the totals.    *)

Streamed == s.pc \in {"stream", "written", "flushed", "done"}

FirstBytes(v, n) == [j \in 1 .. n |-> <<v, j>>]

\* The hash has seen the first bytes of the version, each of them once; when
\* a second pass is made it has seen them all, if the first one was over.  It
\* has not been used for an object yet.
Hashing ==
  /\ ~s.reread
  /\ s.v \in 1 .. saves
  /\ s.hashed = FirstBytes(s.v, Len(s.hashed))
  /\ s.unwind /\ ~RestartAnytime => Len(s.hashed) = s.filesize

\* What the constructor has decided
Begun ==
  /\ ~s.write_signature => s.data_begin = s.postition + 2
  /\ s.use_zlib => s.filesize > 0 /\ s.zs # "off"
  /\ ~s.raw_file => s.filesize > 0
  /\ s.files_pid \in 0 .. Len(files)

\* The deflate stream is finished; the cells behind the header and the
\* signature but for its end
Ended        == s.use_zlib /\ s.zs # "live"
ContentCells == eof - s.data_begin - (IF Ended THEN 1 ELSE 0)

\* A compressed file is finished with its last byte, and not before, or else
\* it never gets there.  The last byte of a delta leaves a command behind.
Contents ==
  /\ Ended => eof > s.data_begin /\ dat[eof - 1] = [k |-> "zend", v |-> s.v]
  /\ s.use_zlib /\ ~Ended => s.bytespassed < s.filesize
  /\ IF s.raw_file
     THEN /\ ContentCells = s.bytespassed
          /\ \A j \in 1 .. ContentCells :
               dat[s.data_begin + j - 1] = [k |-> "data", b |-> <<s.v, j>>, z |-> s.use_zlib]
     ELSE /\ \A j \in 1 .. ContentCells :
               dat[s.data_begin + j - 1] = [k |-> "delta", v |-> s.v]
          /\ s.bytespassed = s.filesize => ContentCells > 0

\* The totals of a delta are its predecessor's with its own cells added
Totals ==
  ~s.raw_file =>
    /\ s.files_pid \in DOMAIN files
    /\ s.files_delta_cnt   = files[s.files_pid].deltas_count + 1
    /\ s.files_delta_size  = files[s.files_pid].deltas_size + ContentCells
    /\ s.files_source_size = files[s.files_pid].source_size

Saving == Streamed => Hashing /\ Begun /\ Contents /\ Totals

\* Row i stands for version v of a file: its payload, cell by cell
RowContent(i) == objects[i].size + 1 - PayloadFrom(i) - (IF Zipped(i) THEN 1 ELSE 0)

Stores(i, v) ==
  /\ files[i].file_size \in FileSizes
  /\ files[i].file_hash = FirstBytes(v, Len(files[i].file_hash))
  /\ ~RestartAnytime => Len(files[i].file_hash) = files[i].file_size
  /\ Len(objects[i].hash) = objects[i].size
  /\ RowContent(i) \in Nat
  /\ Zipped(i) => objects[i].hash[objects[i].size] = [k |-> "zend", v |-> v]
  /\ IF IsDelta(i)
     THEN /\ RowContent(i) > 0
          /\ \A j \in 1 .. RowContent(i) :
               objects[i].hash[PayloadFrom(i) + j - 1] = [k |-> "delta", v |-> v]
     ELSE /\ RowContent(i) = files[i].file_size
          /\ \A j \in 1 .. RowContent(i) :
               objects[i].hash[PayloadFrom(i) + j - 1] =
                 [k |-> "data", b |-> <<v, j>>, z |-> Zipped(i)]

\* The totals of row i, from its parent's
Accounted(i) ==
  /\ files[i].parent \in 0 .. i - 1
  /\ IF IsDelta(i)
     THEN LET p == files[i].parent IN
          /\ p # 0
          /\ files[i].deltas_count = 1 + files[p].deltas_count
          /\ files[i].deltas_size  = RowContent(i) + files[p].deltas_size
          /\ files[i].source_size  = files[p].source_size
     ELSE /\ files[i].deltas_count = 0
          /\ files[i].deltas_size  = 0
          /\ files[i].source_size  = files[i].file_size

Stored ==
  /\ Len(objects) = Len(files)
  /\ \A i \in DOMAIN objects : Accounted(i) /\ \E v \in 1 .. saves : Stores(i, v)

-----------------------------------------------------------------------------
(* The bytes hashed, and the cells a process() call appends.               *)

LEMMA NoBytes ==
  ASSUME NEW v
  PROVE  FirstBytes(v, 0) = << >>
  BY DEF FirstBytes

LEMMA MoreBytes ==
  ASSUME NEW v, NEW l \in Nat, NEW k \in Nat
  PROVE  FirstBytes(v, l) \o [j \in 1 .. k |-> <<v, l + j>>] = FirstBytes(v, l + k)
  BY DEF FirstBytes

\* The types of what the proofs below calculate with.
LEMMA SaveFacts ==
  ASSUME Shape, Streamed
  PROVE  /\ s.postition \in Nat /\ s.data_begin \in Nat /\ s.filesize \in Nat
         /\ s.filesize \in FileSizes /\ s.bytespassed \in Nat /\ Len(s.hashed) \in Nat
         /\ s.hashed \in Seq(Bytes) /\ s.use_zlib \in BOOLEAN /\ s.raw_file \in BOOLEAN
         /\ s.zs \in {"off", "live", "ended", "freed"} /\ s.files_delta_size \in Nat
         /\ eof \in Nat /\ eof <= Capacity /\ Capacity \in Nat /\ s.data_begin <= eof
         /\ s.postition + 2 <= s.data_begin /\ s.bytespassed <= s.filesize
         /\ dat \in [0 .. Capacity - 1 -> Cells]
  <1>1. s \in SaveStates /\ s.filesize \in FileSizes /\ eof \in 0 .. Capacity
        /\ dat \in [0 .. Capacity - 1 -> Cells]
    BY DEF Shape, TypeOK, Streamed
  <1>2. s.postition + 2 <= s.data_begin /\ s.data_begin <= eof /\ s.bytespassed <= s.filesize
    BY DEF Shape, Geometry, Streamed
  <1>3. /\ s.postition \in Nat /\ s.data_begin \in Nat /\ s.bytespassed \in Nat
        /\ s.hashed \in Seq(Bytes) /\ s.use_zlib \in BOOLEAN /\ s.raw_file \in BOOLEAN
        /\ s.zs \in {"off", "live", "ended", "freed"} /\ s.files_delta_size \in Nat
    BY <1>1 DEF SaveStates
  <1>4. s.filesize \in Nat /\ eof \in Nat /\ eof <= Capacity /\ Capacity \in Nat
    <2>1. s.filesize \in Nat
      BY <1>1, SizeAssumption
    <2>2. Capacity \in Nat /\ eof \in 0 .. Capacity
      BY <1>1, SizeAssumption
    <2> QED
      BY <2>1, <2>2
  <1>5. Len(s.hashed) \in Nat
    BY <1>3
  <1> QED
    BY <1>1, <1>2, <1>3, <1>4, <1>5

\* Writing behind the last cell.
LEMMA Appended ==
  ASSUME Shape, NEW c \in Seq(Cells), WriteFile(c), ptr = eof
  PROVE  /\ eof' = eof + Len(c)
         /\ \A p \in 0 .. eof - 1 : dat'[p] = dat[p]
         /\ \A j \in 1 .. Len(c) : dat'[eof + j - 1] = c[j]
  <1>1. /\ eof \in Nat /\ eof <= Capacity /\ Len(c) \in Nat /\ Capacity \in Nat
        /\ dat \in [0 .. Capacity - 1 -> Cells]
    BY SizeAssumption DEF Shape, TypeOK
  <1>2. /\ dat' = Put(dat, eof, c) /\ eof' = Max2(eof, eof + Len(c))
        /\ eof + Len(c) <= Capacity
    BY DEF WriteFile
  <1>3. eof' = eof + Len(c)
    BY <1>1, <1>2 DEF Max2
  <1>4. ASSUME NEW p \in 0 .. eof - 1 PROVE dat'[p] = dat[p]
    <2>1. p \in 0 .. Capacity - 1 /\ p < eof
      BY <1>1
    <2> QED
      BY <1>1, <1>2, <2>1, PutBelow
  <1>5. ASSUME NEW j \in 1 .. Len(c) PROVE dat'[eof + j - 1] = c[j]
    <2>1. eof + j - 1 <= Capacity - 1
      BY <1>1, <1>2
    <2> QED
      BY <1>1, <1>2, <2>1, PutAt
  <1> QED
    BY <1>3, <1>4, <1>5

\* The cells of a buffer, and behind them the end of a deflate stream that is
\* finished now.
LEMMA ProcessCellsAre ==
  ASSUME Shape, NEW k \in Chunks, NEW e \in 0 .. MaxEmit
  PROVE  LET n == IF s.raw_file THEN k ELSE e
             fin == Finishes(k) /\ s.zs = "live"
         IN /\ Len(ProcessCells(k, e)) = n + (IF fin THEN 1 ELSE 0)
            /\ fin => ProcessCells(k, e)[n + 1] = [k |-> "zend", v |-> s.v]
            /\ \A j \in 1 .. n : ProcessCells(k, e)[j] =
                 IF s.raw_file
                 THEN [k |-> "data", b |-> <<s.v, s.bytespassed + j>>, z |-> s.use_zlib]
                 ELSE [k |-> "delta", v |-> s.v]
  <1> DEFINE n   == IF s.raw_file THEN k ELSE e
             fin == Finishes(k) /\ s.zs = "live"
             c   == BufferCells(k, e)
             t   == IF Finishes(k) THEN Finish ELSE << >>
  <1>1. k \in Nat /\ e \in Nat /\ n \in Nat /\ s.bytespassed \in Nat
    BY SizeAssumption DEF Shape, TypeOK, SaveStates
  <1>2. \A j \in 1 .. k : Chunk(k)[j] = <<s.v, s.bytespassed + j>>
    BY DEF Chunk
  <1>3. /\ c = [j \in 1 .. n |-> IF s.raw_file
                                 THEN [k |-> "data", b |-> <<s.v, s.bytespassed + j>>, z |-> s.use_zlib]
                                 ELSE [k |-> "delta", v |-> s.v]]
    <2>1. CASE s.raw_file
      BY <1>2, <2>1 DEF BufferCells
    <2>2. CASE ~s.raw_file
      BY <2>2 DEF BufferCells
    <2> QED
      BY <2>1, <2>2
  <1>4. t = IF fin THEN <<[k |-> "zend", v |-> s.v]>> ELSE << >>
    BY DEF Finish
  <1>5. ProcessCells(k, e) = c \o t
    BY DEF ProcessCells
  <1> HIDE DEF n, fin, c, t
  <1>6. Len(t) = (IF fin THEN 1 ELSE 0) /\ (fin => t[1] = [k |-> "zend", v |-> s.v])
    BY <1>4
  <1>7. /\ Len(c) = n
        /\ \A j \in 1 .. n : c[j] =
             IF s.raw_file
             THEN [k |-> "data", b |-> <<s.v, s.bytespassed + j>>, z |-> s.use_zlib]
             ELSE [k |-> "delta", v |-> s.v]
    BY <1>1, <1>3
  <1>8. /\ Len(c \o t) = n + Len(t)
        /\ \A j \in 1 .. n : (c \o t)[j] = c[j]
        /\ \A j \in 1 .. Len(t) : (c \o t)[n + j] = t[j]
    <2> DEFINE zend == [k |-> "zend", v |-> s.v]
               A == {c[j] : j \in 1 .. n} \cup {zend}
    <2>1. c \in [1 .. n -> A] /\ zend \in A
      BY <1>3, <1>7
    <2>2. t = IF fin THEN <<zend>> ELSE << >>
      BY <1>4
    <2> HIDE DEF A, zend
    <2>3. c \in Seq(A) /\ t \in Seq(A)
      BY <1>1, <2>1, <2>2, FunctionIsSeq
    <2> QED
      BY <1>1, <1>7, <2>3
  <1>9. Len(c \o t) = n + (IF fin THEN 1 ELSE 0)
    BY <1>6, <1>8
  <1>10. fin => (c \o t)[n + 1] = [k |-> "zend", v |-> s.v]
    BY <1>6, <1>8
  <1> QED
    BY <1>5, <1>7, <1>8, <1>9, <1>10 DEF n, fin

-----------------------------------------------------------------------------
(* One lemma per kind of step of the save.                                 *)

LEMMA ConstructSaving ==
  ASSUME Shape, NEW n \in FileSizes, NEW prev \in Offsets, NEW psign \in BOOLEAN,
         NEW prob \in BOOLEAN, Construct(n, prev, psign, prob)
  PROVE  Saving'
  <1>1. PICK type : s' = Constructed(n, prev, psign, prob, type)
    BY DEF Construct
  <1> DEFINE raw  == StoredWhole(n, prev, prob) \/ NoBase(prev, psign, type)
             zlib == n > THRESHOLD_ZLIB /\ config.zlib
             par  == IF raw THEN [deltas_count |-> -1, deltas_size |-> 0, source_size |-> 0]
                            ELSE files[FileAt(prev)]
  <1>2. /\ s'.v = saves + 1 /\ s'.filesize = n /\ s'.postition = eof
        /\ s'.data_begin = eof + 2 + (IF s'.write_signature THEN SignatureCells(n) ELSE 0)
        /\ s'.raw_file = raw /\ s'.use_zlib = zlib /\ s'.bytespassed = 0
        /\ s'.hashed = << >> /\ s'.unwind = FALSE /\ s'.reread = FALSE
        /\ s'.zs = (IF zlib THEN "live" ELSE "off")
        /\ s'.files_pid = (IF prev = 0 THEN 0 ELSE FileAt(prev))
        /\ s'.files_delta_cnt = par.deltas_count + 1
        /\ s'.files_delta_size = par.deltas_size /\ s'.files_source_size = par.source_size
    BY <1>1 DEF Constructed
  <1>3. /\ eof \in Nat /\ n \in Nat /\ saves \in Nat /\ saves' = saves + 1
        /\ eof' = s'.data_begin /\ files' = files /\ files \in Seq(FileRows)
    BY SizeAssumption DEF Shape, TypeOK, Construct, dbvars
  <1>4. prev # 0 => FileAt(prev) \in DOMAIN files
    BY DEF Offsets, FileAt
  <1>5. ~raw => prev # 0 /\ n > 0
    BY <1>3, SizeAssumption DEF StoredWhole, Small
  <1>6. zlib => n > 0
    BY <1>3, SizeAssumption
  <1> HIDE DEF raw, zlib, par
  <1>7. Hashing'
    <2>1. s'.hashed = FirstBytes(s'.v, 0) /\ Len(s'.hashed) = 0
      BY <1>2, NoBytes
    <2>2. s'.hashed = FirstBytes(s'.v, Len(s'.hashed))
      BY <2>1
    <2> QED
      BY <1>2, <1>3, <2>2 DEF Hashing, FirstBytes
  <1>8. Begun'
    <2>1. s'.files_pid \in 0 .. Len(files')
      BY <1>2, <1>3, <1>4
    <2> QED
      BY <1>2, <1>3, <1>5, <1>6, <2>1 DEF Begun
  <1>9. ~Ended' /\ s'.data_begin \in Nat /\ ContentCells' = 0
    <2>1. SignatureCells(n) \in Nat
      BY BlocksFacts
    <2>2. s'.data_begin \in Nat
      BY <1>2, <1>3, <2>1
    <2> QED
      BY <1>2, <1>3, <2>2 DEF Ended, ContentCells
  <1>10. Contents'
    <2>1. s'.use_zlib => s'.bytespassed < s'.filesize
      BY <1>2, <1>3, <1>6
    <2>2. ~s'.raw_file => s'.bytespassed # s'.filesize
      BY <1>2, <1>3, <1>5
    <2> QED
      BY <1>2, <1>9, <2>1, <2>2 DEF Contents
  <1>11. Totals'
    <2>1. ASSUME ~s'.raw_file
          PROVE  /\ s'.files_pid \in DOMAIN files'
                 /\ s'.files_delta_cnt = files'[s'.files_pid].deltas_count + 1
                 /\ s'.files_delta_size = files'[s'.files_pid].deltas_size + ContentCells'
                 /\ s'.files_source_size = files'[s'.files_pid].source_size
      <3>1. par = files[FileAt(prev)] /\ s'.files_pid = FileAt(prev) /\ FileAt(prev) \in DOMAIN files
        BY <1>2, <1>4, <1>5, <2>1 DEF par
      <3>2. files[FileAt(prev)] \in FileRows
        BY <1>3, <3>1
      <3>3. files[FileAt(prev)].deltas_size \in Nat
        BY <3>2 DEF FileRows
      <3> QED
        BY <1>2, <1>3, <1>9, <3>1, <3>3
    <2> QED
      BY <2>1 DEF Totals
  <1> QED
    BY <1>7, <1>8, <1>10, <1>11 DEF Saving

\* What a process() call does to the payload, and to the totals.
LEMMA ProcessContents ==
  ASSUME Shape, Saving, ~CommitAfterError, NEW k \in Chunks, NEW e \in 0 .. MaxEmit,
         Process(k, e), s.pc = "stream", s'.pc = "stream"
  PROVE  Contents' /\ Totals'
  <1> DEFINE n   == IF s.raw_file THEN k ELSE e
             fin == Finishes(k) /\ s.zs = "live"
             c   == ProcessCells(k, e)
             cell(j) == IF s.raw_file THEN [k |-> "data", b |-> <<s.v, j>>, z |-> s.use_zlib]
                        ELSE [k |-> "delta", v |-> s.v]
  <1>1. Streamed /\ Begun /\ Contents /\ Totals /\ ptr = eof
    BY DEF Streamed, Saving, Shape, Geometry
  <1>2. /\ s.data_begin \in Nat /\ s.filesize \in Nat /\ s.bytespassed \in Nat
        /\ s.use_zlib \in BOOLEAN /\ s.raw_file \in BOOLEAN /\ eof \in Nat
        /\ s.data_begin <= eof /\ s.bytespassed <= s.filesize
        /\ k \in Nat /\ e \in Nat /\ n \in Nat /\ s.files_delta_size \in Nat
        /\ (~s.use_zlib => s.zs = "off")
        /\ s.zs \in {"off", "live", "ended", "freed"}
    <2>1. ~s.use_zlib => s.zs = "off"
      BY DEF Shape, Geometry
    <2> QED
      BY <1>1, <2>1, SaveFacts, SizeAssumption
  <1>3. /\ s'.v = s.v /\ s'.filesize = s.filesize /\ s'.data_begin = s.data_begin
        /\ s'.raw_file = s.raw_file /\ s'.use_zlib = s.use_zlib
        /\ s'.bytespassed = s.bytespassed + k /\ s.bytespassed + k <= s.filesize
        /\ s'.zs = (IF fin THEN "ended" ELSE s.zs)
        /\ s'.files_pid = s.files_pid /\ s'.files_delta_cnt = s.files_delta_cnt
        /\ s'.files_source_size = s.files_source_size /\ files' = files
        /\ s'.files_delta_size = s.files_delta_size + (IF s.raw_file THEN 0 ELSE e)
    <2>1. s \in SaveStates
      BY DEF Shape, TypeOK
    <2>2. files' = files
      BY DEF Process, dbvars
    <2>3. ~(s.bytespassed + k > s.filesize)
      BY <2>1 DEF Process, SaveStates
    <2>4. /\ s'.v = s.v /\ s'.filesize = s.filesize /\ s'.data_begin = s.data_begin
          /\ s'.raw_file = s.raw_file /\ s'.use_zlib = s.use_zlib
          /\ s'.files_pid = s.files_pid /\ s'.files_delta_cnt = s.files_delta_cnt
          /\ s'.files_source_size = s.files_source_size
      BY <2>1 DEF Process, SaveStates
    <2>5. /\ s'.bytespassed = s.bytespassed + k
          /\ s'.zs = (IF fin THEN "ended" ELSE s.zs)
      BY <2>1 DEF Process, SaveStates
    <2>6. s'.files_delta_size = IF s.raw_file THEN s.files_delta_size ELSE s.files_delta_size + e
      BY <2>1 DEF Process, SaveStates
    <2> HIDE DEF fin
    <2> QED
      BY <1>2, <2>2, <2>3, <2>4, <2>5, <2>6
  <1>4. /\ MayProcess(k, e) /\ ~DeflateError(k, e)
        /\ c \in Seq(Cells) /\ WriteFile(c)
    BY ProcessCellsType DEF Process, Shape
  <1>5. /\ eof' = eof + Len(c)
        /\ \A p \in 0 .. eof - 1 : dat'[p] = dat[p]
        /\ \A j \in 1 .. Len(c) : dat'[eof + j - 1] = c[j]
    BY <1>1, <1>4, Appended
  <1>6. /\ Len(c) = n + (IF fin THEN 1 ELSE 0)
        /\ fin => c[n + 1] = [k |-> "zend", v |-> s.v]
        /\ \A j \in 1 .. n : c[j] = cell(s.bytespassed + j)
    BY ProcessCellsAre
  <1>7. Ended => n = 0 /\ ~fin
    <2>1. ASSUME Ended PROVE s.zs \in {"ended", "freed"}
      BY <1>1, <1>2, <2>1 DEF Ended, Begun
    <2>2. ASSUME s.zs \in {"ended", "freed"} PROVE n = 0
      BY <1>2, <1>4, <2>2 DEF DeflateError
    <2> QED
      BY <2>1, <2>2 DEF Ended
  <1>8. fin => s.use_zlib /\ ~Ended
    BY <1>2 DEF Ended
  <1>9. Ended' = (Ended \/ fin)
    BY <1>2, <1>3, <1>8 DEF Ended
  <1>10. ContentCells \in Nat /\ ContentCells' = ContentCells + n
    <2>1. Ended => eof > s.data_begin
      BY <1>1 DEF Contents
    <2>2. ContentCells \in Nat
      BY <1>2, <2>1 DEF ContentCells
    <2> HIDE DEF c, fin, n
    <2>3. ContentCells' = eof' - s.data_begin - (IF Ended \/ fin THEN 1 ELSE 0)
      BY <1>3, <1>9 DEF ContentCells
    <2>4. eof' = eof + n + (IF fin THEN 1 ELSE 0)
      BY <1>2, <1>5, <1>6
    <2>5. ContentCells = eof - s.data_begin - (IF Ended THEN 1 ELSE 0)
      BY DEF ContentCells
    <2> HIDE DEF Ended
    <2> QED
      BY <1>2, <1>7, <2>2, <2>3, <2>4, <2>5
  <1>11. eof = s.data_begin + ContentCells + (IF Ended THEN 1 ELSE 0)
    BY <1>2 DEF ContentCells
  <1>12. ASSUME NEW j \in 1 .. ContentCells
         PROVE  dat'[s.data_begin + j - 1] = dat[s.data_begin + j - 1]
    <2> HIDE DEF c, fin, n
    <2>1. s.data_begin + j - 1 \in 0 .. eof - 1
      BY <1>2, <1>10, <1>11
    <2> QED
      BY <1>5, <2>1
  <1>13. ASSUME NEW j \in 1 .. ContentCells', j > ContentCells
         PROVE  dat'[s.data_begin + j - 1] = cell(s.bytespassed + (j - ContentCells))
    <2> HIDE DEF c, fin, cell
    <2>1. j - ContentCells \in 1 .. n /\ n > 0
      BY <1>2, <1>10, <1>13
    <2> HIDE DEF n
    <2>2. ~Ended
      BY <1>7, <2>1
    <2>3. eof + (j - ContentCells) - 1 = s.data_begin + j - 1
      BY <1>2, <1>10, <1>11, <2>2
    <2>4. j - ContentCells \in 1 .. Len(c)
      BY <1>2, <1>6, <1>10, <2>1
    <2>5. dat'[eof + (j - ContentCells) - 1] = c[j - ContentCells]
      BY <1>5, <2>4
    <2> QED
      BY <1>6, <2>1, <2>3, <2>5
  <1>14. Contents'
    <2>1. Ended' => eof' > s'.data_begin /\ dat'[eof' - 1] = [k |-> "zend", v |-> s'.v]
      <3>1. CASE fin
        <4>1. eof' - 1 = eof + (n + 1) - 1 /\ n + 1 \in 1 .. Len(c) /\ eof' > s.data_begin
          <5> HIDE DEF fin, n, c
          <5> QED
            BY <1>2, <1>5, <1>6, <3>1
        <4> HIDE DEF fin, n, c
        <4> QED
          BY <1>3, <1>5, <1>6, <3>1, <4>1
      <3>2. CASE ~fin
        <4> HIDE DEF fin, n, c
        <4>1. ASSUME Ended' PROVE Ended /\ eof' = eof /\ eof > s.data_begin
          <5>1. Ended
            BY <1>9, <3>2, <4>1
          <5>2. eof' = eof
            BY <1>2, <1>5, <1>6, <1>7, <3>2, <5>1
          <5> QED
            BY <1>1, <5>1, <5>2 DEF Contents
        <4>2. ASSUME Ended' PROVE dat'[eof - 1] = dat[eof - 1]
          <5>1. eof - 1 \in 0 .. eof - 1
            BY <1>2, <4>1, <4>2
          <5> QED
            BY <1>5, <5>1
        <4> QED
          BY <1>1, <1>3, <4>1, <4>2 DEF Contents
      <3> QED
        BY <3>1, <3>2
    <2>2. s'.use_zlib /\ ~Ended' => s'.bytespassed < s'.filesize
      <3>1. ASSUME s.use_zlib, ~Ended' PROVE s.bytespassed + k # s.filesize
        BY <1>2, <1>3, <3>1 DEF Finishes, Ended
      <3> QED
        BY <1>2, <1>3, <3>1
    <2>3. CASE s.raw_file
      <3>1. ContentCells' = s'.bytespassed
        BY <1>1, <1>2, <1>3, <1>10, <2>3 DEF Contents
      <3>2. ASSUME NEW j \in 1 .. ContentCells'
            PROVE  dat'[s'.data_begin + j - 1] = [k |-> "data", b |-> <<s'.v, j>>, z |-> s'.use_zlib]
        <4>1. CASE j <= ContentCells
          BY <1>1, <1>3, <1>10, <1>12, <2>3, <4>1 DEF Contents
        <4>2. CASE j > ContentCells
          <5>1. s.bytespassed + (j - ContentCells) = j
            BY <1>1, <1>2, <1>10, <2>3 DEF Contents
          <5> QED
            BY <1>3, <1>13, <2>3, <4>2, <5>1
        <4> QED
          BY <1>10, <4>1, <4>2
      <3> QED
        BY <1>3, <2>1, <2>2, <2>3, <3>1, <3>2 DEF Contents
    <2>4. CASE ~s.raw_file
      <3>1. ASSUME NEW j \in 1 .. ContentCells'
            PROVE  dat'[s'.data_begin + j - 1] = [k |-> "delta", v |-> s'.v]
        <4>1. CASE j <= ContentCells
          BY <1>1, <1>3, <1>10, <1>12, <2>4, <4>1 DEF Contents
        <4>2. CASE j > ContentCells
          BY <1>3, <1>13, <2>4, <4>2
        <4> QED
          BY <1>10, <4>1, <4>2
      <3>2. s'.bytespassed = s'.filesize => ContentCells' > 0
        <4>1. CASE k = 0
          BY <1>1, <1>2, <1>3, <1>10, <2>4, <4>1 DEF Contents
        <4>2. CASE k > 0
          BY <1>2, <1>3, <1>4, <1>10, <2>4, <4>2 DEF MayProcess
        <4> QED
          BY <1>2, <4>1, <4>2
      <3> QED
        BY <1>3, <2>1, <2>2, <2>4, <3>1, <3>2 DEF Contents
    <2> QED
      BY <2>3, <2>4
  <1>15. Totals'
    <2>1. ASSUME ~s'.raw_file
          PROVE  /\ s'.files_pid \in DOMAIN files'
                 /\ s'.files_delta_cnt = files'[s'.files_pid].deltas_count + 1
                 /\ s'.files_delta_size = files'[s'.files_pid].deltas_size + ContentCells'
                 /\ s'.files_source_size = files'[s'.files_pid].source_size
      <3>1. files[s.files_pid].deltas_size \in Nat
        <4>1. files[s.files_pid] \in FileRows
          BY <1>1, <1>3, <2>1 DEF Totals, Shape, TypeOK
        <4> QED
          BY <4>1 DEF FileRows
      <3> QED
        BY <1>1, <1>2, <1>3, <1>10, <2>1, <3>1 DEF Totals
    <2> QED
      BY <2>1 DEF Totals
  <1> QED
    BY <1>14, <1>15

\* The hash goes on where the last buffer ended; the second pass leaves it
\* alone.
LEMMA ProcessSaving ==
  ASSUME Shape, Saving, ~CommitAfterError, NEW k \in Chunks, NEW e \in 0 .. MaxEmit,
         Process(k, e)
  PROVE  Saving'
  <1> SUFFICES ASSUME Streamed' PROVE Hashing' /\ Begun' /\ Contents' /\ Totals'
    BY DEF Saving
  <1>1. s'.pc \in {s.pc, "failed"} /\ s.pc \in {"stream", "done"}
    BY DEF Process, MayProcess, Going, Shape, TypeOK, SaveStates
  <1>2. s'.pc = s.pc /\ Streamed
    BY <1>1 DEF Streamed
  <1>3. Hashing /\ Begun /\ Contents /\ Totals
    BY <1>2 DEF Saving
  <1>4. /\ s'.v = s.v /\ s'.filesize = s.filesize /\ s'.data_begin = s.data_begin
        /\ s'.raw_file = s.raw_file /\ s'.use_zlib = s.use_zlib
        /\ s'.files_pid = s.files_pid /\ s'.write_signature = s.write_signature
        /\ s'.postition = s.postition /\ s'.unwind = s.unwind
        /\ s'.hashed = HashedAfter(k) /\ files' = files /\ saves' = saves
        /\ s'.files_delta_cnt = s.files_delta_cnt /\ s'.reread = s.reread
        /\ s'.files_source_size = s.files_source_size
    BY DEF Process, dbvars, Shape, TypeOK, SaveStates
  <1>5. s'.zs = "ended" \/ s'.zs = s.zs
    BY DEF Process, Shape, TypeOK, SaveStates
  <1>6. Begun'
    BY <1>3, <1>4, <1>5 DEF Begun
  <1>7. CASE s.pc = "stream"
    <2>1. Contents' /\ Totals'
      BY <1>2, <1>7, ProcessContents
    <2>2. CASE s.unwind
      <3>1. s'.hashed = s.hashed
        BY <1>4, <2>2 DEF HashedAfter
      <3> QED
        BY <1>3, <1>4, <1>6, <2>1, <3>1 DEF Hashing
    <2>3. CASE ~s.unwind
      <3>1. /\ s.bytespassed = Len(s.hashed) /\ Len(s.hashed) \in Nat /\ k \in Nat
            /\ s.hashed = FirstBytes(s.v, Len(s.hashed))
        BY <1>2, <1>3, <2>3, SaveFacts, SizeAssumption
           DEF Shape, Geometry, Streamed, Hashing
      <3>2. s'.hashed = FirstBytes(s.v, Len(s.hashed)) \o [j \in 1 .. k |-> <<s.v, Len(s.hashed) + j>>]
        BY <1>4, <2>3, <3>1 DEF HashedAfter, Chunk
      <3>3. s'.hashed = FirstBytes(s.v, Len(s.hashed) + k)
        BY <3>1, <3>2, MoreBytes
      <3>4. Len(s'.hashed) = Len(s.hashed) + k
        BY <3>1, <3>3 DEF FirstBytes
      <3>5. Hashing'
        BY <1>3, <1>4, <2>3, <3>3, <3>4 DEF Hashing
      <3> QED
        BY <1>6, <2>1, <3>5
    <2> QED
      BY <2>2, <2>3
  <1>8. CASE s.pc = "done"
    <2>1. k = 0 /\ dat' = dat /\ eof' = eof /\ s'.hashed = s.hashed
      BY <1>2, <1>8, ProcessDone
    <2>2. /\ s.bytespassed = s.filesize /\ s.zs \in {"off", "freed"}
          /\ s.bytespassed \in Nat /\ e \in Nat /\ s.files_delta_size \in Nat
      BY <1>2, <1>8, SaveFacts DEF Shape, Geometry
    <2>3. s'.bytespassed = s.bytespassed /\ s'.zs = s.zs
          /\ s'.files_delta_size = s.files_delta_size
      <3>1. s'.bytespassed = s.bytespassed + k
        BY DEF Process, Shape, TypeOK, SaveStates
      <3>2. s'.zs = s.zs
        BY <2>2 DEF Process, Shape, TypeOK, SaveStates
      <3>3. s.raw_file \/ e = 0
        BY <2>1 DEF Process, MayProcess
      <3>4. s'.files_delta_size = IF s.raw_file THEN s.files_delta_size ELSE s.files_delta_size + e
        BY DEF Process, Shape, TypeOK, SaveStates
      <3> QED
        BY <2>1, <2>2, <3>1, <3>2, <3>3, <3>4
    <2>4. Ended' = Ended /\ ContentCells' = ContentCells
      BY <1>4, <2>1, <2>3 DEF Ended, ContentCells
    <2>5. Contents'
      BY <1>3, <1>4, <2>1, <2>3, <2>4 DEF Contents
    <2>6. Totals'
      BY <1>3, <1>4, <2>3, <2>4 DEF Totals
    <2> QED
      BY <1>3, <1>4, <1>6, <2>1, <2>5, <2>6 DEF Hashing
  <1> QED
    BY <1>1, <1>7, <1>8

\* restart() leaves nothing of the delta behind, and begins the second pass
\* with the hash that the first one has left.
LEMMA RestartSaving ==
  ASSUME Shape, Saving, ~CommitAfterError, restart
  PROVE  Saving'
  <1>1. Streamed /\ s.pc = "stream" /\ ~s.raw_file
        /\ (RestartAnytime \/ s.bytespassed = s.filesize)
    BY DEF restart, MayRestart, Going, need_restart, Streamed
  <1>2. Hashing /\ Begun
    BY <1>1 DEF Saving
  <1>3. /\ s'.v = s.v /\ s'.filesize = s.filesize /\ s'.data_begin = s.data_begin
        /\ s'.raw_file = TRUE /\ s'.use_zlib = s.use_zlib
        /\ s'.files_pid = s.files_pid /\ s'.write_signature = s.write_signature
        /\ s'.postition = s.postition /\ s'.unwind = TRUE
        /\ s'.hashed = s.hashed /\ files' = files /\ saves' = saves
        /\ s'.bytespassed = 0 /\ s'.zs = (IF s.use_zlib THEN "live" ELSE "off")
        /\ eof' = s.data_begin /\ s'.reread = s.reread
    BY DEF restart, Restarted, dbvars, Shape, TypeOK, SaveStates
  <1>4. Hashing'
    <2>1. ~RestartAnytime => Len(s.hashed) = s.filesize
      BY <1>1, <1>2 DEF Hashing, Shape, Geometry
    <2> QED
      BY <1>2, <1>3, <2>1 DEF Hashing
  <1>5. Begun'
    BY <1>2, <1>3 DEF Begun
  <1>6. Contents'
    <2>1. s.data_begin \in Nat /\ s.filesize \in Nat
      BY <1>1, SaveFacts
    <2>2. ~Ended' /\ ContentCells' = 0
      BY <1>3, <2>1 DEF Ended, ContentCells
    <2>3. s'.use_zlib => s'.bytespassed < s'.filesize
      BY <1>2, <1>3 DEF Begun
    <2> QED
      BY <1>3, <2>2, <2>3 DEF Contents
  <1>7. Totals'
    BY <1>3 DEF Totals
  <1> QED
    BY <1>4, <1>5, <1>6, <1>7 DEF Saving

\* A step that leaves the payload and the save's own account of it alone.
LEMMA SamePayload ==
  ASSUME Shape, Streamed, Saving, saves' = saves, eof' = eof,
         s'.v = s.v, s'.filesize = s.filesize, s'.data_begin = s.data_begin,
         s'.raw_file = s.raw_file, s'.use_zlib = s.use_zlib,
         s'.files_pid = s.files_pid, s'.write_signature = s.write_signature,
         s'.postition = s.postition, s'.unwind = s.unwind, s'.hashed = s.hashed,
         s'.bytespassed = s.bytespassed, s'.files_delta_cnt = s.files_delta_cnt,
         s'.reread = s.reread,
         s'.files_source_size = s.files_source_size,
         s'.files_delta_size = s.files_delta_size,
         Ended' = Ended, s'.use_zlib => s'.zs # "off",
         files' = files \/ files' = Append(files, FileRow),
         \A p \in s.data_begin .. eof - 1 : dat'[p] = dat[p]
  PROVE  Saving'
  <1>1. Hashing /\ Begun /\ Contents /\ Totals /\ files \in Seq(FileRows)
    BY DEF Saving, Shape, TypeOK
  <1>2. Hashing'
    BY <1>1 DEF Hashing
  <1>3. /\ Len(files) \in Nat /\ Len(files') \in Nat /\ Len(files) <= Len(files')
        /\ DOMAIN files \subseteq DOMAIN files' /\ \A i \in DOMAIN files : files'[i] = files[i]
    BY <1>1
  <1>4. Begun'
    BY <1>1, <1>3 DEF Begun
  <1>5. Totals' /\ ContentCells' = ContentCells
    <2>1. ContentCells' = ContentCells
      BY DEF ContentCells
    <2> QED
      BY <1>1, <1>3, <2>1 DEF Totals
  <1>6. Contents'
    <2>1. eof \in Nat /\ s.data_begin \in Nat /\ s.data_begin <= eof
      BY SaveFacts
    <2>2. \A j \in 1 .. ContentCells : dat'[s.data_begin + j - 1] = dat[s.data_begin + j - 1]
      <3> TAKE j \in 1 .. ContentCells
      <3>1. s.data_begin + j - 1 \in s.data_begin .. eof - 1
        BY <2>1 DEF ContentCells
      <3> QED
        BY <3>1
    <2>3. Ended => dat'[eof - 1] = dat[eof - 1]
      <3>1. Ended => eof - 1 \in s.data_begin .. eof - 1
        BY <1>1, <2>1 DEF Contents
      <3> QED
        BY <3>1
    <2> QED
      BY <1>1, <1>5, <2>2, <2>3 DEF Contents
  <1> QED
    BY <1>2, <1>4, <1>5, <1>6 DEF Saving

\* commit() writes in front of the payload, flushes and records it.
LEMMA CommitSaving ==
  ASSUME Shape, Saving, ~CommitAfterError, CommitWrites \/ CommitFlush \/ CommitDb
  PROVE  Saving'
  <1>1. CASE CommitWrites
    <2>1. s.pc \in Going /\ s.bytespassed >= s.filesize
      BY <1>1 DEF CommitWrites
    <2>2. /\ Streamed /\ eof \in 0 .. Capacity /\ s.postition \in Nat /\ s.data_begin \in Nat
          /\ s.bytespassed = s.filesize /\ s.filesize \in Nat /\ Len(Signature) \in Nat
          /\ s.write_signature => s.postition + 2 + Len(Signature) <= s.data_begin
          /\ s.postition + 2 <= s.data_begin
      BY <2>1, CommitFacts, SizeAssumption DEF Streamed, Shape, TypeOK
    <2>3. /\ s'.v = s.v /\ s'.filesize = s.filesize /\ s'.data_begin = s.data_begin
          /\ s'.raw_file = s.raw_file /\ s'.use_zlib = s.use_zlib
          /\ s'.files_pid = s.files_pid /\ s'.write_signature = s.write_signature
          /\ s'.postition = s.postition /\ s'.unwind = s.unwind /\ s'.hashed = s.hashed
          /\ s'.bytespassed = s.bytespassed /\ s'.files_delta_cnt = s.files_delta_cnt
          /\ s'.reread = s.reread
          /\ s'.files_source_size = s.files_source_size
          /\ s'.files_delta_size = s.files_delta_size
          /\ saves' = saves /\ files' = files
          /\ s'.zs = (IF s.use_zlib THEN "freed" ELSE s.zs)
      BY <1>1 DEF CommitWrites, dbvars, Shape, TypeOK, SaveStates
    <2>4. eof' = eof /\ \A p \in s.data_begin .. eof - 1 : dat'[p] = dat[p]
      <3>1. eof' = eof
        BY <1>1, CommitWritesCells
      <3>2. ASSUME NEW p \in s.data_begin .. eof - 1 PROVE dat'[p] = dat[p]
        <4>1. /\ p \in 0 .. Capacity - 1 /\ p < eof /\ p # s.postition
              /\ ~(/\ s.write_signature /\ p >= s.postition + 2
                   /\ p < s.postition + 2 + Len(Signature))
          BY <2>2, SizeAssumption
        <4> QED
          BY <1>1, <4>1, CommitWritesCells
      <3> QED
        BY <3>1, <3>2
    <2>5. Ended' = Ended
      <3>1. s.use_zlib => Ended
        BY <2>2 DEF Saving, Contents
      <3> QED
        BY <2>3, <3>1 DEF Ended
    <2> QED
      BY <2>2, <2>3, <2>4, <2>5, SamePayload
  <1>2. CASE CommitFlush \/ CommitDb
    <2>1. Streamed
      BY <1>2 DEF CommitFlush, CommitDb, Streamed
    <2>2. /\ s'.v = s.v /\ s'.filesize = s.filesize /\ s'.data_begin = s.data_begin
          /\ s'.raw_file = s.raw_file /\ s'.use_zlib = s.use_zlib
          /\ s'.files_pid = s.files_pid /\ s'.write_signature = s.write_signature
          /\ s'.postition = s.postition /\ s'.unwind = s.unwind /\ s'.hashed = s.hashed
          /\ s'.bytespassed = s.bytespassed /\ s'.files_delta_cnt = s.files_delta_cnt
          /\ s'.reread = s.reread
          /\ s'.files_source_size = s.files_source_size
          /\ s'.files_delta_size = s.files_delta_size /\ s'.zs = s.zs
      <3>1. s \in SaveStates /\ \E c : s' = [s EXCEPT !.pc = c]
        BY <1>2 DEF CommitFlush, CommitDb, Shape, TypeOK
      <3> QED
        BY <3>1 DEF SaveStates
    <2>3. /\ saves' = saves /\ eof' = eof /\ dat' = dat
          /\ files' = files \/ files' = Append(files, FileRow)
      BY <1>2 DEF CommitFlush, CommitDb, dbvars
    <2>4. Ended' = Ended /\ (s'.use_zlib => s'.zs # "off")
      BY <2>1, <2>2 DEF Ended, Saving, Begun
    <2> QED
      BY <2>1, <2>2, <2>3, <2>4, SamePayload
  <1> QED
    BY <1>1, <1>2

LEMMA NextSaving ==
  ASSUME ~CommitAfterError, Shape, Saving, [Next]_vars
  PROVE  Saving'
  <1>1. ASSUME NEW n \in FileSizes, NEW prev \in Offsets, NEW psign \in BOOLEAN,
               NEW prob \in BOOLEAN, Construct(n, prev, psign, prob)
        PROVE  Saving'
    BY <1>1, ConstructSaving
  <1>2. ASSUME NEW k \in Chunks, NEW e \in 0 .. MaxEmit, Process(k, e) PROVE Saving'
    BY <1>2, ProcessSaving
  <1>3. CASE restart
    BY <1>3, RestartSaving
  <1>4. CASE CommitWrites \/ CommitFlush \/ CommitDb
    BY <1>4, CommitSaving
  <1>5. CASE \/ \E prev \in Offsets : ConstructError(prev)
             \/ \E k \in Chunks, e \in 0 .. MaxEmit :
                  ProcessWriteError(k, e) \/ ProcessZlibError(k, e)
             \/ restartError \/ CommitRefused \/ CommitWriteError
             \/ CommitDbError \/ Destroy \/ RepositoryNext
    <2>1. s'.pc \in {"none", "failed", "broken"} \/ restart
      BY <1>5, OtherSteps
    <2>2. CASE restart
      BY <2>2, RestartSaving
    <2>3. CASE s'.pc \in {"none", "failed", "broken"}
      BY <2>3 DEF Saving, Streamed
    <2> QED
      BY <2>1, <2>2, <2>3
  <1>6. CASE UNCHANGED vars
    BY <1>6 DEF vars, datvars, dbvars, Saving, Streamed, Hashing, Begun, Contents, Totals,
                Ended, ContentCells
  <1> QED
    BY <1>1, <1>2, <1>3, <1>4, <1>5, <1>6 DEF Next, SaveNext

-----------------------------------------------------------------------------
(* What the rows that commit() inserts say.                                *)

LEMMA FlagsAre ==
  /\ "CONTENT_DELTA" \in Flags <=> ~s.raw_file
  /\ "CONTENT_ZLIB" \in Flags <=> s.use_zlib
  /\ "CONTAINS_SIGNATURE" \in Flags <=> s.write_signature
  BY DEF Flags

\* The new rows, and how their cells are those of the save's payload.
LEMMA NewRow ==
  ASSUME Shape, Saving, Len(objects) = Len(files), CommitDb, NEW i, i = Len(objects) + 1
  PROVE  /\ objects'[i] = ObjectRow /\ files'[i] = FileRow
         /\ IsDelta(i)' = ~s.raw_file /\ Zipped(i)' = s.use_zlib
         /\ HasSign(i)' = s.write_signature
         /\ PayloadFrom(i)' = s.data_begin - s.postition + 1
         /\ RowContent(i)' = ContentCells /\ ContentCells \in Nat
         /\ Ended = s.use_zlib
         /\ Len(ObjectRow.hash) = s.objsize /\ s.objsize = eof - s.postition
         /\ \A j \in 1 .. s.objsize : ObjectRow.hash[j] = dat[s.postition + j - 1]
  <1>1. s.pc = "flushed" /\ Streamed
    BY DEF CommitDb, Streamed
  <1>2. objects'[i] = ObjectRow /\ files'[i] = FileRow
    <2>1. objects \in Seq(ObjectRows) /\ files \in Seq(FileRows)
          /\ objects' = Append(objects, ObjectRow) /\ files' = Append(files, FileRow)
      BY DEF Shape, TypeOK, CommitDb
    <2> QED
      BY <2>1
  <1>3. /\ Begun /\ Contents
        /\ s.write_signature => s.data_begin = s.postition + 2 + SignatureCells(s.filesize)
        /\ s.zs \in {"off", "freed"} /\ (~s.use_zlib => s.zs = "off")
    BY <1>1 DEF Saving, Shape, Geometry
  <1>4. /\ s.postition \in Nat /\ s.data_begin \in Nat /\ eof \in Nat /\ s.use_zlib \in BOOLEAN
        /\ s.data_begin <= eof /\ s.postition + 2 <= s.data_begin /\ s.raw_file \in BOOLEAN
    BY <1>1, SaveFacts
  <1>5. /\ s.objsize = eof - s.postition /\ s.objsize \in Nat
        /\ ObjectRow.hash = Read(dat, s.postition, s.objsize)
        /\ ObjectRow.size = s.objsize /\ ObjectRow.type = Flags /\ FileRow.file_size = s.filesize
    BY <1>1, RowTypes DEF ObjectRow, FileRow
  <1>6. IsDelta(i)' = ~s.raw_file /\ Zipped(i)' = s.use_zlib
        /\ HasSign(i)' = ("CONTAINS_SIGNATURE" \in Flags)
    BY <1>2, <1>4, <1>5, FlagsAre DEF IsDelta, Zipped, HasSign
  <1>7. s.write_signature \in BOOLEAN
    BY DEF Shape, TypeOK, SaveStates
  <1>8. HasSign(i)' = s.write_signature
    BY <1>6, <1>7, FlagsAre
  <1>9. PayloadFrom(i)' = s.data_begin - s.postition + 1
    <2>1. PayloadFrom(i)' = 3 + (IF HasSign(i)' THEN SignatureCells(FileRow.file_size) ELSE 0)
      BY <1>2 DEF PayloadFrom
    <2>2. SignatureCells(s.filesize) \in Nat
      BY <1>1, SaveFacts, BlocksFacts
    <2> QED
      BY <1>3, <1>4, <1>5, <1>8, <2>1, <2>2 DEF Begun
  <1>10. Ended = s.use_zlib
    BY <1>3, <1>4 DEF Ended
  <1>11. ContentCells \in Nat
    BY <1>3, <1>4 DEF ContentCells, Contents
  <1>12. RowContent(i)' = ContentCells
    <2>1. RowContent(i)' = ObjectRow.size + 1 - PayloadFrom(i)' - (IF Zipped(i)' THEN 1 ELSE 0)
      BY <1>2 DEF RowContent
    <2>2. ContentCells = eof - s.data_begin - (IF s.use_zlib THEN 1 ELSE 0)
      BY <1>10 DEF ContentCells
    <2>3. RowContent(i)' = s.objsize + 1 - (s.data_begin - s.postition + 1)
                             - (IF s.use_zlib THEN 1 ELSE 0)
      BY <1>5, <1>6, <1>9, <2>1
    <2> DEFINE z == IF s.use_zlib THEN 1 ELSE 0
               o == s.postition
               d == s.data_begin
               n == s.objsize
    <2>4. /\ z \in Nat /\ o \in Nat /\ d \in Nat /\ eof \in Nat /\ n = eof - o
          /\ ContentCells = eof - d - z /\ RowContent(i)' = n + 1 - (d - o + 1) - z
      BY <1>4, <1>5, <2>2, <2>3
    <2> HIDE DEF z, o, d, n
    <2>5. n + 1 - (d - o + 1) - z = eof - d - z
      BY <2>4
    <2> QED
      BY <2>4, <2>5
  <1>13. /\ Len(ObjectRow.hash) = s.objsize
         /\ \A j \in 1 .. s.objsize : ObjectRow.hash[j] = dat[s.postition + j - 1]
    BY <1>5 DEF Read
  <1> QED
    BY <1>2, <1>5, <1>6, <1>8, <1>9, <1>10, <1>11, <1>12, <1>13

LEMMA NewRowStores ==
  ASSUME Shape, Saving, Len(objects) = Len(files), CommitDb, NEW i, i = Len(objects) + 1
  PROVE  Stores(i, s.v)' /\ Accounted(i)'
  <1>1. /\ Streamed /\ Hashing /\ Begun /\ Contents /\ Totals /\ s.bytespassed = s.filesize
        /\ (~s.unwind => s.bytespassed = Len(s.hashed)) /\ s'.v = s.v
    BY DEF CommitDb, Streamed, Saving, Shape, Geometry, TypeOK, SaveStates
  <1>2. /\ objects'[i] = ObjectRow /\ files'[i] = FileRow
        /\ IsDelta(i)' = ~s.raw_file /\ Zipped(i)' = s.use_zlib
        /\ PayloadFrom(i)' = s.data_begin - s.postition + 1
        /\ RowContent(i)' = ContentCells /\ ContentCells \in Nat
        /\ Ended = s.use_zlib
        /\ Len(ObjectRow.hash) = s.objsize /\ s.objsize = eof - s.postition
        /\ \A j \in 1 .. s.objsize : ObjectRow.hash[j] = dat[s.postition + j - 1]
    BY NewRow
  <1>3. /\ ObjectRow.size = s.objsize /\ FileRow.file_size = s.filesize
        /\ FileRow.file_hash = s.hashed /\ FileRow.parent = s.files_pid
        /\ FileRow.deltas_count = (IF s.raw_file THEN 0 ELSE s.files_delta_cnt)
        /\ FileRow.deltas_size = (IF s.raw_file THEN 0 ELSE s.files_delta_size)
        /\ FileRow.source_size = (IF s.raw_file THEN s.filesize ELSE s.files_source_size)
    BY <1>1 DEF ObjectRow, FileRow, FileHash, Hashing
  <1>4. /\ s.postition \in Nat /\ s.data_begin \in Nat /\ eof \in Nat
        /\ s.postition + 2 <= s.data_begin /\ s.data_begin <= eof
        /\ s.filesize \in FileSizes /\ s.filesize \in Nat
    BY <1>1, SaveFacts
  <1>5. eof = s.data_begin + ContentCells + (IF s.use_zlib THEN 1 ELSE 0)
    <2>1. ContentCells = eof - s.data_begin - (IF s.use_zlib THEN 1 ELSE 0)
      BY <1>2 DEF ContentCells
    <2> QED
      BY <1>4, <2>1
  <1>6. /\ s.hashed = FirstBytes(s.v, Len(s.hashed))
        /\ ~RestartAnytime => Len(s.hashed) = s.filesize
    BY <1>1 DEF Hashing
  <1>7. ASSUME NEW j \in 1 .. ContentCells
        PROVE  ObjectRow.hash[PayloadFrom(i)' + j - 1] = dat[s.data_begin + j - 1]
    <2> DEFINE o == s.postition
               d == s.data_begin
               n == s.objsize
               l == ContentCells
               z == IF s.use_zlib THEN 1 ELSE 0
    <2>1. /\ o \in Nat /\ d \in Nat /\ eof \in Nat /\ o + 2 <= d /\ n = eof - o
          /\ eof = d + l + z /\ z \in Nat /\ l \in Nat /\ j \in 1 .. l
          /\ PayloadFrom(i)' = d - o + 1
          /\ \A m \in 1 .. n : ObjectRow.hash[m] = dat[o + m - 1]
      BY <1>2, <1>4, <1>5
    <2> HIDE DEF o, d, n, l, z
    <2>2. (d - o + 1) + j - 1 \in 1 .. n /\ o + ((d - o + 1) + j - 1) - 1 = d + j - 1
      BY <2>1
    <2> QED
      BY <2>1, <2>2 DEF d
  <1>8. s.use_zlib => ObjectRow.hash[s.objsize] = [k |-> "zend", v |-> s.v]
    <2> SUFFICES ASSUME s.use_zlib PROVE ObjectRow.hash[s.objsize] = [k |-> "zend", v |-> s.v]
      OBVIOUS
    <2>1. s.objsize \in 1 .. s.objsize /\ s.postition + s.objsize - 1 = eof - 1
      <3>1. s.objsize = eof - s.postition
        BY <1>2
      <3> QED
        BY <1>4, <3>1
    <2>2. dat[eof - 1] = [k |-> "zend", v |-> s.v]
      BY <1>1, <1>2 DEF Contents
    <2> QED
      BY <1>2, <2>1, <2>2
  <1>9. Stores(i, s.v)'
    <2>1. CASE s.raw_file
      <3>1. ContentCells = s.filesize
        BY <1>1, <2>1 DEF Contents
      <3>2. \A j \in 1 .. ContentCells : ObjectRow.hash[PayloadFrom(i)' + j - 1] =
              [k |-> "data", b |-> <<s.v, j>>, z |-> s.use_zlib]
        BY <1>1, <1>7, <2>1 DEF Contents
      <3>3. /\ files'[i].file_size = s.filesize /\ files'[i].file_hash = s.hashed
            /\ objects'[i].size = s.objsize /\ objects'[i].hash = ObjectRow.hash
        BY <1>2, <1>3
      <3>4. /\ files'[i].file_hash = FirstBytes(s'.v, Len(files'[i].file_hash))
            /\ ~RestartAnytime => Len(files'[i].file_hash) = files'[i].file_size
        BY <1>1, <1>6, <3>3
      <3>5. /\ files'[i].file_size \in FileSizes /\ Len(objects'[i].hash) = objects'[i].size
            /\ RowContent(i)' \in Nat /\ RowContent(i)' = files'[i].file_size
        BY <1>2, <1>4, <3>1, <3>3
      <3>6. Zipped(i)' => objects'[i].hash[objects'[i].size] = [k |-> "zend", v |-> s'.v]
        BY <1>1, <1>2, <1>8, <3>3
      <3>7. \A j \in 1 .. RowContent(i)' : objects'[i].hash[PayloadFrom(i)' + j - 1] =
              [k |-> "data", b |-> <<s'.v, j>>, z |-> Zipped(i)']
        BY <1>1, <1>2, <3>2
      <3> QED
        BY <1>2, <2>1, <3>4, <3>5, <3>6, <3>7 DEF Stores
    <2>2. CASE ~s.raw_file
      <3>1. ContentCells > 0
        BY <1>1, <2>2 DEF Contents
      <3>2. \A j \in 1 .. ContentCells : ObjectRow.hash[PayloadFrom(i)' + j - 1] =
              [k |-> "delta", v |-> s.v]
        BY <1>1, <1>7, <2>2 DEF Contents
      <3> QED
        BY <1>1, <1>2, <1>3, <1>4, <1>6, <1>8, <2>2, <3>1, <3>2 DEF Stores, FirstBytes
    <2> QED
      BY <2>1, <2>2
  <1>10. Accounted(i)'
    <2>1. /\ Len(files) \in Nat /\ i - 1 = Len(files) /\ s.files_pid \in 0 .. i - 1
      <3>1. Len(files) \in Nat
        BY DEF Shape, TypeOK
      <3> QED
        BY <1>1, <3>1 DEF Begun
    <2>2. CASE s.raw_file
      BY <1>2, <1>3, <2>1, <2>2 DEF Accounted
    <2>3. CASE ~s.raw_file
      <3>1. files \in Seq(FileRows) /\ files' = Append(files, FileRow)
        BY DEF Shape, TypeOK, CommitDb
      <3>2. s.files_pid \in DOMAIN files /\ s.files_pid # 0 /\ files'[s.files_pid] = files[s.files_pid]
        BY <1>1, <2>3, <3>1 DEF Totals
      <3>3. files[s.files_pid].deltas_count \in Nat /\ files[s.files_pid].deltas_size \in Nat
        <4>1. files[s.files_pid] \in FileRows
          BY <3>1, <3>2
        <4> QED
          BY <4>1 DEF FileRows
      <3>4. /\ FileRow.deltas_count = 1 + files[s.files_pid].deltas_count
            /\ FileRow.deltas_size = ContentCells + files[s.files_pid].deltas_size
            /\ FileRow.source_size = files[s.files_pid].source_size
        BY <1>1, <1>2, <1>3, <2>3, <3>3 DEF Totals
      <3> QED
        BY <1>2, <1>3, <2>1, <2>3, <3>2, <3>4 DEF Accounted
    <2> QED
      BY <2>2, <2>3
  <1> QED
    BY <1>9, <1>10

\* Only commit() touches the rows, and it adds one.
LEMMA OnlyCommitDb ==
  ASSUME Shape, [Next]_vars
  PROVE  CommitDb \/ UNCHANGED <<objects, files>>
  BY DEF Next, SaveNext, RepositoryNext, Construct, ConstructError, Process,
         ProcessWriteError, ProcessZlibError, restart, restartError, CommitRefused,
         CommitWrites, CommitWriteError, CommitFlush, CommitDbError, Destroy,
         OpenUnchecked, OpenChecked, CheckObject, CheckEnd, Close, Crash, Damage,
         vars, dbvars

LEMMA SavesGrow ==
  ASSUME Shape, [Next]_vars
  PROVE  saves \in Nat /\ saves' \in Nat /\ saves <= saves'
  <1>1. saves \in Nat
    BY DEF Shape, TypeOK
  <1>2. saves' = saves \/ saves' = saves + 1
    BY DEF Next, SaveNext, RepositoryNext, Construct, ConstructError, Process,
           ProcessWriteError, ProcessZlibError, restart, restartError, CommitRefused,
           CommitWrites, CommitWriteError, CommitFlush, CommitDb, CommitDbError, Destroy,
           OpenUnchecked, OpenChecked, CheckObject, CheckEnd, Close, Crash, Damage, vars
  <1> QED
    BY <1>1, <1>2

\* What a row says depends on the row and its parent's only.
LEMMA RowKept ==
  ASSUME Shape, Stored, NEW i \in DOMAIN objects,
         CommitDb \/ UNCHANGED <<objects, files>>
  PROVE  /\ Accounted(i)'
         /\ \A v \in Nat : Stores(i, v) => Stores(i, v)'
  <1>1. /\ objects \in Seq(ObjectRows) /\ files \in Seq(FileRows) /\ Len(objects) = Len(files)
    BY DEF Shape, TypeOK, Stored
  <1>2. /\ objects' = objects \/ objects' = Append(objects, ObjectRow)
        /\ files' = files \/ files' = Append(files, FileRow)
    BY DEF CommitDb
  <1>3. /\ objects'[i] = objects[i]
        /\ \A l \in 1 .. i : files'[l] = files[l]
    <2>1. Len(objects) \in Nat /\ i \in 1 .. Len(objects)
      BY <1>1
    <2>2. objects'[i] = objects[i]
      BY <1>1, <1>2, <2>1
    <2>3. \A l \in 1 .. Len(files) : files'[l] = files[l]
      BY <1>1, <1>2
    <2> QED
      BY <1>1, <2>1, <2>2, <2>3
  <1>4. i \in Nat /\ i >= 1 /\ files'[i] = files[i]
    BY <1>1, <1>3
  <1>5. /\ IsDelta(i)' = IsDelta(i) /\ Zipped(i)' = Zipped(i)
        /\ PayloadFrom(i)' = PayloadFrom(i) /\ RowContent(i)' = RowContent(i)
    BY <1>3, <1>4 DEF IsDelta, Zipped, HasSign, PayloadFrom, RowContent
  <1>6. Accounted(i)'
    <2>1. Accounted(i)
      BY DEF Stored
    <2>2. files[i].parent # 0 => files'[files[i].parent] = files[files[i].parent]
      <3>1. files[i].parent \in 0 .. i - 1
        BY <2>1 DEF Accounted
      <3> QED
        BY <1>3, <1>4, <3>1
    <2> QED
      BY <1>4, <1>5, <2>1, <2>2 DEF Accounted
  <1>7. \A v \in Nat : Stores(i, v) => Stores(i, v)'
    BY <1>3, <1>4, <1>5 DEF Stores
  <1> QED
    BY <1>6, <1>7

LEMMA NextStored ==
  ASSUME ~CommitAfterError, Shape, Saving, Stored, [Next]_vars
  PROVE  Stored'
  <1>1. /\ objects \in Seq(ObjectRows) /\ files \in Seq(FileRows) /\ Len(objects) = Len(files)
    BY DEF Shape, TypeOK, Stored
  <1>2. saves \in Nat /\ saves' \in Nat /\ saves <= saves'
    BY SavesGrow
  <1>3. CommitDb \/ UNCHANGED <<objects, files>>
    BY OnlyCommitDb
  <1>4. ASSUME NEW i \in DOMAIN objects
        PROVE  Accounted(i)' /\ \E v \in 1 .. saves' : Stores(i, v)'
    <2>1. PICK v \in 1 .. saves : Stores(i, v)
      BY DEF Stored
    <2>2. v \in Nat /\ v \in 1 .. saves'
      BY <1>2
    <2> QED
      BY <1>3, <2>1, <2>2, RowKept
  <1>5. CASE CommitDb
    <2>1. objects' = Append(objects, ObjectRow) /\ files' = Append(files, FileRow)
      BY <1>5 DEF CommitDb
    <2>2. Len(objects') = Len(files') /\ DOMAIN objects' = DOMAIN objects \cup {Len(objects) + 1}
      BY <1>1, <2>1
    <2>3. s.v \in 1 .. saves'
      BY <1>2, <1>5 DEF CommitDb, Saving, Streamed, Hashing
    <2>4. \A i \in {Len(objects) + 1} : Accounted(i)' /\ \E v \in 1 .. saves' : Stores(i, v)'
      <3> SUFFICES ASSUME NEW i \in {Len(objects) + 1}
                   PROVE  Accounted(i)' /\ \E v \in 1 .. saves' : Stores(i, v)'
        OBVIOUS
      <3>1. s'.v = s.v
        BY <1>5 DEF CommitDb, Shape, TypeOK, SaveStates
      <3>2. Stores(i, s.v)' /\ Accounted(i)'
        BY <1>1, <1>5, NewRowStores
      <3> QED
        BY <2>3, <3>1, <3>2
    <2> QED
      BY <1>4, <2>2, <2>4 DEF Stored
  <1>6. CASE UNCHANGED <<objects, files>>
    BY <1>1, <1>4, <1>6 DEF Stored
  <1> QED
    BY <1>3, <1>5, <1>6

-----------------------------------------------------------------------------
(* The theorems about contents.                                            *)

LEMMA InitSaving == Init => Saving /\ Stored
  <1> SUFFICES ASSUME Init PROVE Saving /\ Stored
    OBVIOUS
  <1>1. objects = << >> /\ files = << >> /\ s.pc = "none"
    BY NoSaveType DEF Init
  <1> QED
    BY <1>1 DEF Saving, Streamed, Stored

LEMMA ContentInvariant ==
  ASSUME ~CommitAfterError
  PROVE  Spec => [](Shape /\ Saving /\ Stored)
  <1>1. Init => Shape /\ Saving /\ Stored
    BY InitShape, InitSaving
  <1>2. (Shape /\ Saving /\ Stored) /\ [Next]_vars => (Shape /\ Saving /\ Stored)'
    BY NextShape, NextSaving, NextStored
  <1> QED
    BY <1>1, <1>2, PTL DEF Spec

\* However a file is cut into buffers, and also when restart() has made the
\* caller stream it twice: in every reachable state each row's file_size and
\* file_hash are those of one whole version of a file.
THEOREM WholeFilesHashed ==
  ASSUME ~CommitAfterError, ~RestartAnytime
  PROVE  Spec => []WholeFileHashed
  <1>1. ASSUME ~RestartAnytime, Shape, Stored, NEW i \in DOMAIN files
        PROVE  \E v \in 1 .. saves :
                 files[i].file_hash = [j \in 1 .. files[i].file_size |-> <<v, j>>]
    <2>1. i \in DOMAIN objects
      BY <1>1 DEF Stored, Shape, TypeOK
    <2>2. PICK v \in 1 .. saves : Stores(i, v)
      BY <1>1, <2>1 DEF Stored
    <2> QED
      BY <2>2 DEF Stores, FirstBytes
  <1>2. Shape /\ Stored => WholeFileHashed
    BY <1>1 DEF WholeFileHashed
  <1> QED
    BY <1>2, ContentInvariant, PTL

\* The payload of a row is what its content and the end of its deflate stream
\* are counted in.
LEMMA PayloadIs ==
  ASSUME Shape, Stored, NEW i \in DOMAIN objects, NEW v \in Nat, Stores(i, v)
  PROVE  /\ RowContent(i) \in Nat /\ PayloadFrom(i) \in Nat /\ PayloadFrom(i) >= 3
         /\ Len(Payload(i)) = RowContent(i) + (IF Zipped(i) THEN 1 ELSE 0)
         /\ ContentSize(i) = RowContent(i)
         /\ \A j \in 1 .. Len(Payload(i)) : Payload(i)[j] = objects[i].hash[PayloadFrom(i) + j - 1]
         /\ Payload(i) \in Seq(Cells)
         /\ End(objects[i]) = objects[i].offset + PayloadFrom(i) - 1 + Len(Payload(i))
  <1> DEFINE h == objects[i].hash
             q == PayloadFrom(i)
             z == IF Zipped(i) THEN 1 ELSE 0
             n == objects[i].size
             c == RowContent(i)
  <1>1. objects[i] \in ObjectRows
    BY DEF Shape, TypeOK
  <1>2. /\ h \in Seq(Cells) /\ n \in Nat /\ z \in Nat /\ objects[i].offset \in Nat
        /\ Len(h) = n /\ c \in Nat /\ c = n + 1 - q - z
    BY <1>1, SizeAssumption DEF Stores, RowContent, ObjectRows
  <1>3. q \in Nat /\ q >= 3
    <2>1. SignatureCells(files[i].file_size) \in Nat
      BY BlocksFacts DEF Stores
    <2> QED
      BY <2>1 DEF PayloadFrom
  <1>4. Payload(i) = SubSeq(h, q, n)
    BY <1>2 DEF Payload
  <1>5. ContentSize(i) = Len(Payload(i)) - z
    BY DEF ContentSize
  <1>6. End(objects[i]) = objects[i].offset + n
    BY DEF End
  <1> HIDE DEF h, q, z, n, c
  <1>7. n + 1 - q = c + z /\ c + z \in Nat
    BY <1>2, <1>3
  <1>8. /\ SubSeq(h, q, n) \in Seq(Cells) /\ Len(SubSeq(h, q, n)) = c + z
        /\ \A j \in 1 .. c + z : SubSeq(h, q, n)[j] = h[q + j - 1]
    BY <1>2, <1>3, <1>7
  <1>9. ContentSize(i) = c
    BY <1>2, <1>4, <1>5, <1>8
  <1>10. End(objects[i]) = objects[i].offset + q - 1 + (c + z)
    BY <1>2, <1>3, <1>6
  <1> QED
    BY <1>2, <1>3, <1>4, <1>8, <1>9, <1>10 DEF h, q, z, c

\* What a committed object holds behind its header and signature is the whole
\* file or nothing but commands of its delta, with one finished deflate stream
\* around it if it is compressed: process(), restart() and commit() never leave
\* a mixture behind.  (The property compares it with the hash, so a restart()
\* that comes too early is excluded.)
THEOREM ContentsAreStored ==
  ASSUME ~CommitAfterError, ~RestartAnytime
  PROVE  Spec => []ContentStored
  <1>1. ASSUME Shape, Stored PROVE ContentStored
    <2> SUFFICES ASSUME NEW i \in DOMAIN objects
                 PROVE  /\ Zipped(i) => Payload(i) # << >> /\ Payload(i)[Len(Payload(i))].k = "zend"
                        /\ IF IsDelta(i) THEN \A j \in 1 .. ContentSize(i) : Payload(i)[j].k = "delta"
                           ELSE SubSeq(Payload(i), 1, ContentSize(i)) = WholeContent(i)
      BY DEF ContentStored
    <2>1. PICK v \in Nat : Stores(i, v)
      <3>1. saves \in Nat
        BY <1>1 DEF Shape, TypeOK
      <3> QED
        BY <1>1, <3>1 DEF Stored
    <2>2. /\ RowContent(i) \in Nat /\ PayloadFrom(i) \in Nat
          /\ Len(Payload(i)) = RowContent(i) + (IF Zipped(i) THEN 1 ELSE 0)
          /\ ContentSize(i) = RowContent(i) /\ Payload(i) \in Seq(Cells)
          /\ \A j \in 1 .. Len(Payload(i)) : Payload(i)[j] = objects[i].hash[PayloadFrom(i) + j - 1]
      BY <1>1, <2>1, PayloadIs
    <2>3. ASSUME Zipped(i) PROVE Payload(i) # << >> /\ Payload(i)[Len(Payload(i))].k = "zend"
      <3>1. Len(Payload(i)) = RowContent(i) + 1
        BY <2>2, <2>3
      <3>2. objects[i].size = PayloadFrom(i) + Len(Payload(i)) - 1
        <4>1. objects[i].size \in Nat /\ RowContent(i) = objects[i].size + 1 - PayloadFrom(i) - 1
          BY <1>1, <2>3, RowFacts DEF RowContent, Shape
        <4> QED
          BY <2>2, <3>1, <4>1
      <3>3. Payload(i)[Len(Payload(i))] = objects[i].hash[objects[i].size]
        BY <2>2, <3>1, <3>2
      <3> QED
        BY <2>1, <2>3, <3>1, <3>3, <2>2 DEF Stores
    <2>4. ASSUME IsDelta(i), NEW j \in 1 .. ContentSize(i) PROVE Payload(i)[j].k = "delta"
      <3>1. j \in 1 .. Len(Payload(i)) /\ j \in 1 .. RowContent(i)
        BY <2>2
      <3>2. objects[i].hash[PayloadFrom(i) + j - 1] = [k |-> "delta", v |-> v]
        BY <2>1, <2>4, <3>1 DEF Stores
      <3> QED
        BY <2>2, <3>1, <3>2
    <2>5. ASSUME ~IsDelta(i) PROVE SubSeq(Payload(i), 1, ContentSize(i)) = WholeContent(i)
      <3> DEFINE n == files[i].file_size
                 p == Payload(i)
                 w(j) == [k |-> "data", b |-> <<v, j>>, z |-> Zipped(i)]
      <3>1. n \in Nat /\ ContentSize(i) = n /\ n <= Len(p) /\ files[i].file_hash = FirstBytes(v, n)
        BY <2>1, <2>2, <2>5, SizeAssumption DEF Stores
      <3>2. \A j \in 1 .. n : p[j] = w(j)
        <4> TAKE j \in 1 .. n
        <4>1. j \in 1 .. Len(p) /\ j \in 1 .. RowContent(i)
          BY <2>2, <3>1
        <4> QED
          BY <2>1, <2>2, <2>5, <4>1 DEF Stores
      <3>3. WholeContent(i) = [j \in 1 .. n |-> w(j)]
        BY <3>1 DEF WholeContent, FirstBytes
      <3>4. p \in Seq(Cells)
        BY <2>2
      <3> HIDE DEF p, w, n
      <3>5. SubSeq(p, 1, n) = [j \in 1 .. n |-> w(j)]
        <4>1. SubSeq(p, 1, n) = [j \in 1 .. n |-> p[j]]
          BY <3>1, <3>4
        <4> QED
          BY <3>2, <4>1
      <3> QED
        BY <3>1, <3>3, <3>5 DEF p
    <2> QED
      BY <2>3, <2>4, <2>5
  <1> QED
    BY <1>1, ContentInvariant, PTL

-----------------------------------------------------------------------------
(* The signature between header and payload.                               *)

\* Two sequences of the same length and with the same elements.
LEMMA SameSeq ==
  ASSUME NEW T, NEW p \in Seq(T), NEW q \in Seq(T), Len(p) = Len(q),
         \A j \in 1 .. Len(p) : p[j] = q[j]
  PROVE  p = q
  OBVIOUS

\* The entries that row i calls for, as SignatureStored spells them out
RowSignature(i) ==
  LET b == EmbeddedBlockSize(files[i].file_size)
      n == files[i].file_size \div b
  IN <<[k |-> "sig", count |-> n]>> \o
     [m \in 1 .. n |-> [k |-> "block",
        bytes |-> SubSeq(files[i].file_hash, (m - 1) * b + 1, m * b)]]

\* The signature that commit() has written, of a hash that has seen the whole
\* file, is the one the new row promises.
LEMMA NewRowSigned ==
  ASSUME ~RestartAnytime, Shape, Saving, Written, Len(objects) = Len(files), CommitDb,
         NEW i, i = Len(objects) + 1, HasSign(i)'
  PROVE  SubSeq(objects'[i].hash, 3, PayloadFrom(i)' - 1) = RowSignature(i)'
  <1>1. /\ Streamed /\ Hashing /\ InPlace /\ s.bytespassed = s.filesize
        /\ (~s.unwind => s.bytespassed = Len(s.hashed)) /\ s.pc = "flushed"
    BY DEF CommitDb, Streamed, Saving, Shape, Geometry, Written
  <1>2. /\ objects'[i] = ObjectRow /\ files'[i] = FileRow /\ s.write_signature
        /\ PayloadFrom(i)' = s.data_begin - s.postition + 1
        /\ Len(ObjectRow.hash) = s.objsize /\ s.objsize = eof - s.postition
        /\ \A j \in 1 .. s.objsize : ObjectRow.hash[j] = dat[s.postition + j - 1]
    BY NewRow
  <1>3. /\ s.postition \in Nat /\ s.data_begin \in Nat /\ eof \in Nat
        /\ s.filesize \in FileSizes /\ s.data_begin <= eof
    BY <1>1, SaveFacts
  <1>4. s.data_begin = s.postition + 2 + SignatureCells(s.filesize)
    BY <1>1, <1>2 DEF Shape, Geometry
  <1>5. Len(s.hashed) = s.filesize
    BY <1>1 DEF Hashing
  <1>6. /\ Signature \in Seq(Cells) /\ Len(Signature) = SignatureCells(s.filesize)
        /\ Len(Signature) \in Nat
    <2>1. /\ Signature \in Seq(Cells) /\ Len(Signature) \in Nat
          /\ Len(Signature) = 1 + Len(s.hashed) \div EmbeddedBlockSize(s.filesize)
      BY <1>1, SignatureType DEF Shape
    <2> QED
      BY <1>5, <2>1 DEF SignatureCells, Blocks
  <1>7. \A m \in 1 .. Len(Signature) : dat[s.postition + 1 + m] = Signature[m]
    BY <1>1, <1>2 DEF InPlace
  <1>8. RowSignature(i)' = Signature
    <2>1. FileRow.file_size = s.filesize /\ FileRow.file_hash = s.hashed
      BY <1>1 DEF FileRow, FileHash, Hashing
    <2> QED
      BY <1>2, <1>5, <2>1 DEF RowSignature, Signature, Blocks
  <1> DEFINE o == s.postition
             d == s.data_begin
             n == s.objsize
             l == Len(Signature)
             h == ObjectRow.hash
  <1>9. /\ o \in Nat /\ d \in Nat /\ eof \in Nat /\ l \in Nat /\ n = eof - o
        /\ d = o + 2 + l /\ d <= eof /\ Len(h) = n
        /\ \A j \in 1 .. n : h[j] = dat[o + j - 1]
    BY <1>2, <1>3, <1>4, <1>6
  <1>10. h \in Seq(Cells)
    <2>1. ObjectRow \in ObjectRows
      BY <1>1, RowTypes
    <2> QED
      BY <2>1 DEF ObjectRows
  <1> HIDE DEF o, d, n, h
  <1>11. ASSUME NEW m \in 1 .. l PROVE h[m + 2] = Signature[m]
    <2>1. m + 2 \in 1 .. n /\ o + (m + 2) - 1 = o + 1 + m
      <3> HIDE DEF l
      <3> QED
        BY <1>9
    <2>2. h[m + 2] = dat[o + 1 + m]
      BY <1>9, <2>1
    <2> QED
      BY <1>7, <2>2 DEF o
  <1>12. SubSeq(h, 3, l + 2) = Signature
    <2>1. l + 2 <= Len(h) /\ l \in Nat
      <3> HIDE DEF l
      <3> QED
        BY <1>9
    <2>2. /\ SubSeq(h, 3, l + 2) \in Seq(Cells) /\ Len(SubSeq(h, 3, l + 2)) = l
          /\ \A m \in 1 .. l : SubSeq(h, 3, l + 2)[m] = h[m + 2]
      <3> HIDE DEF l
      <3> QED
        BY <1>10, <2>1
    <2> QED
      BY <1>6, <1>11, <2>2, SameSeq
  <1>13. PayloadFrom(i)' - 1 = l + 2
    <2>1. PayloadFrom(i)' = d - o + 1
      BY <1>2 DEF d, o
    <2> HIDE DEF l
    <2> QED
      BY <1>9, <2>1
  <1> QED
    BY <1>2, <1>8, <1>12, <1>13 DEF h

\* Every object that says it contains a signature contains one entry for each
\* full block of the file whose hash stands next to it, in the space that the
\* constructor has set aside.
THEOREM SignaturesAreStored ==
  ASSUME ~CommitAfterError, ~RestartAnytime
  PROVE  Spec => []SignatureStored
  <1> DEFINE Signed == \A i \in DOMAIN objects : HasSign(i) =>
                         SubSeq(objects[i].hash, 3, PayloadFrom(i) - 1) = RowSignature(i)
  <1>1. Init => Written /\ Signed
    <2> SUFFICES ASSUME Init PROVE Written /\ Signed
      OBVIOUS
    <2>1. objects = << >>
      BY DEF Init
    <2> QED
      BY <2>1, InitKept
  <1>2. ASSUME Shape, Saving, Stored, Written, Signed, [Next]_vars PROVE Signed'
    <2>1. /\ objects \in Seq(ObjectRows) /\ files \in Seq(FileRows) /\ Len(objects) = Len(files)
      BY <1>2 DEF Shape, TypeOK, Stored
    <2>2. CommitDb \/ UNCHANGED <<objects, files>>
      BY <1>2, OnlyCommitDb
    <2>3. /\ objects' = objects \/ objects' = Append(objects, ObjectRow)
          /\ files' = files \/ files' = Append(files, FileRow)
      BY <2>2 DEF CommitDb
    <2> SUFFICES ASSUME NEW i \in DOMAIN objects', HasSign(i)'
                 PROVE  SubSeq(objects'[i].hash, 3, PayloadFrom(i)' - 1) = RowSignature(i)'
      OBVIOUS
    <2>4. CASE i \in DOMAIN objects
      <3>1. objects'[i] = objects[i] /\ files'[i] = files[i]
        BY <2>1, <2>3, <2>4
      <3>2. HasSign(i)' = HasSign(i) /\ PayloadFrom(i)' = PayloadFrom(i)
            /\ RowSignature(i)' = RowSignature(i)
        BY <3>1 DEF HasSign, PayloadFrom, RowSignature
      <3> QED
        BY <1>2, <2>4, <3>1, <3>2
    <2>5. CASE i \notin DOMAIN objects
      <3>1. CommitDb /\ i = Len(objects) + 1
        BY <2>1, <2>2, <2>5 DEF CommitDb
      <3> QED
        BY <1>2, <2>1, <3>1, NewRowSigned
    <2> QED
      BY <2>4, <2>5
  <1>3. Signed => SignatureStored
    BY DEF SignatureStored, RowSignature
  <1>4. Shape /\ Written /\ [Next]_vars => Written'
    BY NextWritten
  <1> HIDE DEF Signed
  <1> QED
    BY <1>1, <1>2, <1>3, <1>4, ContentInvariant, PTL DEF Spec

-----------------------------------------------------------------------------
(* Chains of deltas.  A recursive definition says what a chain is, the     *)
(* rows only how each refers to its parent's; they agree by induction on   *)
(* the rows, because a parent has the smaller id.                          *)

LEMMA LeastNumber ==
  ASSUME NEW T, T \subseteq Nat, T # {}
  PROVE  \E x \in T : \A y \in T : x <= y
  <1>1. IsWellFoundedOn(OpToRel(<, Nat), Nat)
    BY NatLessThanWellFounded
  <1>2. PICK x \in T : \A y \in T : ~ (<<y, x>> \in OpToRel(<, Nat))
    BY <1>1, WFMin
  <1>3. \A m, n \in Nat : m < n => <<m, n>> \in OpToRel(<, Nat)
    BY DEF OpToRel
  <1>4. \A y \in T : ~(y < x)
    BY <1>2, <1>3
  <1> QED
    BY <1>4

\* Two functions are equal when their values depend in the same way on those
\* of smaller numbers.
LEMMA SameByRecursion ==
  ASSUME NEW n \in Nat, NEW f, NEW g,
         \A i \in 1 .. n : (\A j \in 1 .. i - 1 : f[j] = g[j]) => f[i] = g[i]
  PROVE  \A i \in 1 .. n : f[i] = g[i]
  <1> DEFINE T == {i \in 1 .. n : f[i] # g[i]}
  <1>1. T \subseteq Nat
    OBVIOUS
  <1>2. ASSUME T # {} PROVE FALSE
    <2>1. PICK x \in T : \A y \in T : x <= y
      <3> HIDE DEF T
      <3> QED
        BY <1>1, <1>2, LeastNumber
    <2>2. \A j \in 1 .. x - 1 : f[j] = g[j]
      BY <2>1
    <2> QED
      BY <2>1, <2>2
  <1> QED
    BY <1>2

\* The totals that commit() copies from row to row satisfy the equations that
\* define a chain's length, its delta cells and the size at its root.
LEMMA RowTotals ==
  ASSUME Shape, Stored
  PROVE  /\ Len(files) \in Nat /\ DOMAIN files = 1 .. Len(files)
         /\ \A i \in 1 .. Len(files) :
              /\ files[i].parent \in 0 .. i - 1
              /\ IsDelta(i) => files[i].parent \in 1 .. i - 1
              /\ files[i].deltas_count =
                   IF IsDelta(i) THEN 1 + files[files[i].parent].deltas_count ELSE 0
              /\ files[i].deltas_size =
                   IF IsDelta(i) THEN ContentSize(i) + files[files[i].parent].deltas_size ELSE 0
              /\ files[i].source_size =
                   IF IsDelta(i) THEN files[files[i].parent].source_size ELSE files[i].file_size
  <1>1. /\ Len(files) \in Nat /\ DOMAIN files = 1 .. Len(files)
        /\ DOMAIN objects = 1 .. Len(files)
    BY DEF Shape, TypeOK, Stored
  <1> SUFFICES ASSUME NEW i \in 1 .. Len(files)
               PROVE  /\ files[i].parent \in 0 .. i - 1
                      /\ IsDelta(i) => files[i].parent \in 1 .. i - 1
                      /\ files[i].deltas_count =
                           IF IsDelta(i) THEN 1 + files[files[i].parent].deltas_count ELSE 0
                      /\ files[i].deltas_size =
                           IF IsDelta(i) THEN ContentSize(i) + files[files[i].parent].deltas_size
                           ELSE 0
                      /\ files[i].source_size =
                           IF IsDelta(i) THEN files[files[i].parent].source_size
                           ELSE files[i].file_size
    BY <1>1
  <1>2. Accounted(i) /\ \E v \in 1 .. saves : Stores(i, v)
    BY <1>1 DEF Stored
  <1>3. ContentSize(i) = RowContent(i)
    <2>1. PICK v \in Nat : Stores(i, v)
      BY <1>2 DEF Shape, TypeOK
    <2> QED
      BY <1>1, <2>1, PayloadIs
  <1> QED
    BY <1>2, <1>3 DEF Accounted

\* A recursive function is what its defining equation says, once any function
\* satisfies that equation.
LEMMA ChainLengthIs ==
  ASSUME Shape, Stored
  PROVE  \A i \in DOMAIN files : files[i].deltas_count = ChainLength[i]
  <1> DEFINE f == [i \in DOMAIN files |-> files[i].deltas_count]
  <1>1. f = [i \in DOMAIN files |-> IF IsDelta(i) THEN 1 + f[files[i].parent] ELSE 0]
    <2>1. \A i \in DOMAIN files :
            files[i].deltas_count = IF IsDelta(i) THEN 1 + f[files[i].parent] ELSE 0
      BY RowTotals
    <2> QED
      BY <2>1
  <1>2. ChainLength =
          [i \in DOMAIN files |-> IF IsDelta(i) THEN 1 + ChainLength[files[i].parent] ELSE 0]
    <2>1. \E g : g = [i \in DOMAIN files |-> IF IsDelta(i) THEN 1 + g[files[i].parent] ELSE 0]
      <3> HIDE DEF f
      <3> QED
        BY <1>1
    <2> QED
      BY <2>1 DEF ChainLength
  <1> HIDE DEF ChainLength
  <1>3. ASSUME NEW i \in 1 .. Len(files), \A j \in 1 .. i - 1 : f[j] = ChainLength[j]
        PROVE  f[i] = ChainLength[i]
    <2> HIDE DEF f
    <2>1. i \in DOMAIN files /\ (IsDelta(i) => files[i].parent \in 1 .. i - 1)
      BY RowTotals
    <2>2. IsDelta(i) => f[files[i].parent] = ChainLength[files[i].parent]
      BY <1>3, <2>1
    <2>3. f[i] = IF IsDelta(i) THEN 1 + f[files[i].parent] ELSE 0
      BY <1>1, <2>1
    <2>4. ChainLength[i] = IF IsDelta(i) THEN 1 + ChainLength[files[i].parent] ELSE 0
      BY <1>2, <2>1
    <2> QED
      BY <2>2, <2>3, <2>4
  <1>4. \A i \in 1 .. Len(files) : f[i] = ChainLength[i]
    <2> DEFINE n == Len(files)
    <2>1. n \in Nat /\ \A i \in 1 .. n : (\A j \in 1 .. i - 1 : f[j] = ChainLength[j]) => f[i] = ChainLength[i]
      BY <1>3, RowTotals
    <2> HIDE DEF f, n
    <2>2. \A i \in 1 .. n : f[i] = ChainLength[i]
      BY <2>1, SameByRecursion
    <2> QED
      BY <2>2 DEF n
  <1> QED
    BY <1>4, RowTotals

LEMMA ChainCellsAre ==
  ASSUME Shape, Stored
  PROVE  \A i \in DOMAIN files : files[i].deltas_size = ChainCells[i]
  <1> DEFINE f == [i \in DOMAIN files |-> files[i].deltas_size]
  <1>1. f = [i \in DOMAIN files |->
               IF IsDelta(i) THEN ContentSize(i) + f[files[i].parent] ELSE 0]
    <2>1. \A i \in DOMAIN files :
            files[i].deltas_size = IF IsDelta(i) THEN ContentSize(i) + f[files[i].parent] ELSE 0
      BY RowTotals
    <2> QED
      BY <2>1
  <1>2. ChainCells =
          [i \in DOMAIN files |->
             IF IsDelta(i) THEN ContentSize(i) + ChainCells[files[i].parent] ELSE 0]
    <2>1. \E g : g = [i \in DOMAIN files |->
                        IF IsDelta(i) THEN ContentSize(i) + g[files[i].parent] ELSE 0]
      <3> HIDE DEF f
      <3> QED
        BY <1>1
    <2> QED
      BY <2>1 DEF ChainCells
  <1> HIDE DEF ChainCells
  <1>3. ASSUME NEW i \in 1 .. Len(files), \A j \in 1 .. i - 1 : f[j] = ChainCells[j]
        PROVE  f[i] = ChainCells[i]
    <2> HIDE DEF f
    <2>1. i \in DOMAIN files /\ (IsDelta(i) => files[i].parent \in 1 .. i - 1)
      BY RowTotals
    <2>2. IsDelta(i) => f[files[i].parent] = ChainCells[files[i].parent]
      BY <1>3, <2>1
    <2>3. f[i] = IF IsDelta(i) THEN ContentSize(i) + f[files[i].parent] ELSE 0
      BY <1>1, <2>1
    <2>4. ChainCells[i] = IF IsDelta(i) THEN ContentSize(i) + ChainCells[files[i].parent] ELSE 0
      BY <1>2, <2>1
    <2> QED
      BY <2>2, <2>3, <2>4
  <1>4. \A i \in 1 .. Len(files) : f[i] = ChainCells[i]
    <2> DEFINE n == Len(files)
    <2>1. n \in Nat /\ \A i \in 1 .. n : (\A j \in 1 .. i - 1 : f[j] = ChainCells[j]) => f[i] = ChainCells[i]
      BY <1>3, RowTotals
    <2> HIDE DEF f, n
    <2>2. \A i \in 1 .. n : f[i] = ChainCells[i]
      BY <2>1, SameByRecursion
    <2> QED
      BY <2>2 DEF n
  <1> QED
    BY <1>4, RowTotals

LEMMA ChainSourceIs ==
  ASSUME Shape, Stored
  PROVE  \A i \in DOMAIN files : files[i].source_size = ChainSource[i]
  <1> DEFINE f == [i \in DOMAIN files |-> files[i].source_size]
  <1>1. f = [i \in DOMAIN files |->
               IF IsDelta(i) THEN f[files[i].parent] ELSE files[i].file_size]
    <2>1. \A i \in DOMAIN files :
            files[i].source_size = IF IsDelta(i) THEN f[files[i].parent] ELSE files[i].file_size
      BY RowTotals
    <2> QED
      BY <2>1
  <1>2. ChainSource =
          [i \in DOMAIN files |->
             IF IsDelta(i) THEN ChainSource[files[i].parent] ELSE files[i].file_size]
    <2>1. \E g : g = [i \in DOMAIN files |->
                        IF IsDelta(i) THEN g[files[i].parent] ELSE files[i].file_size]
      <3> HIDE DEF f
      <3> QED
        BY <1>1
    <2> QED
      BY <2>1 DEF ChainSource
  <1> HIDE DEF ChainSource
  <1>3. ASSUME NEW i \in 1 .. Len(files), \A j \in 1 .. i - 1 : f[j] = ChainSource[j]
        PROVE  f[i] = ChainSource[i]
    <2> HIDE DEF f
    <2>1. i \in DOMAIN files /\ (IsDelta(i) => files[i].parent \in 1 .. i - 1)
      BY RowTotals
    <2>2. IsDelta(i) => f[files[i].parent] = ChainSource[files[i].parent]
      BY <1>3, <2>1
    <2>3. f[i] = IF IsDelta(i) THEN f[files[i].parent] ELSE files[i].file_size
      BY <1>1, <2>1
    <2>4. ChainSource[i] = IF IsDelta(i) THEN ChainSource[files[i].parent] ELSE files[i].file_size
      BY <1>2, <2>1
    <2> QED
      BY <2>2, <2>3, <2>4
  <1>4. \A i \in 1 .. Len(files) : f[i] = ChainSource[i]
    <2> DEFINE n == Len(files)
    <2>1. n \in Nat /\ \A i \in 1 .. n : (\A j \in 1 .. i - 1 : f[j] = ChainSource[j]) => f[i] = ChainSource[i]
      BY <1>3, RowTotals
    <2> HIDE DEF f, n
    <2>2. \A i \in 1 .. n : f[i] = ChainSource[i]
      BY <2>1, SameByRecursion
    <2> QED
      BY <2>2 DEF n
  <1> QED
    BY <1>4, RowTotals

\* A chain of deltas leads to ever earlier versions and ends at a file stored
\* whole; the three totals that decide between delta and whole file are those
\* of the chain, however long it gets and whenever callers restart().
THEOREM ChainsAreAccounted ==
  ASSUME ~CommitAfterError
  PROVE  Spec => []ChainAccounting
  <1>1. ASSUME Shape, Stored PROVE ChainAccounting
    <2>1. \A i \in DOMAIN files :
            /\ files[i].deltas_count = ChainLength[i]
            /\ files[i].deltas_size = ChainCells[i]
            /\ files[i].source_size = ChainSource[i]
      BY <1>1, ChainLengthIs, ChainCellsAre, ChainSourceIs
    <2>2. \A i \in DOMAIN files : files[i].parent < i /\ (IsDelta(i) => files[i].parent # 0)
      BY <1>1, RowTotals
    <2> QED
      BY <2>1, <2>2 DEF ChainAccounting
  <1> QED
    BY <1>1, ContentInvariant, PTL

=============================================================================
