--------------------------- MODULE FileSaveProofs ---------------------------
(***************************************************************************)
(* Proofs about FileSave, for every size of MAIN.DAT, every set of file    *)
(* and buffer sizes and every configuration.                               *)
(***************************************************************************)
EXTENDS FileSave, TLAPS

-----------------------------------------------------------------------------
(* Sequences, division, and the primitives on cells.                       *)

\* A function on 1 .. n is a sequence.
LEMMA FunctionIsSeq ==
  ASSUME NEW T, NEW n \in Nat, NEW f \in [1 .. n -> T]
  PROVE  f \in Seq(T) /\ Len(f) = n
  OBVIOUS

\* Division by a positive number, and what it says about products.
LEMMA DivFacts ==
  ASSUME NEW a \in Nat, NEW b \in Nat \ {0}
  PROVE  /\ a \div b \in Nat
         /\ (a \div b) * b <= a
         /\ \A c \in Nat : c <= a => c \div b <= a \div b
  OBVIOUS

LEMMA TimesMonotone ==
  ASSUME NEW i \in Nat, NEW n \in Nat, NEW b \in Nat, i <= n
  PROVE  i * b \in Nat /\ i * b <= n * b
  OBVIOUS

\* Overwriting and cutting cells leaves a MAIN.DAT of cells.
LEMMA PrefixType ==
  ASSUME NEW T, NEW c \in Seq(T), NEW j \in Nat, j <= Len(c)
  PROVE  SubSeq(c, 1, j) \in Seq(T) /\ Len(SubSeq(c, 1, j)) = j
  OBVIOUS

LEMMA PutType ==
  ASSUME NEW d \in [0 .. Capacity - 1 -> Cells], NEW q \in Nat, NEW c \in Seq(Cells)
  PROVE  Put(d, q, c) \in [0 .. Capacity - 1 -> Cells]
  BY SizeAssumption DEF Put

LEMMA CutType ==
  ASSUME NEW d \in [0 .. Capacity - 1 -> Cells], NEW z
  PROVE  Cut(d, z) \in [0 .. Capacity - 1 -> Cells]
  <1>1. Blank \in Cells
    BY DEF Cells
  <1> QED
    BY <1>1 DEF Cut

-----------------------------------------------------------------------------
(* What the operators of FileSave return.                                  *)

LEMMA BlocksFacts ==
  ASSUME NEW n \in FileSizes
  PROVE  /\ EmbeddedBlockSize(n) \in Nat \ {0}
         /\ n \in Nat
         /\ Blocks(n) \in Nat
         /\ SignatureCells(n) \in Nat
         /\ \A h \in Nat : h <= n => h \div EmbeddedBlockSize(n) <= Blocks(n)
  <1>1. EmbeddedBlockSize(n) \in Nat \ {0} /\ n \in Nat
    BY BlockSizeAssumption, SizeAssumption
  <1>2. /\ n \div EmbeddedBlockSize(n) \in Nat
        /\ \A h \in Nat : h <= n => h \div EmbeddedBlockSize(n) <= n \div EmbeddedBlockSize(n)
    BY <1>1, DivFacts
  <1>3. Blocks(n) = n \div EmbeddedBlockSize(n)
    BY DEF Blocks
  <1>4. SignatureCells(n) = 1 + Blocks(n)
    BY DEF SignatureCells
  <1>5. Blocks(n) \in Nat
    BY <1>2, <1>3
  <1>6. SignatureCells(n) \in Nat
    BY <1>4, <1>5
  <1>7. \A h \in Nat : h <= n => h \div EmbeddedBlockSize(n) <= Blocks(n)
    BY <1>2, <1>3
  <1> QED
    BY <1>1, <1>5, <1>6, <1>7

\* The bytes of a buffer, and what the hash has seen after it.
LEMMA ChunkFacts ==
  ASSUME TypeOK, NEW k \in Chunks
  PROVE  /\ k \in Nat
         /\ Chunk(k) \in Seq(Bytes) /\ Len(Chunk(k)) = k
         /\ HashedAfter(k) \in Seq(Bytes)
         /\ Len(HashedAfter(k)) = IF s.unwind THEN Len(s.hashed) ELSE Len(s.hashed) + k
  <1>1. k \in Nat /\ s.v \in Nat /\ s.bytespassed \in Nat /\ s.hashed \in Seq(Bytes)
    BY SizeAssumption DEF TypeOK, SaveStates
  <1>2. Chunk(k) \in [1 .. k -> Bytes]
    BY <1>1 DEF Chunk, Bytes
  <1>3. Chunk(k) \in Seq(Bytes) /\ Len(Chunk(k)) = k
    BY <1>1, <1>2, FunctionIsSeq
  <1> QED
    BY <1>1, <1>3 DEF HashedAfter

\* What a process() call writes is a sequence of cells.
LEMMA ProcessCellsType ==
  ASSUME TypeOK, NEW k \in Chunks, NEW e \in 0 .. MaxEmit
  PROVE  ProcessCells(k, e) \in Seq(Cells)
  <1>1. s.v \in Nat /\ s.use_zlib \in BOOLEAN /\ e \in Nat /\ k \in Nat
    BY SizeAssumption DEF TypeOK, SaveStates
  <1>2. Finish \in Seq(Cells)
    <2>1. [k |-> "zend", v |-> s.v] \in Cells
      BY <1>1 DEF Cells
    <2> QED
      BY <2>1 DEF Finish
  <1>3. [j \in 1 .. e |-> [k |-> "delta", v |-> s.v]] \in Seq(Cells)
    <2>1. [k |-> "delta", v |-> s.v] \in Cells
      BY <1>1 DEF Cells
    <2> QED
      BY <1>1, <2>1, FunctionIsSeq
  <1>4. [j \in 1 .. k |-> [k |-> "data", b |-> Chunk(k)[j], z |-> s.use_zlib]] \in Seq(Cells)
    <2>1. \A j \in 1 .. k : Chunk(k)[j] \in Bytes
      BY ChunkFacts
    <2>2. \A j \in 1 .. k : [k |-> "data", b |-> Chunk(k)[j], z |-> s.use_zlib] \in Cells
      BY <1>1, <2>1 DEF Cells
    <2> QED
      BY <1>1, <2>2, FunctionIsSeq
  <1>5. BufferCells(k, e) \in Seq(Cells)
    BY <1>2, <1>3, <1>4 DEF BufferCells
  <1> QED
    BY <1>2, <1>5 DEF ProcessCells

\* The header word and the signature are cells; the signature has one cell
\* for its size word and one for each block hashed.
LEMMA HeaderType ==
  ASSUME TypeOK, NEW end \in Int
  PROVE  Header(end) \in Cells /\ <<Header(end)>> \in Seq(Cells)
  <1>1. Flags \in SUBSET FileFlags
    BY DEF Flags, FileFlags
  <1>2. end - s.postition \in Int
    <2>1. s.postition \in Nat
      BY DEF TypeOK, SaveStates
    <2> QED
      BY <2>1
  <1>3. Header(end) \in Cells
    BY <1>1, <1>2 DEF Header, Cells
  <1> QED
    BY <1>3

LEMMA SignatureType ==
  ASSUME TypeOK, s.pc # "none"
  PROVE  /\ Signature \in Seq(Cells)
         /\ Len(Signature) = 1 + Len(s.hashed) \div EmbeddedBlockSize(s.filesize)
         /\ Len(Signature) \in Nat
  <1> DEFINE b == EmbeddedBlockSize(s.filesize)
             n == Len(s.hashed) \div b
             blocks == [i \in 1 .. n |->
                          [k |-> "block", bytes |-> SubSeq(s.hashed, (i - 1) * b + 1, i * b)]]
  <1>1. /\ b \in Nat \ {0} /\ Blocks(s.filesize) \in Nat
        /\ s.hashed \in Seq(Bytes) /\ Len(s.hashed) \in Nat
    <2>1. s.filesize \in FileSizes /\ s.hashed \in Seq(Bytes)
      BY DEF TypeOK, SaveStates
    <2> QED
      BY <2>1, BlocksFacts
  <1> HIDE DEF b
  <1>2. n \in Nat /\ n * b <= Len(s.hashed)
    BY <1>1, DivFacts
  <1>3. \A i \in 1 .. n : [k |-> "block", bytes |-> SubSeq(s.hashed, (i - 1) * b + 1, i * b)] \in Cells
    <2> TAKE i \in 1 .. n
    <2> HIDE DEF n
    <2>1. (i - 1) * b \in Nat /\ i * b \in Nat /\ i * b <= n * b
      BY <1>1, <1>2, TimesMonotone
    <2>2. i * b <= Len(s.hashed)
      BY <1>1, <1>2, <2>1
    <2>3. SubSeq(s.hashed, (i - 1) * b + 1, i * b) \in Seq(Bytes)
      BY <1>1, <2>1, <2>2
    <2> QED
      BY <2>3 DEF Cells
  <1>4. blocks \in Seq(Cells) /\ Len(blocks) = n
    <2>1. blocks \in [1 .. n -> Cells]
      BY <1>3
    <2> HIDE DEF blocks, n
    <2> QED
      BY <1>2, <2>1, FunctionIsSeq
  <1>5. [k |-> "sig", count |-> Blocks(s.filesize)] \in Cells
    BY <1>1 DEF Cells
  <1>6. Signature = <<[k |-> "sig", count |-> Blocks(s.filesize)]>> \o blocks
    BY DEF Signature, b
  <1>7. n = Len(s.hashed) \div EmbeddedBlockSize(s.filesize)
    BY DEF b
  <1> HIDE DEF blocks, n
  <1> QED
    BY <1>2, <1>4, <1>5, <1>6, <1>7

-----------------------------------------------------------------------------
(* Where a save stands in MAIN.DAT.  TypeOK alone is not inductive: that   *)
(* no write leaves a negative object size or file size behind depends on   *)
(* the file pointer never being in front of the object.                    *)

Placed ==
  /\ synced <= eof
  /\ s.pc # "none" =>
       proc = "open" /\ s.postition + 2 <= s.data_begin /\ s.data_begin <= Capacity
  /\ s.pc \in {"stream", "failed", "broken", "done"} => s.postition <= ptr
  /\ s.pc = "stream" => synced <= s.postition /\ ptr = eof /\ s.data_begin <= ptr
  /\ s.pc \in {"written", "flushed"} => 0 <= s.objsize /\ s.postition + s.objsize <= eof

Typed == TypeOK /\ Placed

\* And, as long as callers give a save up with its first error, exactly where it
\* stands: the signature never runs into the data, as no more bytes are hashed
\* than the file has.
Geometry ==
  /\ synced <= eof
  /\ s.pc # "none" => proc = "open"
  /\ s.pc \in {"stream", "written", "flushed", "done"} =>
       /\ s.postition + 2 <= s.data_begin /\ s.data_begin <= eof
       /\ s.write_signature => s.data_begin = s.postition + 2 + SignatureCells(s.filesize)
       /\ Len(s.hashed) <= s.filesize
       /\ ~s.unwind => s.bytespassed = Len(s.hashed)
       /\ s.bytespassed <= s.filesize
       /\ ~s.use_zlib => s.zs = "off"
  /\ s.pc = "stream" => synced <= s.postition
  /\ s.pc \in {"stream", "done"} => ptr = eof
  /\ s.pc \in {"written", "flushed", "done"} =>
       /\ eof = s.postition + s.objsize
       /\ s.bytespassed = s.filesize /\ s.zs \in {"off", "freed"}

Shape == TypeOK /\ Placed /\ Geometry

Exact == ~CommitAfterError /\ Geometry

LEMMA ConstructShape ==
  ASSUME Typed, NEW n \in FileSizes, NEW prev \in Offsets, NEW psign \in BOOLEAN,
         NEW prob \in BOOLEAN, Construct(n, prev, psign, prob)
  PROVE  Typed' /\ Geometry'
  <1> USE DEF Typed
  <1>1. s.pc = "none" /\ proc = "open"
    BY DEF Construct, MayConstruct
  <1>2. prev \in Nat /\ eof \in Nat /\ n \in Nat /\ saves \in Nat /\ SignatureCells(n) \in Nat
    <2>1. prev \in Nat
      <3>1. \A i \in DOMAIN files : files[i] \in FileRows
        BY DEF TypeOK
      <3>2. \A i \in DOMAIN files : files[i].object \in Nat
        BY <3>1 DEF FileRows
      <3> QED
        BY <3>2 DEF Offsets
    <2> QED
      BY <2>1, BlocksFacts DEF TypeOK
  <1>3. PICK type : s' = Constructed(n, prev, psign, prob, type)
    BY DEF Construct
  <1>4. /\ s'.pc = "stream" /\ s'.filesize = n /\ s'.postition = eof
        /\ s'.bytespassed = 0 /\ s'.hashed = << >> /\ s'.unwind = FALSE
        /\ s'.data_begin = eof + 2 + (IF s'.write_signature THEN SignatureCells(n) ELSE 0)
    BY <1>3 DEF Constructed
  <1>11. ~s'.use_zlib => s'.zs = "off"
    BY <1>3 DEF Constructed
  <1>5. s' \in SaveStates
    <2>1. ASSUME prev # 0 PROVE FileAt(prev) \in DOMAIN files
      BY <2>1 DEF Offsets, FileAt
    <2>2. \A b \in {"zlib", "embed_s", "local", "archive", "raw_content"} : config[b] \in BOOLEAN
      BY SwitchAssumption DEF TypeOK
    <2> DEFINE raw  == StoredWhole(n, prev, prob) \/ NoBase(prev, psign, type)
               par  == IF raw THEN [deltas_count |-> -1, deltas_size |-> 0, source_size |-> 0]
                              ELSE files[FileAt(prev)]
    <2>3. raw \in BOOLEAN /\ (~raw => prev # 0)
      BY DEF StoredWhole
    <2>4. par.deltas_count + 1 \in Nat /\ par.deltas_size \in Nat /\ par.source_size \in Nat
      <3>1. CASE raw
        BY <3>1
      <3>2. CASE ~raw
        <4>1. files[FileAt(prev)] \in FileRows
          BY <2>1, <2>3, <3>2 DEF TypeOK
        <4> QED
          BY <3>2, <4>1 DEF FileRows
      <3> QED
        BY <3>1, <3>2
    <2>5. NoSignature(n) \in BOOLEAN /\ WriteSignature(n, psign) \in BOOLEAN
      BY <2>2 DEF NoSignature, WriteSignature
    <2>6. (n > THRESHOLD_ZLIB /\ config.zlib) \in BOOLEAN
      OBVIOUS
    <2>7. (IF prev = 0 THEN 0 ELSE FileAt(prev)) \in Nat
      BY <2>1 DEF TypeOK
    <2> DEFINE zlib == n > THRESHOLD_ZLIB /\ config.zlib
               wsig == WriteSignature(n, psign)
    <2>8. s' = [pc |-> "stream", v |-> saves + 1, filesize |-> n, prev |-> prev,
                files_pid |-> IF prev = 0 THEN 0 ELSE FileAt(prev), postition |-> eof,
                data_begin |-> eof + 2 + (IF wsig THEN SignatureCells(n) ELSE 0),
                raw_file |-> raw, no_signature |-> NoSignature(n), use_zlib |-> zlib,
                write_signature |-> wsig, bytespassed |-> 0, hashed |-> << >>,
                unwind |-> FALSE, zs |-> IF zlib THEN "live" ELSE "off", objsize |-> 0,
                reread |-> FALSE,
                files_delta_cnt |-> par.deltas_count + 1,
                files_delta_size |-> par.deltas_size, files_source_size |-> par.source_size]
      BY <1>3 DEF Constructed
    <2>9. zlib \in BOOLEAN /\ wsig \in BOOLEAN
      BY <2>5, <2>6
    <2> HIDE DEF raw, par, zlib, wsig
    <2> QED
      BY <1>2, <2>3, <2>4, <2>5, <2>7, <2>8, <2>9 DEF SaveStates
  <1>6. HeaderWords(prev) \in Seq(Cells) /\ Len(HeaderWords(prev)) = 2
    BY <1>2 DEF HeaderWords, Cells
  <1>7. dat' \in [0 .. Capacity - 1 -> Cells]
    BY <1>2, <1>6, PutType DEF Construct, TypeOK
  <1>8. eof' = s'.data_begin /\ ptr' = s'.data_begin /\ s'.data_begin <= Capacity
    BY DEF Construct
  <1>9. TypeOK'
    <2>1. /\ UNCHANGED <<synced, damaged, dbvars, svsvars, aborted>> /\ saves' = saves + 1
      BY DEF Construct
    <2>2. saves' \in Nat
      BY <1>2, <2>1
    <2>3. eof' \in 0 .. Capacity /\ ptr' \in 0 .. Capacity
      <3>1. s'.data_begin \in Nat
        BY <1>5 DEF SaveStates
      <3> QED
        BY <1>8, <3>1, SizeAssumption
    <2> QED
      BY <1>4, <1>5, <1>7, <2>1, <2>2, <2>3 DEF TypeOK, dbvars, svsvars
  <1>10. Placed' /\ Geometry'
    <2>1. synced' = synced /\ proc' = proc /\ synced <= eof
      BY DEF Construct, Placed, svsvars
    <2>2. eof \in Nat /\ synced \in Nat /\ eof' \in Nat /\ s'.data_begin \in Nat
      <3>1. eof' \in Nat
        BY <1>9 DEF TypeOK
      <3>2. synced \in Nat
        BY DEF TypeOK
      <3> QED
        BY <1>2, <1>8, <3>1, <3>2
    <2> QED
      BY <1>1, <1>2, <1>4, <1>8, <1>11, <2>1, <2>2 DEF Placed, Geometry
  <1> QED
    BY <1>9, <1>10

\* A write keeps MAIN.DAT one, and leaves the file pointer behind it.
LEMMA WriteFileFacts ==
  ASSUME TypeOK, NEW c \in Seq(Cells), WriteFile(c)
  PROVE  /\ dat' \in [0 .. Capacity - 1 -> Cells]
         /\ ptr' = ptr + Len(c) /\ ptr' \in 0 .. Capacity
         /\ eof' = Max2(eof, ptr') /\ eof' \in 0 .. Capacity /\ eof <= eof'
         /\ synced' = synced
  <1>1. ptr \in Nat /\ eof \in Nat /\ Len(c) \in Nat
    BY DEF TypeOK
  <1>2. dat' \in [0 .. Capacity - 1 -> Cells]
    BY <1>1, PutType DEF WriteFile, TypeOK
  <1> QED
    BY <1>1, <1>2, SizeAssumption DEF WriteFile, Max2, TypeOK

\* A write only moves the file pointer on; what else Geometry says goes on only
\* with a save that has not failed.
LEMMA ProcessShape ==
  ASSUME Typed, NEW k \in Chunks, NEW e \in 0 .. MaxEmit, Process(k, e)
  PROVE  Typed' /\ (Exact => Geometry')
  <1> USE DEF Typed
  <1> DEFINE total == s.bytespassed + k
             cells == ProcessCells(k, e)
             size  == IF s.raw_file THEN s.files_delta_size ELSE s.files_delta_size + e
             zs    == IF Finishes(k) /\ s.zs = "live" THEN "ended" ELSE s.zs
             at    == IF total > s.filesize THEN "failed" ELSE s.pc
  <1>1. s.pc \in {"stream", "done", "failed", "broken"} /\ s.bytespassed <= s.filesize
        /\ WriteFile(cells)
    BY DEF Process, MayProcess, Going
  <1>2. /\ k \in Nat /\ e \in Nat /\ s.bytespassed \in Nat /\ s.filesize \in FileSizes
        /\ s.filesize \in Nat /\ s.files_delta_size \in Nat
        /\ s.zs \in {"off", "live", "ended", "freed"} /\ Len(s.hashed) \in Nat
    <2>1. k \in Nat /\ e \in Nat
      BY SizeAssumption
    <2>2. s.filesize \in FileSizes /\ s.filesize \in Nat
      BY <1>1, SizeAssumption DEF TypeOK
    <2>3. /\ s.bytespassed \in Nat /\ s.files_delta_size \in Nat /\ s.hashed \in Seq(Bytes)
          /\ s.zs \in {"off", "live", "ended", "freed"}
      BY DEF TypeOK, SaveStates
    <2> QED
      BY <2>1, <2>2, <2>3
  <1>3. /\ HashedAfter(k) \in Seq(Bytes)
        /\ Len(HashedAfter(k)) = IF s.unwind THEN Len(s.hashed) ELSE Len(s.hashed) + k
    BY ChunkFacts
  <1>4. s' = [s EXCEPT !.hashed = HashedAfter(k), !.bytespassed = total,
                       !.files_delta_size = size, !.zs = zs, !.pc = at]
    BY DEF Process
  <1>5. cells \in Seq(Cells)
    BY ProcessCellsType
  <1>6. size \in Nat /\ total \in Nat /\ zs \in {"off", "live", "ended", "freed"}
    BY <1>2
  <1>7. at \in {"stream", "done", "failed", "broken"}
        /\ (at # "failed" => at = s.pc /\ total <= s.filesize)
    BY <1>1, <1>2, <1>6
  <1> HIDE DEF total, cells, size, zs, at
  <1>8. s' \in SaveStates
    BY <1>3, <1>4, <1>6, <1>7 DEF TypeOK, SaveStates
  <1>9. /\ s'.pc = at /\ s'.filesize = s.filesize /\ s'.bytespassed = total
        /\ s'.hashed = HashedAfter(k) /\ s'.unwind = s.unwind
        /\ s'.postition = s.postition /\ s'.data_begin = s.data_begin
        /\ s'.objsize = s.objsize /\ s'.write_signature = s.write_signature
    BY <1>4 DEF TypeOK, SaveStates
  <1>10. TypeOK'
    BY <1>1, <1>2, <1>5, <1>8, <1>9, WriteFileFacts DEF Process, TypeOK, dbvars, svsvars
  <1>11. ptr' = ptr + Len(cells) /\ eof' = Max2(eof, ptr') /\ eof <= eof' /\ synced' = synced
    BY <1>1, <1>5, WriteFileFacts
  <1>12. /\ s.postition + 2 <= s.data_begin /\ s.data_begin <= Capacity /\ s.postition <= ptr
         /\ synced <= eof /\ proc = "open" /\ proc' = proc
         /\ s.pc = "stream" => synced <= s.postition /\ ptr = eof /\ s.data_begin <= ptr
    <2>1. proc' = proc
      BY DEF Process, svsvars
    <2>2. /\ s.postition + 2 <= s.data_begin /\ s.data_begin <= Capacity /\ s.postition <= ptr
          /\ synced <= eof /\ proc = "open"
      BY <1>1 DEF Placed
    <2>3. s.pc = "stream" => synced <= s.postition /\ ptr = eof /\ s.data_begin <= ptr
      BY DEF Placed
    <2> QED
      BY <2>1, <2>2, <2>3
  <1>13. /\ ptr \in Nat /\ eof \in Nat /\ ptr' \in Nat /\ eof' \in Nat /\ synced \in Nat
         /\ Len(cells) \in Nat /\ s.data_begin \in Nat /\ s.postition \in Nat
    <2>1. /\ ptr \in Nat /\ eof \in Nat /\ ptr' \in Nat /\ eof' \in Nat /\ synced \in Nat
          /\ s.data_begin \in Nat /\ s.postition \in Nat
      BY <1>10 DEF TypeOK, SaveStates
    <2> QED
      BY <1>5, <2>1
  <1>14. Placed'
    <2>1. ptr <= ptr' /\ (ptr = eof => ptr' = eof')
      BY <1>11, <1>13 DEF Max2
    <2>2. synced' <= eof' /\ s.postition <= ptr' /\ (s.data_begin <= ptr => s.data_begin <= ptr')
      BY <1>11, <1>12, <1>13, <2>1
    <2>3. at = "stream" => s.pc = "stream"
      BY <1>7
    <2> QED
      BY <1>7, <1>9, <1>11, <1>12, <2>1, <2>2, <2>3 DEF Placed
  <1>15. ASSUME Exact PROVE Geometry'
    <2> USE <1>15 DEF Exact
    <2>13. s.pc \in {"stream", "done"}
      BY DEF Process, MayProcess, Going
    <2>1. ptr = eof /\ ptr' = ptr + Len(cells) /\ eof' = ptr' /\ eof <= eof' /\ synced' = synced
      BY <1>11, <1>13, <2>13 DEF Geometry, Max2
    <2>2. ASSUME at # "failed"
          PROVE  Len(s'.hashed) <= s'.filesize /\ (~s'.unwind => s'.bytespassed = Len(s'.hashed))
      BY <2>13, <1>2, <1>3, <1>7, <1>9, <2>2 DEF Geometry, total
    <2>3. ASSUME at # "failed" PROVE s'.bytespassed <= s'.filesize
      BY <1>7, <1>9, <2>3
    <2>4. ASSUME at = "done" PROVE k = 0 /\ cells = << >> /\ zs = s.zs
      <3>1. s.pc = "done" /\ s.bytespassed = s.filesize /\ s.zs \in {"off", "freed"}
        BY <1>7, <2>4 DEF Geometry
      <3>2. k = 0
        BY <1>2, <1>7, <2>4, <3>1 DEF total
      <3>3. Finish = << >>
        BY <3>1 DEF Finish
      <3>4. BufferCells(k, e) = << >>
        BY <1>2, <3>2 DEF BufferCells, Process, MayProcess
      <3> QED
        BY <3>1, <3>2, <3>3, <3>4 DEF cells, ProcessCells, zs
    <2>5. s'.use_zlib = s.use_zlib /\ s'.zs = zs
      BY <1>4 DEF TypeOK, SaveStates
    <2>6. s.zs = "off" => zs = "off"
      BY DEF zs
    <2>7. /\ s.postition + 2 <= s.data_begin /\ s.data_begin <= eof /\ synced <= eof
          /\ s.write_signature => s.data_begin = s.postition + 2 + SignatureCells(s.filesize)
          /\ ~s.use_zlib => s.zs = "off"
      BY <2>13 DEF Geometry
    <2>8. eof \in Nat /\ eof' \in Nat /\ s.data_begin \in Nat /\ synced \in Nat
      BY <1>13
    <2>9. proc' = proc /\ proc = "open"
      BY <1>12
    <2>10. CASE at = "failed"
      BY <1>9, <2>1, <2>7, <2>8, <2>9, <2>10 DEF Geometry
    <2>11. CASE at = "stream"
      <3>1. synced <= s.postition
        BY <1>7, <2>11 DEF Geometry
      <3> QED
        BY <3>1, <1>9, <2>1, <2>2, <2>3, <2>5, <2>6, <2>7, <2>8, <2>9, <2>11 DEF Geometry
    <2>12. CASE at = "done"
      <3>1. /\ eof = s.postition + s.objsize /\ s.bytespassed = s.filesize
            /\ s.zs \in {"off", "freed"}
        BY <1>7, <2>12 DEF Geometry
      <3>2. eof' = eof /\ total = s.bytespassed
        BY <1>2, <2>1, <2>4, <2>8, <2>12 DEF total
      <3> QED
        BY <1>9, <2>1, <2>2, <2>3, <2>4, <2>5, <2>6, <2>7, <2>8, <2>9, <2>12, <3>1, <3>2 DEF Geometry
    <2> QED
      BY <1>7, <2>10, <2>11, <2>12, <2>13
  <1> QED
    BY <1>10, <1>14, <1>15

\* A save that ends leaves nothing to keep track of, one that fails only where
\* the object and the file pointer are.
LEMMA IdleShape ==
  ASSUME s'.pc \in {"none", "failed", "broken"}, s'.pc # "none" => proc' = "open",
         synced' <= eof',
         s'.pc # "none" => /\ s'.postition + 2 <= s'.data_begin /\ s'.data_begin <= Capacity
                           /\ s'.postition <= ptr'
  PROVE  Placed' /\ Geometry'
  BY DEF Placed, Geometry

LEMMA ConstructErrorShape ==
  ASSUME Typed, NEW prev \in Offsets, ConstructError(prev)
  PROVE  Typed' /\ Geometry'
  <1> USE DEF Typed
  <1>1. PICK j \in 0 .. 2 :
          /\ eof + j <= Capacity
          /\ dat' = Put(dat, eof, SubSeq(HeaderWords(prev), 1, j))
          /\ eof' = eof + j
          /\ ptr' = eof + j
    BY DEF ConstructError
  <1>2. prev \in Nat
    <2>1. \A i \in DOMAIN files : files[i] \in FileRows
      BY DEF TypeOK
    <2>2. \A i \in DOMAIN files : files[i].object \in Nat
      BY <2>1 DEF FileRows
    <2> QED
      BY <2>2 DEF Offsets
  <1>3. HeaderWords(prev) \in Seq(Cells) /\ Len(HeaderWords(prev)) = 2
    BY <1>2 DEF HeaderWords, Cells
  <1>4. SubSeq(HeaderWords(prev), 1, j) \in Seq(Cells)
    <2>1. j \in Nat /\ j <= Len(HeaderWords(prev))
      BY <1>3
    <2> QED
      BY <1>3, <2>1, PrefixType
  <1>5. eof \in Nat /\ synced \in Nat /\ synced <= eof
    BY DEF TypeOK, Placed
  <1>6. dat' \in [0 .. Capacity - 1 -> Cells] /\ eof' \in 0 .. Capacity /\ ptr' \in 0 .. Capacity
    <2>1. dat' \in [0 .. Capacity - 1 -> Cells]
      BY <1>1, <1>4, <1>5, PutType DEF TypeOK
    <2> QED
      BY <1>1, <1>5, <2>1, SizeAssumption
  <1>7. TypeOK'
    BY <1>6 DEF ConstructError, TypeOK, dbvars, svsvars
  <1>8. Placed' /\ Geometry'
    <2>1. s'.pc = "none" /\ synced' <= eof'
      BY <1>1, <1>5 DEF ConstructError, MayConstruct
    <2> QED
      BY <2>1, IdleShape
  <1> QED
    BY <1>7, <1>8

LEMMA ProcessWriteErrorShape ==
  ASSUME Typed, NEW k \in Chunks, NEW e \in 0 .. MaxEmit, ProcessWriteError(k, e)
  PROVE  Typed' /\ Geometry'
  <1> USE DEF Typed
  <1>1. PICK j \in 0 .. Len(ProcessCells(k, e)) - 1 : WriteFile(SubSeq(ProcessCells(k, e), 1, j))
    BY DEF ProcessWriteError, WriteShort
  <1>2. PICK counted \in 0 .. e :
          s' = [s EXCEPT !.hashed = HashedAfter(k), !.pc = "failed",
                         !.files_delta_size = @ + counted]
    BY DEF ProcessWriteError
  <1>3. SubSeq(ProcessCells(k, e), 1, j) \in Seq(Cells)
    BY ProcessCellsType
  <1>4. s.pc \in {"stream", "done", "failed", "broken"} /\ proc = "open"
    BY DEF ProcessWriteError, MayProcess, Going, Placed
  <1>5. s.files_delta_size + counted \in Nat
    <2>1. s.files_delta_size \in Nat
      BY DEF TypeOK, SaveStates
    <2>2. counted \in Nat
      BY SizeAssumption
    <2> QED
      BY <2>1, <2>2
  <1>6. s' \in SaveStates /\ s'.pc = "failed" /\ s'.filesize = s.filesize
        /\ s'.postition = s.postition /\ s'.data_begin = s.data_begin
    BY <1>2, <1>5, ChunkFacts DEF TypeOK, SaveStates
  <1>7. TypeOK'
    BY <1>1, <1>3, <1>4, <1>6, WriteFileFacts DEF ProcessWriteError, TypeOK, dbvars, svsvars
  <1>8. /\ synced' <= eof' /\ s.postition + 2 <= s.data_begin /\ s.data_begin <= Capacity
        /\ s.postition <= ptr'
    <2>1. /\ synced' = synced /\ eof <= eof' /\ eof' = Max2(eof, ptr')
          /\ eof' \in Nat /\ ptr' \in Nat /\ ptr' >= ptr
      <3>1. SubSeq(ProcessCells(k, e), 1, j) \in Seq(Cells)
        BY <1>3
      <3> DEFINE c == SubSeq(ProcessCells(k, e), 1, j)
      <3>2. Len(c) \in Nat /\ WriteFile(c)
        BY <1>1, <3>1
      <3> HIDE DEF c
      <3>3. /\ ptr' = ptr + Len(c) /\ ptr' \in 0 .. Capacity
            /\ eof' = Max2(eof, ptr') /\ eof' \in 0 .. Capacity /\ eof <= eof'
            /\ synced' = synced
        BY <3>1, <3>2, WriteFileFacts DEF c
      <3>4. ptr \in Nat
        BY DEF TypeOK
      <3> QED
        BY <3>2, <3>3, <3>4, SizeAssumption
    <2>2. /\ synced <= eof /\ synced \in Nat /\ eof \in Nat /\ ptr \in Nat /\ s.postition \in Nat
          /\ s.postition + 2 <= s.data_begin /\ s.data_begin <= Capacity /\ s.postition <= ptr
      <3>1. synced \in Nat /\ eof \in Nat /\ ptr \in Nat /\ s.postition \in Nat
        BY DEF TypeOK, SaveStates
      <3> QED
        BY <1>4, <3>1 DEF Placed
    <2> QED
      BY <2>1, <2>2 DEF Max2
  <1> QED
    BY <1>4, <1>6, <1>7, <1>8, IdleShape DEF ProcessWriteError, svsvars

LEMMA ProcessZlibErrorShape ==
  ASSUME Typed, NEW k \in Chunks, NEW e \in 0 .. MaxEmit, ProcessZlibError(k, e)
  PROVE  Typed' /\ Geometry'
  <1> USE DEF Typed
  <1>1. s.pc \in {"stream", "done", "failed", "broken"} /\ proc = "open"
    BY DEF ProcessZlibError, MayProcess, Going, Placed
  <1>2. s' \in SaveStates /\ s'.pc = "failed" /\ s'.filesize = s.filesize
        /\ s'.postition = s.postition /\ s'.data_begin = s.data_begin
    BY ChunkFacts DEF ProcessZlibError, TypeOK, SaveStates
  <1>3. TypeOK'
    BY <1>1, <1>2 DEF ProcessZlibError, TypeOK, datvars, dbvars, svsvars
  <1> QED
    BY <1>1, <1>2, <1>3, IdleShape DEF ProcessZlibError, datvars, svsvars, Placed

LEMMA RestartShape ==
  ASSUME Typed, restart \/ restartError
  PROVE  Typed' /\ (Exact => Geometry')
  <1> USE DEF Typed
  <1>1. s.pc \in {"stream", "failed", "broken"} /\ proc = "open"
    BY DEF restart, restartError, MayRestart, Going, Placed
  <1>2. Restarted \in SaveStates /\ Restarted.pc = s.pc
    BY <1>1 DEF Restarted, TypeOK, SaveStates
  <1>3. /\ s.postition + 2 <= s.data_begin /\ s.data_begin <= Capacity /\ s.postition <= ptr
        /\ s.pc = "stream" => synced <= s.postition /\ ptr = eof /\ s.data_begin <= ptr
        /\ eof \in 0 .. Capacity /\ synced \in 0 .. Capacity /\ synced <= eof
        /\ s.postition \in Nat /\ s.data_begin \in Nat
    BY <1>1 DEF Placed, TypeOK, SaveStates
  <1>5. CASE restart
    <2>1. s' = Restarted /\ dat' = Cut(dat, s.data_begin) /\ ptr' = s.data_begin /\ eof' = s.data_begin
      BY <1>5 DEF restart
    <2>2. s'.filesize = s.filesize
      BY <2>1 DEF Restarted, TypeOK, SaveStates
    <2>6. /\ proc' = proc /\ synced' \in 0 .. Capacity /\ synced' <= s.data_begin
          /\ s.pc = "stream" => synced' <= s.postition
      <3>1. proc' = proc /\ synced' = Min2(synced, s.data_begin)
        BY <1>5 DEF restart, svsvars
      <3> QED
        BY <1>3, <3>1, SizeAssumption DEF Min2
    <2>3. dat' \in [0 .. Capacity - 1 -> Cells] /\ eof' \in 0 .. Capacity /\ ptr' \in 0 .. Capacity
      <3>1. dat' \in [0 .. Capacity - 1 -> Cells]
        BY <2>1, CutType DEF TypeOK
      <3> QED
        BY <1>3, <2>1, <3>1, SizeAssumption
    <2>4. TypeOK'
      BY <1>1, <1>2, <1>5, <2>1, <2>2, <2>3, <2>6 DEF restart, TypeOK, dbvars, svsvars
    <2>5. /\ s'.postition = s.postition /\ s'.data_begin = s.data_begin /\ s'.pc = s.pc
          /\ s'.write_signature = s.write_signature /\ s'.hashed = s.hashed
          /\ s'.unwind = TRUE /\ s'.bytespassed = 0 /\ s'.use_zlib = s.use_zlib
          /\ s'.zs = IF s.use_zlib THEN "live" ELSE "off"
      BY <1>1, <2>1 DEF Restarted, TypeOK, SaveStates
    <2>7. Placed'
      <3>1. s.postition <= s.data_begin
        BY <1>3
      <3> QED
        BY <1>1, <1>3, <2>1, <2>5, <2>6, <3>1 DEF Placed
    <2>8. ASSUME Exact PROVE Geometry'
      <3>1. s.pc = "stream"
        BY <1>5, <2>8 DEF restart, MayRestart, Going, Exact
      <3>2. /\ s.write_signature => s.data_begin = s.postition + 2 + SignatureCells(s.filesize)
            /\ Len(s.hashed) <= s.filesize
        BY <2>8, <3>1 DEF Exact, Geometry
      <3>3. s.filesize \in Nat
        BY <1>1, SizeAssumption DEF TypeOK
      <3> QED
        BY <1>1, <1>3, <2>1, <2>2, <2>5, <2>6, <3>1, <3>2, <3>3 DEF Geometry
    <2> QED
      BY <2>4, <2>7, <2>8
  <1>6. CASE restartError
    <2>1. s' = [Restarted EXCEPT !.pc = "failed"] /\ ptr' \in {ptr, s.data_begin}
      BY <1>6 DEF restartError
    <2>2. s' \in SaveStates /\ s'.pc = "failed" /\ s'.filesize = s.filesize
          /\ s'.postition = s.postition /\ s'.data_begin = s.data_begin
      <3>1. Restarted.filesize = s.filesize /\ Restarted.postition = s.postition
            /\ Restarted.data_begin = s.data_begin
        BY DEF Restarted, TypeOK, SaveStates
      <3> QED
        BY <1>2, <2>1, <3>1 DEF SaveStates
    <2>3. ptr' \in 0 .. Capacity
      BY <1>3, <2>1, SizeAssumption DEF TypeOK
    <2>4. TypeOK'
      BY <1>1, <1>6, <2>2, <2>3 DEF restartError, TypeOK, dbvars, svsvars
    <2> QED
      <3>1. proc' = "open" /\ eof' = eof /\ synced' = synced
        BY <1>1, <1>6 DEF restartError, svsvars
      <3>2. synced' <= eof' /\ s.postition <= ptr'
        BY <1>3, <2>1, <3>1
      <3> QED
        BY <1>3, <2>2, <2>4, <3>1, <3>2, IdleShape
  <1> QED
    BY <1>5, <1>6

LEMMA CommitRefusedShape ==
  ASSUME Typed, CommitRefused
  PROVE  Typed' /\ Geometry'
  <1> USE DEF Typed
  <1>1. s.pc \in {"stream", "done", "failed", "broken"} /\ proc = "open"
    BY DEF CommitRefused, Going, Placed
  <1>2. s' \in SaveStates /\ s'.pc = "failed" /\ s'.filesize = s.filesize
        /\ s'.postition = s.postition /\ s'.data_begin = s.data_begin
    BY DEF CommitRefused, TypeOK, SaveStates
  <1>3. TypeOK'
    BY <1>1, <1>2 DEF CommitRefused, TypeOK, datvars, dbvars, svsvars
  <1> QED
    BY <1>1, <1>2, <1>3, IdleShape DEF CommitRefused, datvars, svsvars, Placed

\* What commit() finds: all bytes are there, the file pointer is at the end of
\* the object, and the signature fits in front of the data.
LEMMA CommitFacts ==
  ASSUME Shape, ~CommitAfterError, s.pc \in Going, s.bytespassed >= s.filesize
  PROVE  /\ s.pc \in {"stream", "done"} /\ proc = "open"
         /\ ptr = eof /\ eof \in 0 .. Capacity /\ synced <= eof /\ synced \in 0 .. Capacity
         /\ s.postition \in Nat /\ s.postition + 2 <= eof
         /\ s.bytespassed = s.filesize
         /\ Signature \in Seq(Cells) /\ Len(Signature) \in Nat
         /\ s.write_signature => s.postition + 2 + Len(Signature) <= s.data_begin
         /\ s.postition + 2 <= s.data_begin /\ s.data_begin <= eof /\ s.data_begin \in Nat
  <1> USE DEF Shape
  <1>1. s.pc \in {"stream", "done"}
    BY DEF Going
  <1>2. /\ ptr = eof /\ proc = "open" /\ synced <= eof
        /\ s.postition + 2 <= s.data_begin /\ s.data_begin <= eof
        /\ s.write_signature => s.data_begin = s.postition + 2 + SignatureCells(s.filesize)
        /\ Len(s.hashed) <= s.filesize /\ s.bytespassed <= s.filesize
    BY <1>1 DEF Geometry
  <1>3. s.filesize \in FileSizes /\ s.filesize \in Nat
    BY <1>1, SizeAssumption DEF TypeOK
  <1>4. /\ eof \in 0 .. Capacity /\ synced \in 0 .. Capacity /\ s.postition \in Nat
        /\ s.data_begin \in Nat /\ s.bytespassed \in Nat /\ Len(s.hashed) \in Nat
    BY DEF TypeOK, SaveStates
  <1>5. /\ Signature \in Seq(Cells) /\ Len(Signature) \in Nat
        /\ Len(Signature) = 1 + Len(s.hashed) \div EmbeddedBlockSize(s.filesize)
    BY <1>1, SignatureType
  <1>6. Len(s.hashed) \div EmbeddedBlockSize(s.filesize) <= Blocks(s.filesize)
    BY <1>2, <1>3, <1>4, BlocksFacts
  <1>7. Len(s.hashed) \div EmbeddedBlockSize(s.filesize) \in Nat /\ Blocks(s.filesize) \in Nat
    BY <1>3, <1>4, BlocksFacts, DivFacts
  <1>8. s.write_signature => s.postition + 2 + Len(Signature) <= s.data_begin
    BY <1>2, <1>4, <1>5, <1>6, <1>7 DEF SignatureCells
  <1> QED
    BY <1>1, <1>2, <1>3, <1>4, <1>5, <1>8, SizeAssumption

\* MAIN.DAT with its header word is one.
LEMMA WithHeaderType ==
  ASSUME TypeOK
  PROVE  WithHeader \in [0 .. Capacity - 1 -> Cells]
  <1>1. Cut(dat, ptr) \in [0 .. Capacity - 1 -> Cells]
    BY CutType DEF TypeOK
  <1>2. ptr \in Int /\ s.postition \in Nat
    BY SizeAssumption DEF TypeOK, SaveStates
  <1>3. <<Header(ptr)>> \in Seq(Cells)
    BY <1>2, HeaderType
  <1> QED
    BY <1>1, <1>2, <1>3, PutType DEF WithHeader

\* Where commit() may be called, and what it finds.
LEMMA GoingFacts ==
  ASSUME Typed, s.pc \in Going
  PROVE  /\ s.pc \in {"stream", "done", "failed", "broken"} /\ proc = "open"
         /\ s.postition + 2 <= s.data_begin /\ s.data_begin <= Capacity
         /\ s.postition <= ptr /\ ptr \in 0 .. Capacity /\ synced \in 0 .. Capacity
         /\ s.postition \in Nat /\ s.data_begin \in Nat /\ s.filesize \in FileSizes
  <1>1. s.pc \in {"stream", "done", "failed", "broken"}
    BY DEF Going
  <1> QED
    BY <1>1 DEF Typed, Placed, TypeOK, SaveStates

\* The cells commit() writes are cells, and MAIN.DAT ends with the object.
LEMMA CommitWritesShape ==
  ASSUME Typed, CommitWrites
  PROVE  Typed' /\ (Exact => Geometry')
  <1> USE DEF Typed
  <1> DEFINE zs == IF s.use_zlib THEN "freed" ELSE s.zs
  <1>1. s.pc \in Going /\ s.bytespassed >= s.filesize
    BY DEF CommitWrites
  <1>2. /\ s.pc \in {"stream", "done", "failed", "broken"} /\ proc = "open"
        /\ s.postition + 2 <= s.data_begin /\ s.data_begin <= Capacity
        /\ s.postition <= ptr /\ ptr \in 0 .. Capacity /\ synced \in 0 .. Capacity
        /\ s.postition \in Nat /\ s.data_begin \in Nat /\ s.filesize \in FileSizes
    BY <1>1, GoingFacts
  <1>3. WithHeader \in [0 .. Capacity - 1 -> Cells]
    BY WithHeaderType
  <1>4. /\ s' = [s EXCEPT !.pc = "written", !.objsize = ptr - s.postition, !.zs = zs]
        /\ synced' = Min2(synced, ptr) /\ proc' = proc /\ eof' = Max2(ptr, ptr')
    BY DEF CommitWrites, svsvars
  <1>5. /\ ptr' \in 0 .. Capacity /\ dat' \in [0 .. Capacity - 1 -> Cells]
        /\ ptr' = IF s.write_signature THEN s.postition + 2 + Len(Signature) ELSE s.postition + 1
    <2>1. CASE s.write_signature
      <3>1. /\ s.postition + 2 + Len(Signature) <= Capacity
            /\ dat' = Put(WithHeader, s.postition + 2, Signature)
            /\ ptr' = s.postition + 2 + Len(Signature)
        BY <2>1 DEF CommitWrites
      <3>2. Signature \in Seq(Cells) /\ Len(Signature) \in Nat
        BY <1>2, SignatureType
      <3>3. dat' \in [0 .. Capacity - 1 -> Cells]
        <4>1. s.postition + 2 \in Nat
          BY <1>2
        <4> QED
          BY <1>3, <3>1, <3>2, <4>1, PutType
      <3> QED
        BY <1>2, <2>1, <3>1, <3>2, <3>3, SizeAssumption
    <2>2. CASE ~s.write_signature
      <3>1. dat' = WithHeader /\ ptr' = s.postition + 1
        BY <2>2 DEF CommitWrites
      <3> QED
        BY <1>2, <1>3, <2>2, <3>1, SizeAssumption
    <2> QED
      BY <2>1, <2>2
  <1>6. synced' \in 0 .. Capacity /\ synced' <= ptr /\ eof' \in 0 .. Capacity /\ ptr <= eof'
    <2>1. synced' \in 0 .. Capacity /\ synced' <= ptr
      BY <1>2, <1>4, SizeAssumption DEF Min2
    <2>2. eof' \in 0 .. Capacity /\ ptr <= eof'
      BY <1>2, <1>4, <1>5, SizeAssumption DEF Max2
    <2> QED
      BY <2>1, <2>2
  <1>7. zs \in {"off", "live", "ended", "freed"}
    BY DEF TypeOK, SaveStates
  <1> HIDE DEF zs
  <1>8. s' \in SaveStates
    <2>1. ptr - s.postition \in Int
      BY <1>2, SizeAssumption
    <2>3. s \in SaveStates
      BY DEF TypeOK
    <2> QED
      BY <1>4, <1>7, <2>1, <2>3 DEF SaveStates
  <1>9. /\ s'.pc = "written" /\ s'.filesize = s.filesize /\ s'.bytespassed = s.bytespassed
        /\ s'.hashed = s.hashed /\ s'.unwind = s.unwind /\ s'.zs = zs
        /\ s'.postition = s.postition /\ s'.data_begin = s.data_begin
        /\ s'.objsize = ptr - s.postition /\ s'.write_signature = s.write_signature
        /\ s'.use_zlib = s.use_zlib
    BY <1>4 DEF TypeOK, SaveStates
  <1>12. TypeOK'
    BY <1>2, <1>5, <1>6, <1>8, <1>9 DEF CommitWrites, TypeOK, dbvars, svsvars
  <1>13. Placed'
    <2>1. s'.postition + s'.objsize = ptr /\ 0 <= s'.objsize /\ synced' <= eof'
      BY <1>2, <1>6, <1>9, SizeAssumption
    <2> QED
      BY <1>2, <1>4, <1>6, <1>9, <2>1 DEF Placed
  <1>14. ASSUME Exact PROVE Geometry'
    <2> USE <1>14 DEF Exact, Shape
    <2>1. /\ s.pc \in {"stream", "done"} /\ ptr = eof
          /\ s.postition + 2 <= s.data_begin /\ s.data_begin <= eof /\ synced <= eof
          /\ s.bytespassed = s.filesize
          /\ s.write_signature => s.postition + 2 + Len(Signature) <= s.data_begin
          /\ Len(Signature) \in Nat
      BY <1>1, CommitFacts
    <2>2. /\ s.write_signature => s.data_begin = s.postition + 2 + SignatureCells(s.filesize)
          /\ Len(s.hashed) <= s.filesize /\ (~s.unwind => s.bytespassed = Len(s.hashed))
          /\ ~s.use_zlib => s.zs = "off"
      BY <2>1 DEF Geometry
    <2>3. s.bytespassed <= s.filesize
      <3>1. s.filesize \in Nat
        BY <1>2, SizeAssumption
      <3> QED
        BY <2>1, <3>1
    <2>4. eof = s.postition + (ptr - s.postition) /\ eof' = eof /\ synced' = synced
      <3>1. eof' = eof
        <4>1. ptr' <= eof
          BY <1>2, <1>5, <2>1
        <4>2. eof \in Nat /\ ptr' \in Nat
          BY <1>2, <1>5, <2>1
        <4> QED
          BY <1>4, <2>1, <4>1, <4>2 DEF Max2
      <3>2. synced' = synced
        BY <1>2, <1>4, <2>1, SizeAssumption DEF Min2
      <3> QED
        BY <1>2, <2>1, <3>1, <3>2, SizeAssumption
    <2>5. (~s.use_zlib => zs = "off") /\ zs \in {"off", "freed"}
      BY <2>2 DEF zs
    <2> QED
      BY <1>2, <1>4, <1>9, <2>1, <2>2, <2>3, <2>4, <2>5 DEF Geometry
  <1> QED
    BY <1>12, <1>13, <1>14

LEMMA CommitWriteErrorShape ==
  ASSUME Typed, CommitWriteError
  PROVE  Typed' /\ Geometry'
  <1> USE DEF Typed
  <1> DEFINE zs == IF s.use_zlib THEN "freed" ELSE s.zs
  <1>1. /\ s.pc \in {"stream", "done", "failed", "broken"} /\ proc = "open"
        /\ s.postition + 2 <= s.data_begin /\ s.data_begin <= Capacity
        /\ s.postition <= ptr /\ ptr \in 0 .. Capacity /\ synced \in 0 .. Capacity
        /\ s.postition \in Nat /\ s.data_begin \in Nat /\ s.filesize \in FileSizes
    <2>1. s.pc \in Going
      BY DEF CommitWriteError
    <2> QED
      BY <2>1, GoingFacts
  <1>2. WithHeader \in [0 .. Capacity - 1 -> Cells]
    BY WithHeaderType
  <1>3. /\ dat' \in [0 .. Capacity - 1 -> Cells] /\ ptr' \in 0 .. Capacity
        /\ s.postition <= ptr'
    <2>1. CASE dat' = Cut(dat, ptr) /\ ptr' = s.postition
      <3>1. Cut(dat, ptr) \in [0 .. Capacity - 1 -> Cells]
        BY CutType DEF TypeOK
      <3> QED
        BY <1>1, <2>1, <3>1, SizeAssumption
    <2>2. CASE dat' = WithHeader /\ ptr' = s.postition + 1
      BY <1>1, <1>2, <2>2, SizeAssumption
    <2>3. ASSUME NEW j \in 0 .. Len(Signature) - 1,
                 s.postition + 2 + j <= Capacity,
                 dat' = Put(WithHeader, s.postition + 2, SubSeq(Signature, 1, j)),
                 ptr' = s.postition + 2 + j
          PROVE  /\ dat' \in [0 .. Capacity - 1 -> Cells] /\ ptr' \in 0 .. Capacity
                 /\ s.postition <= ptr'
      <3>1. Signature \in Seq(Cells) /\ Len(Signature) \in Nat
        BY <1>1, SignatureType
      <3>2. j \in Nat /\ j <= Len(Signature)
        BY <3>1
      <3>3. SubSeq(Signature, 1, j) \in Seq(Cells)
        BY <3>1, <3>2, PrefixType
      <3>4. s.postition + 2 \in Nat
        BY <1>1
      <3>5. dat' \in [0 .. Capacity - 1 -> Cells]
        BY <1>2, <2>3, <3>3, <3>4, PutType
      <3> QED
        BY <1>1, <2>3, <3>2, <3>5, SizeAssumption
    <2> QED
      BY <2>1, <2>2, <2>3 DEF CommitWriteError
  <1>6. eof' \in 0 .. Capacity /\ synced' \in 0 .. Capacity /\ synced' <= eof'
    <2>1. eof' = Max2(ptr, ptr') /\ synced' = Min2(synced, ptr)
      BY DEF CommitWriteError
    <2> QED
      BY <1>1, <1>3, <2>1, SizeAssumption DEF Min2, Max2
  <1>7. s' = [s EXCEPT !.pc = "broken", !.zs = zs]
    BY DEF CommitWriteError
  <1>8. zs \in {"off", "live", "ended", "freed"}
    BY DEF TypeOK, SaveStates
  <1> HIDE DEF zs
  <1>9. /\ s' \in SaveStates /\ s'.pc = "broken" /\ s'.filesize = s.filesize
        /\ s'.postition = s.postition /\ s'.data_begin = s.data_begin
    BY <1>7, <1>8 DEF TypeOK, SaveStates
  <1>10. TypeOK'
    BY <1>1, <1>3, <1>6, <1>9 DEF CommitWriteError, TypeOK, dbvars, svsvars
  <1> QED
    BY <1>1, <1>3, <1>6, <1>9, <1>10, IdleShape DEF CommitWriteError, svsvars

LEMMA CommitFlushShape ==
  ASSUME Typed, CommitFlush
  PROVE  Typed' /\ (Exact => Geometry')
  <1> USE DEF Typed
  <1>1. s.pc = "written" /\ s' = [s EXCEPT !.pc = "flushed"] /\ synced' \in {eof, synced}
    BY DEF CommitFlush
  <1>2. s' \in SaveStates
    BY <1>1 DEF TypeOK, SaveStates
  <1>3. /\ s'.pc = "flushed" /\ s'.filesize = s.filesize /\ s'.bytespassed = s.bytespassed
        /\ s'.hashed = s.hashed /\ s'.unwind = s.unwind /\ s'.zs = s.zs
        /\ s'.postition = s.postition /\ s'.data_begin = s.data_begin
        /\ s'.objsize = s.objsize /\ s'.write_signature = s.write_signature
        /\ s'.use_zlib = s.use_zlib
    BY <1>1 DEF TypeOK, SaveStates
  <1>4. TypeOK'
    BY <1>1, <1>2, <1>3 DEF CommitFlush, TypeOK, dbvars, svsvars
  <1>5. synced' <= eof /\ eof' = eof /\ ptr' = ptr /\ proc' = proc
    BY <1>1 DEF CommitFlush, TypeOK, Placed, svsvars
  <1>6. Placed'
    BY <1>1, <1>3, <1>5 DEF Placed
  <1>7. Exact => Geometry'
    BY <1>1, <1>3, <1>5 DEF Exact, Geometry
  <1> QED
    BY <1>4, <1>6, <1>7

\* commit() adds a row each to objects and files; the hash of the object is a
\* sequence of cells because the object lies in MAIN.DAT.
LEMMA RowsTyped ==
  ASSUME Typed, s.pc = "flushed"
  PROVE  /\ ObjectRow \in ObjectRows /\ FileRow \in FileRows
         /\ s.objsize \in Nat /\ s.postition \in Nat /\ eof \in 0 .. Capacity
  <1> USE DEF Typed
  <1>1. 0 <= s.objsize /\ s.postition + s.objsize <= eof
    BY DEF Placed
  <1>2. /\ s.postition \in Nat /\ s.data_begin \in Nat /\ eof \in 0 .. Capacity
        /\ s.objsize \in Int
    BY DEF TypeOK, SaveStates
  <1>3. s.objsize \in Nat /\ s.postition \in 0 .. Capacity
    BY <1>1, <1>2, SizeAssumption
  <1> DEFINE n == eof - s.postition
  <1>4. n \in Nat
    BY <1>1, <1>2, <1>3, SizeAssumption
  <1>5. Read(dat, s.postition, n) \in Seq(Cells)
    <2>1. \A j \in 1 .. n : dat[s.postition + j - 1] \in Cells
      <3> TAKE j \in 1 .. n
      <3>1. s.postition + j - 1 \in 0 .. Capacity - 1
        BY <1>2, <1>3, SizeAssumption
      <3> QED
        BY <3>1 DEF TypeOK
    <2> HIDE DEF n
    <2>2. Read(dat, s.postition, n) \in [1 .. n -> Cells]
      BY <2>1 DEF Read
    <2> QED
      BY <1>4, <2>2, FunctionIsSeq
  <1>6. Flags \in SUBSET FileFlags
    BY DEF Flags, FileFlags
  <1>7. ObjectRow \in ObjectRows
    BY <1>3, <1>5, <1>6 DEF ObjectRow, ObjectRows
  <1>8. FileRow \in FileRows
    <2>1. s.filesize \in Nat
      BY SizeAssumption DEF TypeOK
    <2>2. /\ s.hashed \in Seq(Bytes) /\ s.files_delta_cnt \in Nat /\ s.files_pid \in Nat
          /\ s.files_delta_size \in Nat /\ s.files_source_size \in Nat
      BY DEF TypeOK, SaveStates
    <2>3. FileHash \in Seq(Bytes)
      <3>1. <<0, 0>> \in Bytes
        BY DEF Bytes
      <3>2. OfNoFile \in Seq(Bytes)
        BY <3>1 DEF OfNoFile
      <3> QED
        BY <2>2, <3>2 DEF FileHash
    <2> QED
      BY <1>2, <2>1, <2>2, <2>3 DEF FileRow, FileRows
  <1> QED
    BY <1>2, <1>3, <1>7, <1>8

\* As long as errors end a save, the object is the end of MAIN.DAT.
LEMMA RowTypes ==
  ASSUME Shape, s.pc = "flushed"
  PROVE  /\ ObjectRow \in ObjectRows /\ FileRow \in FileRows
         /\ s.objsize = eof - s.postition /\ s.objsize \in Nat /\ s.postition \in Nat
         /\ eof \in 0 .. Capacity
         /\ ObjectRow.offset = s.postition /\ ObjectRow.size = s.objsize
         /\ ObjectRow.hash = Read(dat, s.postition, s.objsize)
  <1>1. /\ ObjectRow \in ObjectRows /\ FileRow \in FileRows
        /\ s.objsize \in Nat /\ s.postition \in Nat /\ eof \in 0 .. Capacity
    BY RowsTyped DEF Shape, Typed
  <1>2. s.objsize = eof - s.postition
    BY <1>1 DEF Shape, Geometry
  <1> QED
    BY <1>1, <1>2 DEF ObjectRow

LEMMA CommitDbShape ==
  ASSUME Typed, CommitDb
  PROVE  Typed' /\ (Exact => Geometry')
  <1> USE DEF Typed
  <1>1. s.pc = "flushed" /\ s' = [s EXCEPT !.pc = "done"]
    BY DEF CommitDb
  <1>2. s' \in SaveStates
    BY <1>1 DEF TypeOK, SaveStates
  <1>3. /\ s'.pc = "done" /\ s'.filesize = s.filesize /\ s'.bytespassed = s.bytespassed
        /\ s'.hashed = s.hashed /\ s'.unwind = s.unwind /\ s'.zs = s.zs
        /\ s'.postition = s.postition /\ s'.data_begin = s.data_begin
        /\ s'.objsize = s.objsize /\ s'.write_signature = s.write_signature
        /\ s'.use_zlib = s.use_zlib
    BY <1>1 DEF TypeOK, SaveStates
  <1>4. /\ ObjectRow \in ObjectRows /\ FileRow \in FileRows
        /\ s.objsize \in Nat /\ s.postition \in Nat
    BY <1>1, RowsTyped
  <1>5. objects' \in Seq(ObjectRows) /\ files' \in Seq(FileRows) /\ recorded' \in Nat
    <2>1. objects' = Append(objects, ObjectRow) /\ files' = Append(files, FileRow)
          /\ recorded' = s.postition + s.objsize
      BY DEF CommitDb
    <2>2. objects \in Seq(ObjectRows) /\ files \in Seq(FileRows)
      BY DEF TypeOK
    <2> QED
      BY <1>4, <2>1, <2>2
  <1>6. TypeOK'
    BY <1>1, <1>2, <1>3, <1>5 DEF CommitDb, TypeOK, svsvars
  <1>7. Placed'
    <2>1. /\ ptr' = eof /\ eof' = eof /\ synced' = synced /\ proc' = proc
      BY DEF CommitDb, svsvars
    <2>2. /\ s.postition + 2 <= s.data_begin /\ s.data_begin <= Capacity
          /\ synced <= eof /\ proc = "open" /\ s.postition <= eof
      <3>1. eof \in Nat /\ s.data_begin \in Nat /\ s.objsize \in Int /\ s.postition \in Nat
        BY DEF TypeOK, SaveStates
      <3> QED
        BY <1>1, <3>1 DEF Placed
    <2> QED
      BY <1>3, <2>1, <2>2 DEF Placed
  <1>8. Exact => Geometry'
    BY <1>1, <1>3 DEF CommitDb, Exact, Geometry, svsvars
  <1> QED
    BY <1>6, <1>7, <1>8

LEMMA CommitDbErrorShape ==
  ASSUME Typed, CommitDbError
  PROVE  Typed' /\ Geometry'
  <1> USE DEF Typed
  <1>1. /\ s.pc = "flushed" /\ proc = "open" /\ synced <= eof
        /\ s.postition + 2 <= s.data_begin /\ s.data_begin <= Capacity /\ s.postition <= eof
    <2>1. s.pc = "flushed"
      BY DEF CommitDbError
    <2>2. eof \in Nat /\ s.objsize \in Int /\ s.postition \in Nat
      BY DEF TypeOK, SaveStates
    <2> QED
      BY <2>1, <2>2 DEF Placed
  <1>2. /\ s' \in SaveStates /\ s'.pc = "broken" /\ s'.filesize = s.filesize
        /\ s'.postition = s.postition /\ s'.data_begin = s.data_begin
    BY DEF CommitDbError, TypeOK, SaveStates
  <1>3. TypeOK'
    BY <1>1, <1>2 DEF CommitDbError, TypeOK, dbvars, svsvars
  <1> QED
    BY <1>1, <1>2, <1>3, IdleShape DEF CommitDbError, svsvars

-----------------------------------------------------------------------------
(* The end of a filesave object, and the repository around it.             *)

LEMMA NoSaveType == NoSave \in SaveStates /\ NoSave.pc = "none"
  BY DEF NoSave, SaveStates

LEMMA DestroyShape ==
  ASSUME Typed, Destroy
  PROVE  Typed' /\ Geometry'
  <1> USE DEF Typed
  <1>1. s' \in SaveStates /\ s'.pc = "none"
    BY NoSaveType DEF Destroy
  <1>2. aborted' \in BOOLEAN
    BY DEF Destroy, TypeOK
  <1>3. TypeOK'
    BY <1>1, <1>2 DEF Destroy, TypeOK, datvars, dbvars, svsvars
  <1> QED
    BY <1>1, <1>3, IdleShape DEF Destroy, datvars, Placed

LEMMA CrashShape ==
  ASSUME Typed, Crash
  PROVE  Typed' /\ Geometry'
  <1> USE DEF Typed
  <1>1. s' \in SaveStates /\ s'.pc = "none"
    BY NoSaveType DEF Crash
  <1>2. PICK e \in synced .. eof : \E lost \in SUBSET (synced .. e - 1) :
          /\ dat' = [p \in DOMAIN dat |-> IF p >= e THEN Blank
                                         ELSE IF p \in lost THEN Junk ELSE dat[p]]
          /\ eof' = e /\ synced' = e
    BY DEF Crash
  <1>3. e \in 0 .. Capacity
    BY SizeAssumption DEF TypeOK
  <1>4. dat' \in [0 .. Capacity - 1 -> Cells]
    <2>1. Blank \in Cells /\ Junk \in Cells
      BY DEF Cells
    <2> QED
      BY <1>2, <2>1 DEF TypeOK
  <1>5. ptr' \in 0 .. Capacity
    BY SizeAssumption DEF Crash
  <1>6. TypeOK'
    BY <1>1, <1>2, <1>3, <1>4, <1>5 DEF Crash, TypeOK, dbvars
  <1> QED
    BY <1>1, <1>2, <1>3, <1>6, IdleShape

LEMMA DamageShape ==
  ASSUME Typed, Damage
  PROVE  Typed' /\ Geometry'
  <1> USE DEF Typed
  <1>1. proc = "down" /\ s.pc = "none" /\ s' = s
    BY DEF Damage, Placed
  <1>2. PICK p \in 1 .. eof - 1 :
          \/ dat' = [dat EXCEPT ![p] = Junk] /\ UNCHANGED <<eof, synced>>
          \/ dat' = Cut(dat, p) /\ eof' = p /\ synced' = Min2(synced, p)
    BY DEF Damage
  <1>3. /\ eof \in 0 .. Capacity /\ synced \in 0 .. Capacity /\ synced <= eof
        /\ p \in 0 .. Capacity
    BY SizeAssumption DEF TypeOK, Placed
  <1>4. dat' \in [0 .. Capacity - 1 -> Cells]
    <2>1. Junk \in Cells
      BY DEF Cells
    <2> QED
      BY <1>2, <2>1, CutType DEF TypeOK
  <1>5. eof' \in 0 .. Capacity /\ synced' \in 0 .. Capacity /\ synced' <= eof'
    BY <1>2, <1>3, SizeAssumption DEF Min2
  <1>6. TypeOK'
    BY <1>1, <1>4, <1>5 DEF Damage, TypeOK, dbvars, svsvars
  <1> QED
    BY <1>1, <1>5, <1>6, IdleShape

\* No filesave object lives while a repository is closed or being checked.
LEMMA OpenShape ==
  ASSUME Typed, NEW ro \in BOOLEAN, OpenUnchecked(ro) \/ OpenChecked(ro)
  PROVE  Typed' /\ Geometry'
  <1> USE DEF Typed
  <1>1. proc = "down" /\ s.pc = "none" /\ s' = s /\ synced' = synced /\ eof' = eof
    BY DEF OpenUnchecked, OpenChecked, Placed
  <1>2. CASE OpenUnchecked(ro)
    <2>1. 0 \in 0 .. Capacity
      BY SizeAssumption
    <2>2. TypeOK'
      BY <1>1, <1>2, <2>1 DEF OpenUnchecked, TypeOK, dbvars
    <2> QED
      BY <1>1, <2>2, IdleShape DEF Placed
  <1>3. CASE OpenChecked(ro)
    <2>1. 1 \in 0 .. Capacity
      BY SizeAssumption
    <2>2. row' = 1 /\ alarm' = FALSE /\ proc' = "checking" /\ readonly' = ro /\ aborted' = FALSE
          /\ ptr' = 1 /\ dat' = dat /\ saves' = saves /\ damaged' = damaged
          /\ UNCHANGED dbvars
      BY <1>3 DEF OpenChecked
    <2>3. TypeOK'
      <3>1. row' \in Nat \ {0}
        BY <2>2
      <3>2. config' \in Configs /\ objects' \in Seq(ObjectRows) /\ files' \in Seq(FileRows)
            /\ recorded' \in Nat
        BY <2>2 DEF TypeOK, dbvars
      <3> QED
        BY <1>1, <2>1, <2>2, <3>1, <3>2 DEF TypeOK
    <2> QED
      BY <1>1, <2>3, IdleShape DEF Placed
  <1> QED
    BY <1>2, <1>3

LEMMA CheckObjectShape ==
  ASSUME Typed, CheckObject
  PROVE  Typed' /\ Geometry'
  <1> USE DEF Typed
  <1> DEFINE r == objects[row]
  <1>1. /\ row \in 1 .. Len(objects) /\ proc = "checking"
        /\ UNCHANGED <<dat, eof, synced, damaged, dbvars, readonly, s, saves, aborted>>
    BY DEF CheckObject, TypeOK
  <1>2. r \in ObjectRows
    BY <1>1 DEF TypeOK
  <1>3. r.offset \in 0 .. Capacity /\ r.size \in Nat
    BY <1>2 DEF ObjectRows
  <1>4. /\ alarm' = (alarm \/ Complaint(r))
        /\ \/ proc' = "down" /\ row' = row /\ ptr' = ptr
           \/ /\ row' = row + 1 /\ proc' = proc
              /\ ptr' = IF ShortRead(r) THEN Max2(r.offset, eof) ELSE r.offset + r.size
    BY DEF CheckObject
  <1> HIDE DEF r
  <1>5. alarm' \in BOOLEAN
    BY <1>4 DEF TypeOK, Complaint, UnusedSpace, WrongHeader, HashMismatch
  <1>6. ptr' \in 0 .. Capacity
    <2>1. ptr \in 0 .. Capacity /\ eof \in 0 .. Capacity
      BY DEF TypeOK
    <2>2. CASE ShortRead(r)
      BY <1>3, <1>4, <2>1, <2>2, SizeAssumption DEF Max2
    <2>3. CASE ~ShortRead(r)
      BY <1>3, <1>4, <2>1, <2>3, SizeAssumption DEF ShortRead
    <2> QED
      BY <2>2, <2>3
  <1>7. row' \in Nat \ {0} /\ proc' \in {"down", "checking"}
    BY <1>1, <1>4 DEF TypeOK
  <1>8. TypeOK'
    BY <1>1, <1>5, <1>6, <1>7 DEF TypeOK, dbvars
  <1>9. s'.pc = "none" /\ synced' <= eof'
    BY <1>1 DEF Placed
  <1> QED
    BY <1>8, <1>9, IdleShape

LEMMA CheckEndShape ==
  ASSUME Typed, CheckEnd
  PROVE  Typed' /\ Geometry'
  <1> USE DEF Typed
  <1>1. /\ proc' = "open" /\ s.pc = "none"
        /\ UNCHANGED <<damaged, dbvars, readonly, row, alarm, s, saves, aborted>>
    BY DEF CheckEnd, Placed
  <1>2. eof \in 0 .. Capacity /\ synced \in 0 .. Capacity /\ synced <= eof /\ recorded \in Nat
    BY DEF TypeOK, Placed
  <1>3. /\ dat' \in [0 .. Capacity - 1 -> Cells] /\ eof' \in 0 .. Capacity
        /\ ptr' \in 0 .. Capacity /\ synced' \in 0 .. Capacity /\ synced' <= eof'
    <2>1. CASE ~readonly /\ recorded < eof
      <3>1. /\ dat' = Cut(dat, recorded) /\ eof' = recorded /\ ptr' = recorded
            /\ synced' = Min2(synced, recorded)
        BY <2>1 DEF CheckEnd
      <3>2. dat' \in [0 .. Capacity - 1 -> Cells]
        BY <3>1, CutType DEF TypeOK
      <3> QED
        BY <1>2, <2>1, <3>1, <3>2, SizeAssumption DEF Min2
    <2>2. CASE ~(~readonly /\ recorded < eof)
      <3>1. ptr' = eof /\ UNCHANGED <<dat, eof, synced>>
        BY <2>2 DEF CheckEnd
      <3> QED
        BY <1>2, <3>1 DEF TypeOK
    <2> QED
      BY <2>1, <2>2
  <1>4. TypeOK'
    BY <1>1, <1>3 DEF TypeOK, dbvars
  <1> QED
    BY <1>1, <1>3, <1>4, IdleShape

LEMMA CloseShape ==
  ASSUME Typed, Close
  PROVE  Typed' /\ Geometry'
  <1> USE DEF Typed
  <1>1. /\ s.pc = "none" /\ proc' = "down"
        /\ UNCHANGED <<datvars, damaged, dbvars, readonly, row, alarm, s, saves, aborted>>
    BY DEF Close
  <1>2. TypeOK'
    BY <1>1 DEF TypeOK, datvars, dbvars
  <1> QED
    BY <1>1, <1>2, IdleShape DEF datvars, Placed

-----------------------------------------------------------------------------
(* The types, and the exact place of a save where the first error ends it. *)

LEMMA InitShape == Init => Typed /\ Shape
  <1> SUFFICES ASSUME Init PROVE Typed /\ Shape
    OBVIOUS
  <1>1. dat \in [0 .. Capacity - 1 -> Cells]
    BY DEF Init, Cells
  <1>2. eof \in 0 .. Capacity /\ ptr \in 0 .. Capacity /\ synced \in 0 .. Capacity /\ synced <= eof
    BY SizeAssumption DEF Init
  <1>3. /\ s \in SaveStates /\ s.pc = "none" /\ s = NoSave
    BY NoSaveType DEF Init
  <1>4. objects \in Seq(ObjectRows) /\ files \in Seq(FileRows)
    BY DEF Init
  <1>5. TypeOK
    <2>1. /\ damaged \in BOOLEAN /\ config \in Configs /\ recorded \in Nat
          /\ proc \in {"down", "checking", "open"} /\ readonly \in BOOLEAN
          /\ alarm \in BOOLEAN /\ saves \in Nat /\ aborted \in BOOLEAN
      BY DEF Init
    <2>2. row \in Nat \ {0}
      BY DEF Init
    <2> QED
      BY <1>1, <1>2, <1>3, <1>4, <2>1, <2>2 DEF TypeOK
  <1> QED
    BY <1>2, <1>3, <1>5 DEF Shape, Typed, Placed, Geometry

LEMMA NextTyped ==
  ASSUME Typed, [Next]_vars
  PROVE  Typed' /\ (Exact => Geometry')
  <1>1. CASE SaveNext
    <2>1. ASSUME NEW n \in FileSizes, NEW prev \in Offsets, NEW psign \in BOOLEAN,
                 NEW prob \in BOOLEAN, Construct(n, prev, psign, prob)
          PROVE  Typed' /\ (Exact => Geometry')
      BY <2>1, ConstructShape
    <2>2. ASSUME NEW prev \in Offsets, ConstructError(prev)
          PROVE  Typed' /\ (Exact => Geometry')
      BY <2>2, ConstructErrorShape
    <2>3. ASSUME NEW k \in Chunks, NEW e \in 0 .. MaxEmit,
                 Process(k, e) \/ ProcessWriteError(k, e) \/ ProcessZlibError(k, e)
          PROVE  Typed' /\ (Exact => Geometry')
      BY <2>3, ProcessShape, ProcessWriteErrorShape, ProcessZlibErrorShape
    <2>4. CASE restart \/ restartError
      BY <2>4, RestartShape
    <2>5. CASE CommitRefused \/ CommitWrites \/ CommitWriteError
      BY <2>5, CommitRefusedShape, CommitWritesShape, CommitWriteErrorShape
    <2>6. CASE CommitFlush \/ CommitDb \/ CommitDbError
      BY <2>6, CommitFlushShape, CommitDbShape, CommitDbErrorShape
    <2>7. CASE Destroy
      BY <2>7, DestroyShape
    <2> QED
      BY <1>1, <2>1, <2>2, <2>3, <2>4, <2>5, <2>6, <2>7 DEF SaveNext
  <1>2. CASE RepositoryNext
    <2>1. ASSUME NEW ro \in BOOLEAN, OpenUnchecked(ro) \/ OpenChecked(ro)
          PROVE  Typed' /\ (Exact => Geometry')
      BY <2>1, OpenShape
    <2>2. CASE CheckObject \/ CheckEnd \/ Close
      BY <2>2, CheckObjectShape, CheckEndShape, CloseShape
    <2>3. CASE Crash \/ Damage
      BY <2>3, CrashShape, DamageShape
    <2> QED
      BY <1>2, <2>1, <2>2, <2>3 DEF RepositoryNext
  <1>3. CASE UNCHANGED vars
    <2>1. Typed'
      BY <1>3 DEF vars, datvars, dbvars, svsvars, Typed, TypeOK, Placed
    <2>2. Exact => Geometry'
      BY <1>3 DEF vars, datvars, dbvars, svsvars, Exact, Geometry
    <2> QED
      BY <2>1, <2>2
  <1> QED
    BY <1>1, <1>2, <1>3 DEF Next

LEMMA NextShape ==
  ASSUME ~CommitAfterError, Shape, [Next]_vars
  PROVE  Shape'
  BY NextTyped DEF Shape, Typed, Exact

\* Every reachable state has the types of TypeOK, whatever the sizes, the
\* configurations, the failures, the moments at which restart() is called and
\* what callers do with a save that has failed: no object size is negative, no
\* field of a row is missing or undefined, and the file pointer never leaves
\* MAIN.DAT.
THEOREM TypeCorrect == Spec => []TypeOK
  <1>1. Init => Typed
    BY InitShape
  <1>2. Typed /\ [Next]_vars => Typed'
    BY NextTyped
  <1>3. Typed => TypeOK
    BY DEF Typed
  <1> QED
    BY <1>1, <1>2, <1>3, PTL DEF Spec
=============================================================================
