------------------------------ MODULE FileSave ------------------------------
(***************************************************************************)
(* How SVS stores one version of a file.                                   *)
(*                                                                         *)
(* A `filesave' object (svslib/filesubsystem.cpp) streams a file to the    *)
(* end of MAIN.DAT and, last of all, commits rows that describe it to      *)
(* MAIN.DB in the transaction it opened first.  This module puts that      *)
(* protocol next to everything that can interrupt it: write errors, a      *)
(* disk that fills up, exceptions, abandoned objects, restart(), crashes   *)
(* that lose what was not flushed - and next to the code that meets the    *)
(* result afterwards, the existing-repository branch of the SVS            *)
(* constructor (svslib/svslib.cpp) with its integrity check `datacheck'.   *)
(*                                                                         *)
(* MAIN.DAT is an array of cells instead of bytes: one for the magic       *)
(* number, one for each 8-byte word of an object's header, one for each    *)
(* signature entry and one for each payload byte or delta command.  Cell   *)
(* contents say where a byte comes from (<<version, index>>) and nothing   *)
(* else.  BLAKE3 is collision free: a hash is the content it was taken of. *)
(***************************************************************************)
EXTENDS Integers, Sequences

CONSTANTS
  Capacity,         \* cells MAIN.DAT can grow to before the disk is full
  FileSizes,        \* sizes of the files that are saved
  Chunks,           \* sizes of the buffers handed to process()
  MaxEmit,          \* most cells one process() call appends to a delta
  MaxSaves,         \* bound on the filesave objects constructed
  THRESHOLD_ZLIB, THRESHOLD_DELTA,   \* as in filesave, scaled down
  BlockSize(_),     \* signature block of a file: if the signature is handed
  EmbeddedBlockSize(_),   \* out, and if it is embedded in MAIN.DAT
  Configs,          \* the config tables a repository may have
  RestartAnytime,   \* callers may restart() before the first pass is over
  SaveAfterFailure, \* callers may save again after a save has failed
  CommitAfterError, \* callers may go on after process(), restart() or commit()
                    \* has thrown
  CreationFlushed,  \* the magic reached the disk when MAIN.DAT was created
  FlushMayFail,     \* FlushFileBuffers may fail (its result is ignored)
  DamageMayHappen   \* MAIN.DAT may be damaged by something else than SVS

VARIABLES
  dat, eof, ptr,    \* MAIN.DAT: cells, size, file pointer of the HANDLE
  synced,           \* cells below this one are on the disk for good
  damaged,          \* MAIN.DAT was damaged from outside
  config,           \* MAIN.DB: the switches of the config table
  objects, files,   \* MAIN.DB: rows, indexed by id
  recorded,         \* MAIN.DB: config row 'filesize'
  proc, readonly,   \* the SVS object: "down", "checking" or "open"
  row, alarm,       \* datacheck: next row; it has reported an error
  s, saves,         \* the filesave object; how many were constructed
  aborted           \* a save has failed since the repository was opened

datvars == <<dat, eof, ptr, synced>>
dbvars  == <<config, objects, files, recorded>>
svsvars == <<proc, readonly, row, alarm>>
vars    == <<datvars, damaged, dbvars, svsvars, s, saves, aborted>>

ASSUME SizeAssumption ==
  /\ Capacity \in Nat \ {0} /\ MaxEmit \in Nat /\ MaxSaves \in Nat
  /\ THRESHOLD_ZLIB \in Nat /\ THRESHOLD_DELTA \in Nat
  /\ FileSizes \subseteq Nat /\ Chunks \subseteq Nat

ASSUME BlockSizeAssumption ==
  \A n \in FileSizes : BlockSize(n) \in Nat \ {0} /\ EmbeddedBlockSize(n) \in Nat \ {0}

ASSUME SwitchAssumption ==
  /\ Configs \subseteq [{"zlib", "embed_s", "local", "archive", "raw_content"} -> BOOLEAN]
  /\ {RestartAnytime, SaveAfterFailure, CommitAfterError,
      CreationFlushed, FlushMayFail, DamageMayHappen} \subseteq BOOLEAN

-----------------------------------------------------------------------------
(* Cells of MAIN.DAT and the primitives that change them.                  *)

Magic == [k |-> "magic"]
Blank == [k |-> "blank"]       \* beyond the end, or allocated and not written
Junk  == [k |-> "junk"]        \* uninitialised, lost in a crash, or damaged

Max2(a, b) == IF a > b THEN a ELSE b
Min2(a, b) == IF a < b THEN a ELSE b

\* d with the cells of the sequence c written at q
Put(d, q, c) ==
  [p \in DOMAIN d |-> IF q <= p /\ p < q + Len(c) THEN c[p - q + 1] ELSE d[p]]

\* d after SetEndOfFile at z
Cut(d, z) == [p \in DOMAIN d |-> IF p < z THEN d[p] ELSE Blank]

\* ReadFile of n cells at q
Read(d, q, n) == [j \in 1 .. n |-> d[q + j - 1]]

\* Mutant: the number of bytes written is not looked at
WriteFileUnchecked(c) ==
  /\ dat' = Put(dat, ptr, c)
  /\ ptr' = ptr + Len(c)
  /\ eof' = Max2(eof, ptr + Len(c))
  /\ UNCHANGED synced

\* WriteFile of all of c at the file pointer
WriteFile(c) ==
  /\ ptr + Len(c) <= Capacity
  /\ dat' = Put(dat, ptr, c)
  /\ ptr' = ptr + Len(c)
  /\ eof' = Max2(eof, ptr + Len(c))
  /\ UNCHANGED synced

\* WriteFile that fails or falls short, leaving a proper prefix of c
WriteShort(c) == \E j \in 0 .. Len(c) - 1 : WriteFile(SubSeq(c, 1, j))

-----------------------------------------------------------------------------
(* The filesave object.  pc is where its caller stands:                    *)
(*   "none"    there is none           "failed"   a call has thrown        *)
(*   "stream"  process()/restart()     "written"  commit(): header is out  *)
(*   "flushed" commit(): flushed       "done"     commit() has returned    *)
(*   "broken"  commit() has thrown, and left its traces                    *)

NoSave ==
  [pc |-> "none", v |-> 0, filesize |-> 0, prev |-> 0, files_pid |-> 0,
   postition |-> 0, data_begin |-> 0, raw_file |-> TRUE,
   no_signature |-> TRUE, use_zlib |-> FALSE, write_signature |-> FALSE,
   bytespassed |-> 0, hashed |-> << >>, unwind |-> FALSE, zs |-> "off",
   objsize |-> 0, reread |-> FALSE,
   files_delta_cnt |-> 0, files_delta_size |-> 0, files_source_size |-> 0]

\* The row of files that "SELECT * FROM files where object = @offset" finds
FileAt(offset) == CHOOSE i \in DOMAIN files : files[i].object = offset

\* The offsets a caller can pass as prev: none, or a saved file
Offsets == {0} \cup {files[i].object : i \in DOMAIN files}

\* Type byte read back from MAIN.DAT; any value if the header is damaged
TypesRead(offset) ==
  IF dat[offset].k = "hdr" THEN {dat[offset].type}
  ELSE {{}, {"CONTAINS_SIGNATURE"}}

\* Too small for a signature or a delta to pay off
Small(n) == BlockSize(n) > n \/ n <= THRESHOLD_DELTA

\* Mutant: the incomplete last block is counted
BlocksRoundedUp(n) == (n + EmbeddedBlockSize(n) - 1) \div EmbeddedBlockSize(n)

\* Signature entries of an n-byte file, and the cells they take with their
\* size word when they are embedded
Blocks(n)         == n \div EmbeddedBlockSize(n)
SignatureCells(n)   == 1 + Blocks(n)

NoSignature(n) == Small(n) \/ config.raw_content

\* A signature handed in by the caller (psign) switches off the embedding of
\* the new one in "local" mode
WriteSignature(n, psign) ==
  ~NoSignature(n) /\ config.embed_s /\ ~(psign /\ config.local)

\* The file is stored whole: it has no usable predecessor, or the random
\* choice (`prob') went against a delta and the archive switch is off
StoredWhole(n, prev, prob) ==
  Small(n) \/ prev = 0 \/ config.raw_content \/ (~prob /\ ~config.archive)

\* or no signature of the predecessor is at hand
NoBase(prev, psign, type) == ~psign /\ "CONTAINS_SIGNATURE" \notin type

\* What the constructor decides about the file
Constructed(n, prev, psign, prob, type) ==
  LET raw  == StoredWhole(n, prev, prob) \/ NoBase(prev, psign, type)
      wsig == WriteSignature(n, psign)
      zlib == n > THRESHOLD_ZLIB /\ config.zlib
      par  == IF raw THEN [deltas_count |-> -1, deltas_size |-> 0, source_size |-> 0]
                     ELSE files[FileAt(prev)]
  IN [pc |-> "stream", v |-> saves + 1, filesize |-> n, prev |-> prev,
      files_pid |-> IF prev = 0 THEN 0 ELSE FileAt(prev),
      postition |-> eof,
      data_begin |-> eof + 2 + (IF wsig THEN SignatureCells(n) ELSE 0),
      raw_file |-> raw, no_signature |-> NoSignature(n),
      use_zlib |-> zlib, write_signature |-> wsig,
      bytespassed |-> 0, hashed |-> << >>, unwind |-> FALSE,
      zs |-> IF zlib THEN "live" ELSE "off", objsize |-> 0, reread |-> FALSE,
      files_delta_cnt   |-> par.deltas_count + 1,
      files_delta_size  |-> par.deltas_size,
      files_source_size |-> par.source_size]

HeaderWords(prev) == <<Junk, [k |-> "prev", offset |-> prev]>>

\* A careful caller closes the repository once a save has failed
MayConstruct ==
  /\ proc = "open" /\ ~readonly
  /\ s.pc = "none" /\ saves < MaxSaves
  /\ SaveAfterFailure \/ ~aborted

\* filesave::filesave
Construct(n, prev, psign, prob) ==
  /\ MayConstruct
  /\ prev \in Offsets
  /\ \E type \in (IF prev = 0 THEN {{}} ELSE TypesRead(prev)) :
       s' = Constructed(n, prev, psign, prob, type)
  /\ s'.data_begin <= Capacity
  /\ dat' = Put(dat, eof, HeaderWords(prev))
  /\ eof' = s'.data_begin
  /\ ptr' = s'.data_begin
  /\ saves' = saves + 1
  /\ UNCHANGED <<synced, damaged, dbvars, svsvars, aborted>>

\* The constructor throws: nothing but a piece of the header is left behind
ConstructError(prev) ==
  /\ MayConstruct
  /\ prev \in Offsets
  /\ \E j \in 0 .. 2 :
       /\ eof + j <= Capacity
       /\ dat' = Put(dat, eof, SubSeq(HeaderWords(prev), 1, j))
       /\ eof' = eof + j
       /\ ptr' = eof + j
  /\ saves' = saves + 1
  /\ aborted' = TRUE
  /\ UNCHANGED <<synced, damaged, dbvars, svsvars, s>>

-----------------------------------------------------------------------------
(* process(buf, k).  In a delta, `e' is how many commands and literal      *)
(* bytes the matcher emits for the buffer (module DeltaStream says which). *)

Chunk(k) == [j \in 1 .. k |-> <<s.v, s.bytespassed + j>>]

\* Mutant: the second pass after restart() is hashed as well
HashedAlways(k) == s.hashed \o Chunk(k)

\* blake3_hasher_update and the signature see the bytes of a first pass only
HashedAfter(k) == IF s.unwind THEN s.hashed ELSE s.hashed \o Chunk(k)

\* The end of a deflate stream that has not ended yet
Finish == IF s.zs = "live" THEN <<[k |-> "zend", v |-> s.v]>> ELSE << >>

\* _process(buf, 0), a Z_FINISH, is called at the end of the file, and for
\* an empty buffer of a file stored whole
Finishes(k) == s.bytespassed + k = s.filesize \/ (s.raw_file /\ k = 0)

\* Cells written for the buffer itself, and in all
BufferCells(k, e) ==
  IF s.raw_file
  THEN [j \in 1 .. k |-> [k |-> "data", b |-> Chunk(k)[j], z |-> s.use_zlib]]
  ELSE [j \in 1 .. e |-> [k |-> "delta", v |-> s.v]]

ProcessCells(k, e) ==
  BufferCells(k, e) \o (IF Finishes(k) THEN Finish ELSE << >>)

\* deflate() is given input after the stream has ended, or is called at all
\* after commit() has freed the stream
DeflateError(k, e) ==
  \/ s.zs = "ended" /\ IF s.raw_file THEN k > 0 ELSE e > 0
  \/ s.zs = "freed" /\ (s.raw_file \/ e > 0 \/ s.bytespassed + k = s.filesize)

\* Where process() and commit() may be called: nothing in the code stops a
\* caller who has seen an exception, or commit() return
Going == {"stream", "done"} \cup (IF CommitAfterError THEN {"failed", "broken"} ELSE {})

\* The caller calls process(); the last byte of a delta makes it emit
\* something, and nobody goes on sending after having sent too much
MayProcess(k, e) ==
  /\ s.pc \in Going
  /\ s.bytespassed <= s.filesize
  /\ IF s.raw_file THEN e = 0
     ELSE /\ k = 0 => e = 0
          /\ k > 0 /\ s.bytespassed + k = s.filesize => e > 0

Process(k, e) ==
  LET total == s.bytespassed + k
  IN /\ MayProcess(k, e) /\ ~DeflateError(k, e)
     /\ WriteFile(ProcessCells(k, e))
     /\ s' = [s EXCEPT
                !.hashed = HashedAfter(k),
                !.bytespassed = total,
                !.files_delta_size = IF s.raw_file THEN @ ELSE @ + e,
                !.zs = IF Finishes(k) /\ @ = "live" THEN "ended" ELSE @,
                \* "Too much bytes recieved than file size"
                !.pc = IF total > s.filesize THEN "failed" ELSE @]
     /\ UNCHANGED <<damaged, dbvars, svsvars, saves, aborted>>

\* A write fails: the hash has seen the buffer, bytespassed has not, and
\* some of the delta has been counted
ProcessWriteError(k, e) ==
  /\ MayProcess(k, e) /\ ~DeflateError(k, e)
  /\ WriteShort(ProcessCells(k, e))
  /\ \E counted \in 0 .. e :
       s' = [s EXCEPT !.hashed = HashedAfter(k), !.pc = "failed",
                      !.files_delta_size = @ + counted]
  /\ UNCHANGED <<damaged, dbvars, svsvars, saves, aborted>>

\* "zlib compression error"
ProcessZlibError(k, e) ==
  /\ MayProcess(k, e) /\ DeflateError(k, e)
  /\ s' = [s EXCEPT !.hashed = HashedAfter(k), !.pc = "failed"]
  /\ UNCHANGED <<datvars, damaged, dbvars, svsvars, saves, aborted>>

-----------------------------------------------------------------------------
(* restart(): the delta did not pay off, a second pass stores the file     *)
(* whole over it.                                                          *)

need_restart ==
  /\ ~s.raw_file
  /\ \/ s.files_delta_size >= s.filesize
     \/ s.files_delta_size + s.files_source_size >= 3 * s.filesize

\* Mutant: the second pass makes the delta once more
RestartedAsDelta ==
  [s EXCEPT !.unwind = TRUE, !.bytespassed = 0,
            !.files_delta_size = files[s.files_pid].deltas_size,
            !.zs = IF s.use_zlib THEN "live" ELSE "off"]

Restarted ==
  [s EXCEPT !.raw_file = TRUE, !.unwind = TRUE, !.bytespassed = 0,
            !.zs = IF s.use_zlib THEN "live" ELSE "off"]

MayRestart ==
  /\ s.pc \in Going \ {"done"} /\ need_restart
  /\ RestartAnytime \/ s.bytespassed = s.filesize

\* Mutant: the file pointer stays behind the delta
restartWithoutSeek ==
  /\ MayRestart
  /\ s' = Restarted
  /\ UNCHANGED <<datvars, damaged, dbvars, svsvars, saves, aborted>>

restart ==
  /\ MayRestart
  /\ s' = Restarted
  /\ dat' = Cut(dat, s.data_begin)
  /\ ptr' = s.data_begin
  /\ eof' = s.data_begin
  /\ synced' = Min2(synced, s.data_begin)
  /\ UNCHANGED <<damaged, dbvars, svsvars, saves, aborted>>

restartError ==
  /\ MayRestart
  /\ s' = [Restarted EXCEPT !.pc = "failed"]
  /\ ptr' \in {ptr, s.data_begin}
  /\ UNCHANGED <<dat, eof, synced, damaged, dbvars, svsvars, saves, aborted>>

-----------------------------------------------------------------------------
(* commit().  It is cut where a crash or an error leaves different states: *)
(* the writes, the flush, the database transaction.                        *)

Flags ==
  (IF s.raw_file THEN {} ELSE {"CONTENT_DELTA"}) \cup
  (IF s.use_zlib THEN {"CONTENT_ZLIB"} ELSE {}) \cup
  (IF s.write_signature THEN {"CONTAINS_SIGNATURE"} ELSE {}) \cup
  (IF s.use_zlib /\ ~s.raw_file THEN {"CONTENT_DELTA_ENCODED"} ELSE {})

\* Mutant: the size of the data instead of the object's
HeaderOfData(end) == [k |-> "hdr", type |-> Flags, size |-> end - s.data_begin]

\* header = flags + (objsize << 8)
Header(end) == [k |-> "hdr", type |-> Flags, size |-> end - s.postition]

\* nsstore: its size word, then one entry for each full block hashed so far
Signature ==
  LET b == EmbeddedBlockSize(s.filesize)
  IN <<[k |-> "sig", count |-> Blocks(s.filesize)]>> \o
     [i \in 1 .. Len(s.hashed) \div b |->
        [k |-> "block", bytes |-> SubSeq(s.hashed, (i - 1) * b + 1, i * b)]]

\* "Not enough bytes recieved to file size"; or else SetEndOfFile fails, and
\* nothing has happened either
CommitRefused ==
  /\ s.pc \in Going
  /\ s' = [s EXCEPT !.pc = "failed"]
  /\ UNCHANGED <<datvars, damaged, dbvars, svsvars, saves, aborted>>

\* MAIN.DAT ends at the file pointer, and the first header word is out
WithHeader == Put(Cut(dat, ptr), s.postition, <<Header(ptr)>>)

\* SetEndOfFile, the first header word and, if embedded, the signature
CommitWrites ==
  LET sigEnd == s.postition + 2 + Len(Signature)
  IN /\ s.pc \in Going /\ s.bytespassed >= s.filesize
     /\ IF s.write_signature
        THEN /\ sigEnd <= Capacity
             /\ dat' = Put(WithHeader, s.postition + 2, Signature)
             /\ ptr' = sigEnd
        ELSE /\ dat' = WithHeader
             /\ ptr' = s.postition + 1
     /\ eof' = Max2(ptr, ptr')
     /\ synced' = Min2(synced, ptr)
     /\ s' = [s EXCEPT !.pc = "written", !.objsize = ptr - s.postition,
                       !.zs = IF s.use_zlib THEN "freed" ELSE @]
     /\ UNCHANGED <<damaged, dbvars, svsvars, saves, aborted>>

\* One of these writes fails, or the seek behind the header; what is out of a
\* signature is a prefix.  The file pointer stays there, for the next call.
CommitWriteError ==
  /\ s.pc \in Going /\ s.bytespassed >= s.filesize
  /\ \/ dat' = Cut(dat, ptr) /\ ptr' = s.postition
     \/ s.write_signature /\ dat' = WithHeader /\ ptr' = s.postition + 1
     \/ s.write_signature /\ \E j \in 0 .. Len(Signature) - 1 :
          /\ s.postition + 2 + j <= Capacity
          /\ dat' = Put(WithHeader, s.postition + 2, SubSeq(Signature, 1, j))
          /\ ptr' = s.postition + 2 + j
  /\ eof' = Max2(ptr, ptr')
  /\ synced' = Min2(synced, ptr)
  /\ s' = [s EXCEPT !.pc = "broken", !.zs = IF s.use_zlib THEN "freed" ELSE @]
  /\ UNCHANGED <<damaged, dbvars, svsvars, saves, aborted>>

\* Mutant: commit() does not flush
CommitWithoutFlush ==
  /\ s.pc = "written"
  /\ s' = [s EXCEPT !.pc = "flushed"]
  /\ UNCHANGED <<datvars, damaged, dbvars, svsvars, saves, aborted>>

\* FlushFileBuffers; its result is not looked at
CommitFlush ==
  /\ s.pc = "written"
  /\ synced' \in {eof} \cup (IF FlushMayFail THEN {synced} ELSE {})
  /\ s' = [s EXCEPT !.pc = "flushed"]
  /\ UNCHANGED <<dat, eof, ptr, damaged, dbvars, svsvars, saves, aborted>>

\* The rows commit() inserts; the object's hash is taken by reading it back
ObjectRow ==
  [offset |-> s.postition, size |-> s.objsize, type |-> Flags,
   hash |-> Read(dat, s.postition, eof - s.postition)]

\* What file_hash is of once commit() has used it for the object: no file
OfNoFile == << <<0, 0>> >>

FileHash == IF s.reread THEN OfNoFile ELSE s.hashed

\* Mutant: a file that restart() has made whole keeps the totals of its delta
FileRowOfDelta ==
  [object |-> s.postition, file_size |-> s.filesize, file_hash |-> FileHash,
   deltas_count |-> s.files_delta_cnt, deltas_size |-> s.files_delta_size,
   source_size |-> s.files_source_size, parent |-> s.files_pid]

FileRow ==
  [object |-> s.postition, file_size |-> s.filesize, file_hash |-> FileHash,
   deltas_count |-> IF s.raw_file THEN 0 ELSE s.files_delta_cnt,
   deltas_size  |-> IF s.raw_file THEN 0 ELSE s.files_delta_size,
   source_size  |-> IF s.raw_file THEN s.filesize ELSE s.files_source_size,
   parent |-> s.files_pid]

\* INSERT, INSERT, UPDATE, COMMIT.  offset is a unique index of objects.
CommitDb ==
  /\ s.pc = "flushed"
  /\ \A i \in DOMAIN objects : objects[i].offset # s.postition
  /\ objects'  = Append(objects, ObjectRow)
  /\ files'    = Append(files, FileRow)
  /\ recorded' = s.postition + s.objsize
  /\ ptr' = eof
  /\ s' = [s EXCEPT !.pc = "done"]
  /\ UNCHANGED <<dat, eof, synced, damaged, config, svsvars, saves, aborted>>

\* One of them fails, or the unique index refuses the row: nothing is recorded.
\* The object has been hashed with file_hash by then.  (So it has after
\* CommitDb, but there the index refuses every other row.)
CommitDbError ==
  /\ s.pc = "flushed"
  /\ s' = [s EXCEPT !.pc = "broken", !.reread = TRUE]
  /\ ptr' = eof
  /\ UNCHANGED <<dat, eof, synced, damaged, dbvars, svsvars, saves, aborted>>

\* ~filesave: the transaction is rolled back if it was not committed;
\* what was written to MAIN.DAT stays
Destroy ==
  /\ s.pc \notin {"none", "written", "flushed"}
  /\ s' = NoSave
  /\ aborted' = (aborted \/ s.pc # "done")
  /\ UNCHANGED <<datvars, damaged, dbvars, svsvars, saves>>

-----------------------------------------------------------------------------
(* Process death, damage, and the SVS constructor on an existing           *)
(* repository.                                                             *)

\* Power loss or process death.  What was not flushed survives, or not, cell
\* by cell, and the file may be cut anywhere above the flushed part.
Crash ==
  /\ proc # "down" \/ synced < eof
  /\ \E e \in synced .. eof : \E lost \in SUBSET (synced .. e - 1) :
       /\ dat' = [p \in DOMAIN dat |-> IF p >= e THEN Blank
                                      ELSE IF p \in lost THEN Junk ELSE dat[p]]
       /\ eof' = e
       /\ synced' = e
  /\ ptr' = 0
  /\ proc' = "down"
  /\ s' = NoSave
  /\ UNCHANGED <<damaged, dbvars, readonly, row, alarm, saves, aborted>>

\* Bit rot or a stray writer, once: a cell is overwritten or the tail is gone
Damage ==
  /\ DamageMayHappen /\ ~damaged /\ proc = "down"
  /\ \E p \in 1 .. eof - 1 :
       \/ dat' = [dat EXCEPT ![p] = Junk] /\ UNCHANGED <<eof, synced>>
       \/ dat' = Cut(dat, p) /\ eof' = p /\ synced' = Min2(synced, p)
  /\ damaged' = TRUE
  /\ UNCHANGED <<ptr, dbvars, svsvars, s, saves, aborted>>

\* Mutant: the sizes are not compared
OpenBlindly(ro) ==
  /\ proc = "down"
  /\ proc' = "open" /\ readonly' = ro /\ ptr' = 0
  /\ aborted' = FALSE
  /\ UNCHANGED <<dat, eof, synced, damaged, dbvars, row, alarm, s, saves>>

\* SVS::SVS without diskchck: only the size is compared, and a writer is
\* turned away ("file size mismatch") when it differs
OpenUnchecked(ro) ==
  /\ proc = "down"
  /\ ro \/ eof = recorded
  /\ proc' = "open" /\ readonly' = ro /\ ptr' = 0
  /\ aborted' = FALSE
  /\ UNCHANGED <<dat, eof, synced, damaged, dbvars, row, alarm, s, saves>>

\* SVS::SVS with diskchck: the datacheck constructor moves behind the magic
OpenChecked(ro) ==
  /\ proc = "down"
  /\ proc' = "checking" /\ readonly' = ro /\ ptr' = 1
  /\ row' = 1 /\ alarm' = FALSE
  /\ aborted' = FALSE
  /\ UNCHANGED <<dat, eof, synced, damaged, dbvars, s, saves>>

\* The complaints of datacheck::run about one row of objects
UnusedSpace(r)  == r.offset # ptr
ShortRead(r)    == r.offset + r.size > eof
WrongHeader(r)  == r.offset >= eof \/ dat[r.offset] # [k |-> "hdr", type |-> r.type, size |-> r.size]
HashMismatch(r) == ShortRead(r) \/ Read(dat, r.offset, r.size) # r.hash

\* Mutant: the hash of the object is not compared
ComplaintAboutLayout(r) == UnusedSpace(r) \/ WrongHeader(r)

Complaint(r) == UnusedSpace(r) \/ WrongHeader(r) \/ HashMismatch(r)

\* Mutant: a reader's check does not get past an object it complains about
CheckObjectAgain ==
  /\ proc = "checking" /\ row <= Len(objects)
  /\ alarm' = (alarm \/ Complaint(objects[row]))
  /\ row' = IF Complaint(objects[row]) THEN row ELSE row + 1
  /\ ptr' = IF Complaint(objects[row]) THEN ptr ELSE objects[row].offset + objects[row].size
  /\ UNCHANGED <<proc, dat, eof, synced, damaged, dbvars, readonly, s, saves, aborted>>

\* datacheck::run; a complaint makes a writer throw (run_throw) while a
\* reader prints it and goes on (run_stdout)
CheckObject ==
  /\ proc = "checking" /\ row <= Len(objects)
  /\ LET r == objects[row] IN
       /\ alarm' = (alarm \/ Complaint(r))
       /\ IF Complaint(r) /\ ~readonly
          THEN /\ proc' = "down"
               /\ UNCHANGED <<row, ptr>>
          ELSE /\ row' = row + 1
               /\ ptr' = IF ShortRead(r) THEN Max2(r.offset, eof) ELSE r.offset + r.size
               /\ UNCHANGED proc
  /\ UNCHANGED <<dat, eof, synced, damaged, dbvars, readonly, s, saves, aborted>>

\* Mutant: what lies behind the recorded size is left there
CheckEndKeepsTail ==
  /\ proc = "checking" /\ row > Len(objects)
  /\ proc' = "open" /\ ptr' = eof
  /\ UNCHANGED <<dat, eof, synced, damaged, dbvars, readonly, row, alarm, s, saves, aborted>>

\* All rows are through: a writer truncates MAIN.DAT to the recorded size
CheckEnd ==
  /\ proc = "checking" /\ row > Len(objects)
  /\ proc' = "open"
  /\ IF ~readonly /\ recorded < eof
     THEN /\ dat' = Cut(dat, recorded)
          /\ eof' = recorded /\ ptr' = recorded
          /\ synced' = Min2(synced, recorded)
     ELSE ptr' = eof /\ UNCHANGED <<dat, eof, synced>>
  /\ UNCHANGED <<damaged, dbvars, readonly, row, alarm, s, saves, aborted>>

\* ~SVS
Close ==
  /\ proc = "open" /\ s.pc = "none"
  /\ proc' = "down"
  /\ UNCHANGED <<datvars, damaged, dbvars, readonly, row, alarm, s, saves, aborted>>

-----------------------------------------------------------------------------
(* A repository as the SVS constructor has just created and closed it.     *)

Init ==
  /\ dat = [p \in 0 .. Capacity - 1 |-> IF p = 0 THEN Magic ELSE Blank]
  /\ eof = 1 /\ ptr = 0 /\ damaged = FALSE
  /\ synced = (IF CreationFlushed THEN 1 ELSE 0)
  /\ config \in Configs
  /\ objects = << >> /\ files = << >> /\ recorded = 1
  /\ proc = "down" /\ readonly = FALSE /\ row = 1 /\ alarm = FALSE
  /\ s = NoSave /\ saves = 0 /\ aborted = FALSE

SaveNext ==
  \/ \E n \in FileSizes, prev \in Offsets, psign, prob \in BOOLEAN :
       Construct(n, prev, psign, prob)
  \/ \E prev \in Offsets : ConstructError(prev)
  \/ \E k \in Chunks, e \in 0 .. MaxEmit :
       Process(k, e) \/ ProcessWriteError(k, e) \/ ProcessZlibError(k, e)
  \/ restart \/ restartError
  \/ CommitRefused \/ CommitWrites \/ CommitWriteError
  \/ CommitFlush \/ CommitDb \/ CommitDbError
  \/ Destroy

RepositoryNext ==
  \/ \E ro \in BOOLEAN : OpenUnchecked(ro) \/ OpenChecked(ro)
  \/ CheckObject \/ CheckEnd \/ Close
  \/ Crash \/ Damage

Next == SaveNext \/ RepositoryNext

Spec == Init /\ [][Next]_vars

-----------------------------------------------------------------------------
(* Types.                                                                  *)

FileFlags ==
  {"CONTENT_ZLIB", "CONTENT_DELTA", "CONTAINS_SIGNATURE", "CONTENT_DELTA_ENCODED"}

Bytes == Nat \X Nat

Cells ==
  {Magic, Blank, Junk}
    \cup [k : {"hdr"}, type : SUBSET FileFlags, size : Int]
    \cup [k : {"prev"}, offset : Nat]
    \cup [k : {"sig"}, count : Nat]
    \cup [k : {"block"}, bytes : Seq(Bytes)]
    \cup [k : {"data"}, b : Bytes, z : BOOLEAN]
    \cup [k : {"delta", "zend"}, v : Nat]

ObjectRows ==
  [offset : 0 .. Capacity, size : Nat, type : SUBSET FileFlags, hash : Seq(Cells)]

FileRows ==
  [object : Nat, file_size : Nat, file_hash : Seq(Bytes), deltas_count : Nat,
   deltas_size : Nat, source_size : Nat, parent : Nat]

SaveStates ==
  [pc : {"none", "stream", "failed", "written", "flushed", "done", "broken"},
   v : Nat, filesize : FileSizes \cup {0}, prev : Nat, files_pid : Nat,
   postition : Nat, data_begin : Nat, raw_file : BOOLEAN,
   no_signature : BOOLEAN, use_zlib : BOOLEAN, write_signature : BOOLEAN,
   bytespassed : Nat, hashed : Seq(Bytes), unwind : BOOLEAN,
   zs : {"off", "live", "ended", "freed"}, objsize : Int,
   reread : BOOLEAN,
   files_delta_cnt : Nat, files_delta_size : Nat, files_source_size : Nat]

\* The types of the state.
TypeOK ==
  /\ dat \in [0 .. Capacity - 1 -> Cells]
  /\ eof \in 0 .. Capacity /\ ptr \in 0 .. Capacity /\ synced \in 0 .. Capacity
  /\ damaged \in BOOLEAN
  /\ config \in Configs
  /\ objects \in Seq(ObjectRows) /\ files \in Seq(FileRows) /\ recorded \in Nat
  /\ proc \in {"down", "checking", "open"} /\ readonly \in BOOLEAN
  /\ row \in Nat \ {0} /\ alarm \in BOOLEAN
  /\ s \in SaveStates /\ (s.pc # "none" => s.filesize \in FileSizes)
  /\ saves \in Nat /\ aborted \in BOOLEAN

-----------------------------------------------------------------------------
(* Properties.                                                             *)

End(r) == r.offset + r.size

Intact(r) ==
  /\ End(r) <= eof
  /\ Read(dat, r.offset, r.size) = r.hash

AllIntact == \A i \in DOMAIN objects : Intact(objects[i])

\* Whatever is interrupted, abandoned, restarted or lost in a crash, every
\* object that commit() has recorded in MAIN.DB is in MAIN.DAT exactly as it
\* was when its hash was taken: streaming, restart()'s truncation, header
\* rewriting and the truncation of a checked opening touch no other object.
CommittedIntact == ~damaged => AllIntact

\* Objects lie one behind the other from the magic to the recorded file
\* size.  This is what datacheck's "missing object / unused space" relies on.
Tiled ==
  /\ \A i \in DOMAIN objects :
       objects[i].offset = IF i = 1 THEN 1 ELSE End(objects[i - 1])
  /\ recorded = IF objects = << >> THEN 1 ELSE End(objects[Len(objects)])

\* A writer that has not seen a save fail finds MAIN.DAT exactly as long as
\* MAIN.DB says, so that the next object goes where the last one ends: checked
\* or not, after any crash, an opening that lets a writer in leaves no tail.
WriterAtEnd ==
  proc = "open" /\ ~readonly /\ ~aborted /\ s.pc = "none" => eof = recorded

\* The integrity check complains only about a MAIN.DAT that something else
\* than SVS has changed: no crash or failed save makes a repository fail
\* datacheck, which for a writer means that it can never be opened again.
NoFalseAlarm == alarm => damaged

\* A checked opening that ends without a complaint found every committed
\* object intact, and its own truncation of MAIN.DAT has kept them so.
CheckSound ==
  [][proc = "checking" /\ proc' = "open" /\ ~alarm' => AllIntact']_vars

\* file_size and file_hash are those of one whole version of the file: the
\* hash has seen every byte once and in order, however the file was cut into
\* buffers, and also when restart() made the caller stream it twice.
WholeFileHashed ==
  \A i \in DOMAIN files : \E v \in 1 .. saves :
    files[i].file_hash = [j \in 1 .. files[i].file_size |-> <<v, j>>]

IsDelta(i)     == "CONTENT_DELTA" \in objects[i].type
Zipped(i)      == "CONTENT_ZLIB" \in objects[i].type
HasSign(i)     == "CONTAINS_SIGNATURE" \in objects[i].type
PayloadFrom(i) == 3 + (IF HasSign(i) THEN SignatureCells(files[i].file_size) ELSE 0)
Payload(i)     == SubSeq(objects[i].hash, PayloadFrom(i), Len(objects[i].hash))

\* The content of a file stored whole
WholeContent(i) ==
  [j \in DOMAIN files[i].file_hash |->
     [k |-> "data", b |-> files[i].file_hash[j], z |-> Zipped(i)]]

\* The payload but for the end of its deflate stream
ContentSize(i) == Len(Payload(i)) - (IF Zipped(i) THEN 1 ELSE 0)

\* What follows header and signature is the whole file, or nothing but delta
\* commands - never the remains of a delta that restart() gave up - and the
\* deflate stream of a compressed object is finished exactly once, at its end.
ContentStored ==
  \A i \in DOMAIN objects :
    /\ Zipped(i) => Payload(i) # << >> /\ Payload(i)[Len(Payload(i))].k = "zend"
    /\ IF IsDelta(i) THEN \A j \in 1 .. ContentSize(i) : Payload(i)[j].k = "delta"
                     ELSE SubSeq(Payload(i), 1, ContentSize(i)) = WholeContent(i)

\* An object that carries a signature carries one entry for each full block
\* of the file it stands for, in the space the constructor set aside for it
\* before the first byte arrived; the next version's delta depends on them.
SignatureStored ==
  \A i \in DOMAIN objects : HasSign(i) =>
    LET b == EmbeddedBlockSize(files[i].file_size)
        n == files[i].file_size \div b
    IN SubSeq(objects[i].hash, 3, PayloadFrom(i) - 1) =
         <<[k |-> "sig", count |-> n]>> \o
         [m \in 1 .. n |-> [k |-> "block",
            bytes |-> SubSeq(files[i].file_hash, (m - 1) * b + 1, m * b)]]

\* What a chain of deltas really is: recursion along files.parent
ChainLength[i \in DOMAIN files] ==
  IF IsDelta(i) THEN 1 + ChainLength[files[i].parent] ELSE 0

ChainCells[i \in DOMAIN files] ==
  IF IsDelta(i) THEN ContentSize(i) + ChainCells[files[i].parent] ELSE 0

ChainSource[i \in DOMAIN files] ==
  IF IsDelta(i) THEN ChainSource[files[i].parent] ELSE files[i].file_size

\* A delta refers to an earlier version, so the chain back to a file stored
\* whole is finite, and the three running totals copied from row to row
\* (they decide between delta and whole file) are those of that chain.
ChainAccounting ==
  \A i \in DOMAIN files :
    /\ files[i].parent < i
    /\ IsDelta(i) => files[i].parent # 0
    /\ files[i].deltas_count = ChainLength[i]
    /\ files[i].deltas_size  = ChainCells[i]
    /\ files[i].source_size  = ChainSource[i]
=============================================================================
