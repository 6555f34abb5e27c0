# SVS in TLA+

SVS is a version control system in the making.  What exists of it is `svslib`, a
library that stores versions of files in a *repository*: an append-only data file
`MAIN.DAT` and an SQLite database `MAIN.DB` that says what is in it.  This directory
holds TLA+ models of the library's own logic, the TLC configurations that check them
and TLAPS proofs of the most important facts.  Line numbers refer to `src/`.

Contents: [1 The system](#1-the-system) · [2 The modules](#2-the-modules) ·
[3 What is checked](#3-what-is-checked) · [4 What is proved](#4-what-is-proved) ·
[5 Where the code disagrees](#5-where-the-code-disagrees-with-its-documents) ·
[6 What is not modelled](#6-what-is-not-modelled) · [7 Plan](#7-plan)

    tlc -workers 2 -config SaveProtocol.cfg FileSaveRefinement   # any run: cfg and module, see section 3
    tlapm FileSaveProofs.tla                                      # any proof module

## 1 The system

| Component | Where | State | Operations |
|---|---|---|---|
| `SVS` (repository) | `svslib.cpp`, `svslib.h` | handle of MAIN.DAT with its file pointer, SQLite connection, `readonly`; the files themselves | constructor (creates, or opens with or without a check), destructor, `acquire_db`, `acquire_data` |
| `filesave` (writer) | `filesubsystem.cpp` 10–527 | position of the object, bytes passed, running hash, signature store, delta state, deflate stream, chain totals | constructor, `process`, `need_restart`, `restart`, `commit`, `get_signature`, destructor |
| signature algorithm | `filesave::process` 333–357, `ring_buffer` | window over the current block, its hash, the store | one byte at a time |
| delta algorithm | `filesave::process` 358–403, `_find_delta_hash`, `_push_delta_buffer`, `_send_delta_command` | window, past hashes, literal buffer, last command | one byte at a time, end of file |
| storing policy | `filesave::filesave` 35–150 | – | whole file or delta, with or without signature and compression |
| `datacheck` | `filesubsystem.cpp` 528–607 | query over `objects`, file pointer | `run`, once per row |
| `database`, `db_transaction` | `maindb.h` | connection, mutex `lck`, flag `ok` | BEGIN, COMMIT, ROLLBACK |
| `db_query` | `maindb.h` | prepared statement, cache of column names | `setup`, `reset`, `bind`, `step`, `run`, `get`, `run_one`, `run_one_inline` |
| object header, `read_integer` | `filesubsystem.cpp` 447 and 551–574, `stream_helper.h` | – | packing and reading numbers |
| everything else | | | see section 6 |

**How they interact.**  A caller (the tests, `svstests/fss.cpp`; there is no real client
yet) opens an `SVS` and constructs a `filesave` with the size of the file, the offset
of its predecessor and perhaps a signature of that predecessor.  The constructor begins a
database transaction, takes `database::lck`, decides how the file is stored, and
leaves room at the end of `MAIN.DAT` for a header word, the predecessor's offset and the
signature.  The file is then streamed through `process()`, which appends data, or delta
commands, behind that room.  If the delta turns out too long (`need_restart`), `restart()`
cuts it off and the caller streams the file a second time.  `commit()` fills in header
and signature, flushes `MAIN.DAT`, reads the object back to hash it, and records it with
three statements and a COMMIT.  Two stores must thus agree without a common transaction:
bytes go first, rows last, and `config.filesize` says up to where bytes are covered by rows.
A repository is created by the first constructor that finds neither file: tables in one
transaction, then `MAIN.DAT` with its magic number, then the rows of `config` one by one.  Nothing
ties these steps together, and other processes may run the same constructor at the same time.
When a repository is opened again the sizes are compared, or (`diskchck`) every object is
reread, and what lies behind the recorded size is cut off.

**What is hard.**

* *Crashes* between any two steps; unflushed cells may be lost one by one.
* *Partial failure*: a write may fall short anywhere, a statement may fail, an exception
  may leave a half-written object while the repository stays open.
* *Protocol*: `process`, `restart` and `commit` may come in many legal orders; `restart`
  must undo some of the state and keep the rest (hash and signature come from the first pass).
* *Shared transaction*: `dbt` is declared before `lck` (`filesubsystem.h` 140–143), so BEGIN runs
  before the lock is taken and ROLLBACK after it is released, on one connection for all threads.
* *Check, then act*: the constructor looks for each file once, and opening `MAIN.DB` creates it; SQLite's file
  locks and Windows' sharing modes are all that keeps several processes apart.
* *State fixed too early*: room for the signature and the chain totals are determined
  before the first byte is seen.
* *Boundaries*: windows of the ring buffer, the rolling hash, difference-coded commands, the
  last incomplete window of a file.

`PROJECT.json` lists these hazards line by line with the property that would notice.

**What makes each part correct.**

* Writer: what is committed is never touched again; objects lie one behind the other; rows describe
  the bytes; the hash covers exactly one whole version; a compressed stream ends exactly once.
* Opening and `datacheck`: an opening that lets a writer in leaves `MAIN.DAT` as
  long as recorded; a check that is silent has found everything intact; the repository's own
  interruptions never make it complain.
* Signature: one entry per full block, exactly filling the room computed from the file size.
* Delta: reading it restores the target; no block of the predecessor is overlooked; commands stay readable.
* Creation: one creator at most, rows in their order and behind what they describe, and nobody who comes
  late spoils what is complete.
* `db_query`: the answer belongs to the name that was asked for, and column names to the statement.
* Transactions: all three rows of a save or none, never inside somebody else's transaction;
  the caller is told the truth; nobody waits forever.

## 2 The modules

| Module | Models | Size of the idea |
|---|---|---|
| `FileSave` | `filesave` with `MAIN.DAT`, `MAIN.DB`'s rows, `datacheck`, the opening of an existing repository, crashes and damage | one action per operation and error path |
| `MCFileSave` | – | instances of `FileSave` for TLC: block size, configurations |
| `VersionStore` | what somebody who saves files is promised | abstract: a log that only grows |
| `FileSaveRefinement` | – | `FileSave` implements `VersionStore`; its fairness and liveness |
| `Repository`, `MCRepository` | the `SVS` constructor and destructor for several processes; LOCAL.DB | one action per call of Windows or SQLite |
| `DbQuery` | `db_query` | one action per method and error |
| `BlockSize` | block sizes and threshold of signatures, in the code's own numbers | operators over a file size |
| `ObjectHeader` | the packed header and `read_integer` | operators over a small word |
| `Signature` | the signature loop of `process` | one action: a byte |
| `DeltaStream` | the delta loop of `process`, and a reader of deltas | two actions: a byte, the end of the file |
| `VersionPair` | a version that is signed and the next one that becomes a delta against it | composition of the four modules above |
| `RingBuffer`, `BlockHash` | `ring_buffer<T>`; the polynomial hash | operators |
| `SaveTransaction` | `db_transaction` and `database::lck` for several threads | one action per statement |
| `SerialSaves`, `MCSaveTransaction` | what the lock and the transaction are for; the refinement | abstract: one save after the other |
| `MCDatabase` | the two halves of `maindb.h`, for TLC | composition of `MCSaveTransaction` and `DbQuery` |
| `FileSaveProofs`, `CommittedProofs`, `LayoutProofs`, `ContentProofs` | – | proofs about `FileSave`, each upon the ones before: types and places, what is never touched again, the layout and the check, what the rows say |
| `RefinementProofs` | – | the step simulation of `FileSaveRefinement` |
| `DeltaProofs` | – | proofs about `VersionPair` and the byte algorithms below it |
| `RepositoryProofs` | – | proofs about `Repository` |
| `DatabaseProofs` | – | proofs about `SaveTransaction`, its refinement, `DbQuery` and their composition |

`FileSave` composes the writer, both files and the check because they only make sense
together: every one of its properties relates `MAIN.DAT` to `MAIN.DB`.  It abstracts from the
two byte algorithms, which are checked on their own: `Signature` shows that the store
holds one entry per full block of what was hashed, and that is what `FileSave!Signature`
writes; `DeltaStream` says which commands a buffer leads to, and `FileSave!Process(k, e)` appends any number `e`
of cells.  It also treats the rows of a save as one step (`CommitDb`), and one save at a
time as given: `SaveTransaction` shows that the database transaction and the lock make this so.
Its initial state is a repository as `Repository` leaves it when it is complete, and `OpenUnchecked`, `OpenChecked` are
the openings that `Repository` cuts into single steps.  Block sizes are parameters of `FileSave`;
`BlockSize` says what they are.

### FileSave

`MAIN.DAT` (`dat`, `eof`, `ptr`, `synced`) is an array of *cells*.  A cell is what must be written or
lost as a unit for the properties: the magic number, one 8-byte word of a header (the second one
holds the predecessor's offset), the size word and each entry of a signature, one byte of payload or one
item of a delta, the end marker of a deflate stream.  Contents record where they come from: the
j-th byte of version v is `<<v, j>>`.  Consequently a hash *is* the content
it was taken of: BLAKE3 is assumed to have no collisions.  `synced` is the part that is on the disk for good;
above it a crash keeps, loses or cuts cells freely.

| Code | Action |
|---|---|
| `filesave::filesave` | `Construct(n, prev, psign, prob)`; `ConstructError` when a write fails.  The random choice against a delta is the Boolean `prob`; a caller may or may not hand in a signature (`psign`) |
| `process` | `Process(k, e)`, `ProcessWriteError` (a proper prefix of the cells is written, the hash has already seen the buffer), `ProcessZlibError` |
| `need_restart`, `restart` | same names; `restartError` |
| `commit` | `CommitRefused` (too few bytes, or `SetEndOfFile` fails), `CommitWrites` or `CommitWriteError`, `CommitFlush`, `CommitDb` or `CommitDbError`.  It is cut at the points at which a crash leaves different files |
| `~filesave` | `Destroy` |
| `SVS::SVS` on an existing repository | `OpenUnchecked`, `OpenChecked`, `CheckObject` (one `datacheck::run`), `CheckEnd` (size comparison and truncation) |
| `~SVS` | `Close` |
| – | `Crash`, `Damage` |

`s` is the `filesave` object; its fields have the members' names (`postition` included).  `s.pc` says where
the caller stands.  A repository begins as the constructor has just created it.
`Going` says where `process` and `commit` may be called: while the file streams, after a `commit` that returned and, with `CommitAfterError`, after any exception.
A `commit` that is tried again begins at the file pointer that the failed one has left, and, once the object was
reread, with a `file_hash` that has become the object's (`filesubsystem.cpp` 474): `reread` and `FileHash` say so, and `OfNoFile` stands for what is then recorded.

What callers do is a parameter, because the code relies on it:

| Switch | Meaning when FALSE | Why |
|---|---|---|
| `RestartAnytime` | callers follow `need_restart()` after the whole file was streamed | as in `svstests/fss.cpp`; the code accepts it at any time (run RestartEarly) |
| `SaveAfterFailure` | a caller closes the repository once a save has failed | run GapAfterFailure shows what happens otherwise |
| `CommitAfterError` | a caller gives up a save when `process()`, `restart()` or `commit()` throws | run OverrunCommit |
| `CreationFlushed` | the magic number may be lost in a crash | the code never flushes it (`svslib.cpp` 80–95); only a power loss right after the creation can tell |
| `FlushMayFail` | `FlushFileBuffers` does what it says | its result is ignored (`filesubsystem.cpp` 461) |
| `DamageMayHappen` | nothing else writes to `MAIN.DAT` | |

The last three are hazards and not habits of callers; run Datacheck has them all.

Left out: `restart()` after a `commit()` that has returned, a caller's mistake that no test and no document suggests; the
reading of single query columns; a second `filesave` while one exists (the lock excludes it); a write of the header word that returns
success and is short (`filesubsystem.cpp` 449 does not look at `writen`).  The reading of one object in `datacheck::run`
(`filesubsystem.cpp` 580–595) is part of one step, `CheckObject`: each pass of that loop reads all of what it has asked for, at least one byte of those that remain, or leaves the
loop.  `ChecksEnd` is thus about the rows of a check and not about this loop.
`BlockSize` and `EmbeddedBlockSize` stand for the square-root formulas of the block size (`filesubsystem.cpp` 45–50 and 152–160): any
positive values.

**VersionStore.**  Its log is read off the rows of `files` and, for the content, off `MAIN.DAT` as it is *now*: version i is what lies behind the header
and signature of object i.  Of a delta, whose cells only say what it was made of, the
file named by all of its cells is taken (`DeltaStream` says what a delta restores).  The version being saved is
the `filesave` object until its row is there.  `Construct` is Begin, `CommitDb` is Store, `Destroy` and `Crash` of a save without a row are Abort,
everything else stutters.

### Repository

| Code (`svslib.cpp`) | Action |
|---|---|
| `CheckFileExistence(dbfile)` 43 | `CheckDb`; what it finds is kept in `dbexist` |
| `database` 44, `sqlite3_open16` | `OpenDb`: creates a `MAIN.DB` of 0 bytes |
| `CheckFileExistence(datafile)` and the comparison 45–49 | `CheckDat` |
| tables 52–78 | `ReadSchema` (SHARED lock), `CreateTables` (RESERVED lock), `CommitTables` |
| `CreateFileW` with CREATE_NEW 82, `WriteFile` 87 | `CreateDat`, `WriteMagic` |
| thirteen INSERTs 79–148 | `InsertRow(p, i)`, each committed at once |
| `CreateFileW` with OPEN_EXISTING 151 | `OpenDat`, if the sharing modes of the other handles allow |
| `SELECT` and size comparison 155–213 | `Select`, `CompareSizes` |
| ATTACH 216–226 | `AttachReads` (SHARED lock, if no query has read the schema of `MAIN.DB` before), `Attach`: the first time it creates LOCAL.DB and throws |
| an exception anywhere | `Throw`, `Fail`: the transaction and the connection end, the handle in `hdata` stays open (`leaked`) |
| `~SVS` | `Destroy` |
| – | `Exit` (also in the middle of a constructor), `PowerFailure` |

A statement is busy if another process holds a lock on `MAIN.DB` that excludes it, and fails, as the code installs no
busy handler.  `MAIN.DAT` is absent, empty, holds its magic number, or has lost it in a power failure, which may also take
the whole file, as nobody has flushed it: objects are `FileSave`'s matter, and so is what `datacheck` does between
`Select` and `CompareSizes`; `config.filesize` is therefore 4 or, in a repository without `MAIN.DAT`, 0.

### DbQuery

The statement is none, ready, at a row, ended or failed, as in SQLite, which refuses to bind one that is not ready and
starts one that has ended again when it is stepped.  Values carry the parameter whose rows they are of, so that a stale answer can
be told from the right one.  The overloads of `bind` and `get` for the types of C++ do the same thing and are one
operation each; the cache is a set of names, in which `#` is what `run_one` calls column 0.
`get` asks for no row: where there is none, SQLite's value is empty, which the numbers' overloads return and the blobs' refuse ("blob size mismatch").  What
the overloads for strings make of an empty value is undefined in C++ and left out; nobody calls them like that.

### BlockSize, ObjectHeader

Both are operators over one variable, the size of a file or of an object, and `VersionPair` walks it through all its values.
`BlockSize` counts in bytes, with `lround(sqrt(x))` as the integer that it is: no double is near enough
to a midpoint for sizes of this order.  `ObjectHeader` has bytes of `Byte` values and a size of `SizeBytes` bytes; the shifts of `commit`,
`datacheck::run` and `read_integer` multiply with powers of `Byte` (`Shift`), and the words they fill wrap at `Word`.

### Signature, DeltaStream, RingBuffer, BlockHash

These are byte for byte.  `RingBuffer` keeps the three members of the class; a cell of `new T[sz]`
that was never written holds `Uninit`, which is not a number, so that TLC would stop at a computation with it.
The 32-bit hashes wrap at `HashMod`, command words at `CmdMod`.  `DeltaStream!Step` has
one disjunct for each of the three branches on `dcurbytes`, and `Find` is `_find_delta_hash` with the hash table
read as "the blocks that have this hash".  `ProcessEnd` is the end-of-file branch, which runs again
for every further empty buffer.  `Decode` is the reading of a delta that `docs/ru.rtf` prescribes; `fileload`, which would do
it, is an empty struct.  The ends of both modules stutter or are repeatable, so neither deadlocks.

`VersionPair` puts the two loops one behind the other, as two saves do: `Signature` runs over a first version; once its store is full,
`BeginDelta` takes that version and its block size over as the predecessor of a target.  That the store is full at the end of the file is
what `SignaturePrefix` states; a signature that came short would never become a delta.

### SaveTransaction

One control state per filesave; the database is one transaction (`txn`: who began it,
`pending`: its rows) and what is on the disk (`db`).  A statement outside a transaction takes effect at
once, BEGIN inside one and COMMIT or ROLLBACK outside one are errors, as in SQLite.  `AutoRollback` lets a
failing statement roll back the transaction by itself, which SQLite documents for a full
disk, I/O errors and lack of memory.  `terminated` is what `noexcept` makes of an exception in `~db_transaction`.
`MCSaveTransaction` maps it to `SerialSaves`: the active save is the owner of the transaction, whoever holds
the lock, and the saves that are there are those whose three rows are on the disk.

## 3 What is checked

| Run (cfg) | Module, specification | Properties | Distinct states |
|---|---|---|---|
| SaveProtocol | `FileSaveRefinement`, `Spec` | `TypeOK`, `CommittedIntact`, `Tiled`, `WriterAtEnd`, `NoFalseAlarm`, `WholeFileHashed`, `ContentStored`, `SignatureStored`; refinement `StoresVersions` | 619 k |
| DeltaChain | `FileSaveRefinement`, `FairSpec` | `ChainAccounting`; liveness `SavesEnd` | 520 k |
| Datacheck | `FileSaveRefinement`, `FairSpec` | action property `CheckSound`; liveness `ChecksEnd` | 206 k |
| Delta | `VersionPair`, `PairSpec` | `DeltaPrefix`, `NothingMissed`, `CommandsReadable`, `RestoresUpToTail`, `SignaturePrefix`, `SignaturePays`, `NearlyOptimal`, `HeaderReadsBack`, `ReadsSmallBytes` | 952 k |
| Database | `MCDatabase`, `DatabaseSpec` | `TypeOK`, `AllOrNothing`, `OwnTransaction`, `OutcomeTold`, `NeverTerminates`, `NamesOfStatement`; action properties `OwnAnswer`, `ColumnsFound`; refinement `SavesSerial`; liveness `SavesEnd` | 110 k |
| Creation | `MCRepository`, `Spec` | `TypeOK`, `OneCreator`, `RowsInOrder`, `WriterFitsSize`; action property `CompleteStays` | 368 k |
| GapAfterFailure, RestartEarly, OverrunCommit | `MCFileSave`, `Spec` | one violation each, section 5 | |
| DeltaTail | `DeltaStream`, `Spec` | one violation | |
| AutoRollback | `SaveTransaction`, `Spec` | one violation | |
| HalfCreated | `MCRepository`, `Spec` | one violation | |

*SaveProtocol* asks whether the bytes-first, rows-last protocol keeps two stores in agreement through every error and crash, and what it
looks like from outside.  *DeltaChain* has long enough chains of deltas for the totals that are copied along them, and restarts for the question
whether saves end.  *Datacheck* turns the world against the check: damage, failed flushes, a lost magic number.  *Delta* is the
byte algorithms.  *Database* is the one connection with several threads, and the statements that are used again and again.
*Creation* is several processes on paths where nothing is yet.

What the properties say, in short (each is stated in full where it is defined):

* `CommittedIntact`: no streaming, `restart`, second `commit()`, abandoned save, truncation or crash changes a committed object.
* `Tiled`, `WriterAtEnd`: together they are why the next object goes where `datacheck` expects it.
* `NoFalseAlarm`: nothing the repository does to itself makes `datacheck` complain.  For a
  writer a complaint is final, since the constructor throws.
* `CheckSound` is the converse: a check that ends silently has found, *and left*, all objects intact.  It is an action property because
  the truncation comes after the last row was checked.  It is about objects: that the file pointer of an empty repository without its magic number ends up at
  offset 0 (section 5) is no object's loss, and `WriterAtEnd` says it only with `CreationFlushed`.
* `WholeFileHashed`, `ContentStored`, `SignatureStored`: the rows' hash, the payload and the embedded signature are those
  of one whole version, also after a restart.
* `ChainAccounting`: the three totals that are copied from row to row equal a recursion over the chain.
* `DeltaPrefix`: restored output, literals not yet sent and the window are together what was read.
* `NothingMissed`: a full window that survives a step equals no block; this is the correctness of the rolling hash with its wrap-around and resets.
* `OwnTransaction`, `AllOrNothing`, `OutcomeTold`: a save's statements meet its own transaction; all three rows or none; a `commit()` that returned is on the disk.
* `SavesEnd`, `ChecksEnd`: a save that was begun is over some day, in `FileSave` restarts included and in `SaveTransaction` whoever holds the lock; a check that was begun ends.
* `StoresVersions`: whatever happens in `MAIN.DAT`, a reader finds a log of whole versions, each the file its save was begun
  with and behind the version it names; nothing that is in the log changes any more.
* `SavesSerial`: no COMMIT completes another save than the one whose BEGIN opened the transaction.
* `OneCreator`, `RowsInOrder`, `CompleteStays`: a constructor decides on what it saw before it opened `MAIN.DB`.  Two
  may both decide to create; the tables and CREATE_NEW let one of them through, and the other does no harm.
* `WriterFitsSize`: an unchecked opening does not let a writer append to a `MAIN.DAT` whose size is not the recorded one, and nobody else changes the size
  while the writer has it.  What a checked opening admits is in `WriterAtEnd`.
* `OwnAnswer`, `ColumnsFound`, `NamesOfStatement`: the sequences of `run_one_inline` and `setup` in the constructors rely on a
  statement that is ready and a cache that is empty again after each of them.  `OwnAnswer` speaks of statements on which nothing has thrown since they were set up or
  reset: after an exception a bind may be refused, and `run_one_inline`, which does not look, then answers for the old name.
* `NeverTerminates`: in the run, in which SQLite does not roll back by itself, the destructor's ROLLBACK always meets a transaction.  With SQLite's rollback it may not: run AutoRollback.
* `SignaturePays`: the decision for a signature is made with another block size than the one that determines its room.
* `NearlyOptimal`: no other block size would add less by more than 5 % to `MAIN.DAT`, by the cost function of `docs/ru.rtf`.
* `HeaderReadsBack`, `ReadsSmallBytes`: which headers `datacheck` finds as `commit()` packed them, and which numbers `read_integer` gets right in any case: those of
  which only the last byte is negative as a char.  That it misreads the others is a bug (section 5) and not required.

**Bounds.**  *SaveProtocol*: two saves, since the second one meets whatever the first has left, with or without a crash
in between; files of 0, 1 and 3 bytes, with signature blocks of 2: no block, too
small for a delta, one block and a tail; buffers of 0, 1 and 2 bytes, so that files
arrive in several pieces with empty ones in between and can be exceeded; at most two cells of delta per buffer,
enough to make `need_restart` true and false.  17 cells hold both objects with their headers and signatures or run out in the middle of the
second one.  Three configurations: the default, raw content, and archive mode without
compression.  *DeltaChain*: a chain of three versions needs a third save and 21 cells; a single file size and buffer keep it small.  Callers may `restart()` there at any time, also before the first byte.
*Datacheck*: damage is independent of how an object came about, hence raw content of one byte; one damaged or missing
place is the case in which a check could be fooled most easily.  *Delta*: signed files of up to 7 bytes in blocks of 1 to 4; predecessors of up to 4
and new ones of up to 6 bytes over two values, blocks of 1 to 3: a match can be followed by none, by
part of a window, by a full one and by another match; a literal buffer of 2 fills up;
`HashMod` = 8 wraps and gives collisions that BLAKE3 has to settle.  *Database*: four saves, so that there is one that holds the lock, one that owns the
transaction, one that waits, and one that comes when all that is over; two statements that share a column, and names with no, one and two rows.
The saves and the query share nothing, so the composition lets one of them move only before the other has begun; that loses no behaviour of either.
*Creation*: two processes, because all that a third could do to a creation is done by the second one, with four kinds of
calls, in any order and as often as they like; the proofs cover any number.  `BlockSize` up to 3000 bytes: five times the threshold of 581; the ratio of block
size to optimum is worst for the smallest files, and the proof covers all others.  `ObjectHeader` with `Byte` = 8 and `SizeBytes` = 3: bytes of eight values have a sign, and three of them carry.

Each bound is a CONSTANT of the cfg; counters have no other cap.  `MaxSaves` limits the number of saves constructed, `MaxFile`,
`MaxSource`, `MaxTarget` and `MaxSize` the files.

**Deadlock** is checked in all runs.  `FileSave` can always crash or open, and a process of `Repository` can always construct again or exit; `DbQuery` accepts every
operation at any time; `Signature` and `DeltaStream` accept empty buffers for ever; `SaveTransaction` says when it is finished.

**Fairness.**  `SaveTransaction!SavesEnd`, in `DatabaseSpec`, assumes weak fairness of each thread's next step, that is, a thread that can run
runs, and a free mutex is given to somebody who waits for it.  `std::shared_mutex` and the
operating system's scheduler promise no more.  It also relies on callers that go on with or give up a save they have started.
`FileSaveRefinement!FairSpec` assumes the same of the one caller (`SaveStep`: the next `process`, `restart`, `commit`, or the destructor), and that the loop around `datacheck::run`
runs, which nothing but the end of the process interrupts.  It does not
assume that any of these succeeds, nor which one the caller chooses; that a save ends then depends on the code alone: the file
is streamed at most twice because `restart()` turns a delta into a whole file.

**Mutants.**  Every property has a variant of a definition that breaks it, marked "Mutant" in
the modules: a dropped check, flush, seek or reset, a wrong factor, a wrong size.  They are not part of the models.

## 4 What is proved

| Module | Theorems | Assumptions beside the constants' |
|---|---|---|
| `FileSaveProofs` | `TypeCorrect`: `Spec => []TypeOK` | none |
| `CommittedProofs` | `CommittedStaysIntact`: `[]CommittedIntact` | `~CommitAfterError`, `~FlushMayFail` |
| `LayoutProofs` | `ChecksAreSound`: `CheckSound` | none |
| | `ObjectsTile`, `WritersAtEnd`: `[]Tiled`, `[]WriterAtEnd` | `~CommitAfterError`, `~SaveAfterFailure`, `CreationFlushed` |
| | `AlarmsAreTrue`: `[]NoFalseAlarm` | the same and `~FlushMayFail` |
| `ContentProofs` | `ChainsAreAccounted`: `[]ChainAccounting` | `~CommitAfterError` |
| | `WholeFilesHashed`, `ContentsAreStored`, `SignaturesAreStored`: `[]WholeFileHashed`, `[]ContentStored`, `[]SignatureStored` | `~CommitAfterError`, `~RestartAnytime` |
| `RefinementProofs` | `VersionsAreStored`: `Spec => StoresVersions` | `~CommitAfterError`, `~FlushMayFail`, `~DamageMayHappen` |
| `DeltaProofs` | `DeltasKeepUp`, `NoMatchIsMissed`, `CommandsAreReadable`, `DeltasRestore`, `SignaturesAreRight`, `SignaturesPay`, `BlockSizesAreGood`, `HeadersReadBack`, `SmallBytesRead`: `PairSpec =>` `[]DeltaPrefix`, `[]NothingMissed`, `[]CommandsReadable`, `[]RestoresUpToTail`, `[]SignaturePrefix`, `[]SignaturePays`, `[]NearlyOptimal`, `[]HeaderReadsBack`, `[]ReadsSmallBytes` | none |
| `DatabaseProofs` | `TransactionTypes`: `[]TypeOK` of `SaveTransaction` | none |
| | `OwnTransactions`, `WholeSaves`, `OutcomesTold`: `[]OwnTransaction`, `[]AllOrNothing`, `[]OutcomeTold`; `SerialRefinement`: `SavesSerial` | `[][~Intruder]_vars` |
| | `NobodyTerminates`: `[]NeverTerminates` | `[][~RolledBackByItself]_vars` |
| | `NamesAlwaysOfStatement`, `AnswersForName`, `ColumnsAlwaysFound`: the properties of `DbQuery`; `DatabaseParts`: `DatabaseSpec => Spec /\ QuerySpec` | none |
| | `DatabaseSafe`: all of them for `DatabaseSpec` | as above; `AutoRollback = FALSE`, as in the run, is enough for each |
| `RepositoryProofs` | `RepositoryTypes`, `OneCreatorOnly`, `RowsInTheirOrder`, `WritersFit`, `CompleteStaysComplete` | none |

They hold for *every* size of `MAIN.DAT`, file and buffer size, threshold, block size and set of configurations, any number of saves, threads and
processes, any set of constructor arguments, any statements, columns and rows, any alphabet, hash and literal buffer, any width of a byte and of an object's size; calls may fail, processes die and the power go at any time.
The constants' assumptions are `SizeAssumption`, `BlockSizeAssumption`, `SwitchAssumption` (`FileSave`), `SavesAssumption` (`SaveTransaction`),
`CallsAssumption` (`Repository`), `HashAssumption` (`BlockHash`), `DeltaAssumption`, `CommandsFit` (`DeltaStream`), `PairAssumption` (`VersionPair`) and `HeaderAssumption` (`ObjectHeader`: a byte
has at least two values).
All but one only say what kind of value a constant is.  `CommandsFit` wants the number of blocks of a predecessor, and a full literal buffer with one more window, to fit
into half of what a command word can hold: a larger number would come back negative.  The code's words have 32 bits, its buffer 1 MB, and its block sizes
are the roots of four and of twelve times the file size, so that this is so for all files of up to 2^58 bytes, more than an object header can name.

The assumptions of `FileSave`'s theorems are necessary for what is stated:

* `~CommitAfterError`: run OverrunCommit; a longer hash makes a longer signature, which runs into the data and may end behind them, behind what is recorded.  Types and
  the soundness of the check do not depend on it: such an object is found to be wrong, or is what its row says.
* `~RestartAnytime`: run RestartEarly; the row's hash, and with it the embedded signature, then speak of a part of the file.  The theorems without it hold whenever `restart()`
  is called: an early one spoils the hash and the signature, but the bytes stored, the totals and the log of versions stay right.
* `~SaveAfterFailure`: run GapAfterFailure.  What the other theorems say holds for callers that go on, too.
* `CreationFlushed`: without the magic number an empty repository is opened with a file that is too short (section 5).
* `~FlushMayFail`: a flush that fails unnoticed may lose a committed object in the next crash.  Only what is claimed about the bytes needs it; the rows, their
  tiling and the soundness of the check do not.
* `~DamageMayHappen`: the log of `VersionStore` is read off `MAIN.DAT` as it is now.  `CommittedIntact` and `NoFalseAlarm` have `damaged` in their statements
  instead.

The two assumptions on `SaveTransaction` are about behaviours and not about a constant, since SQLite does roll back by itself when the disk is full, on an
I/O error or without memory.  `RolledBackByItself` is a step in which it does; without one no destructor's ROLLBACK fails.
`Intruder` is a step in which a save begins while another one, which SQLite has rolled back, still has its destructor's ROLLBACK to come.  That ROLLBACK
may then end the intruder's transaction, so the other theorems exclude this, and nothing else: a save that SQLite rolls back and that is gone before the
next one begins is all or nothing, and its caller is told the truth.

*Argument for TypeCorrect.*  `TypeOK` is not inductive: nothing in it prevents a write from pushing the file pointer
beyond the file or an object from having a negative size.  `Placed` says that header, signature and data of a save lie in this order with the file pointer behind the beginning of the data, and that
the object whose header is out does not end behind the file; it holds whatever callers do, also for a `commit()` after an error.  The invariant is `Typed == TypeOK /\ Placed`; one lemma per action.
`Geometry` is what the other proofs need: *exactly* where a save stands, `eof = postition + objsize` once the header is out, the signature in the room set aside for it, and no more bytes hashed than
the file has.  Only callers that give up with the first error keep it, so each action's lemma has it as a second conclusion under `Exact == ~CommitAfterError /\ Geometry`.

*Argument for CommittedStaysIntact.*  `CommittedIntact` does not say why the next write misses
the committed objects, why a crash spares them, or what a second `commit()` writes.  `Kept` adds, as long as there is no damage, that committed objects end below
`synced` and below `recorded` (`KeptObjects`), that a save that streams lies behind all of them, and that what is recorded next is flushed (`KeptSave`).  `Written`, which holds
with damage too, says that what `commit()` would write again is there already (`InPlace`): the header and signature of a committed object are rewritten in place if `commit()` is called
twice.  The inductive invariant is `Shape /\ Written /\ Kept`.  Why an object is not hit then
comes down to a few lemmas on `Put`, `Cut` and `Read` (`PutBelow`, `CutBelow`, `ReadSame`).

*Argument for LayoutProofs.*  The result of a check is about all objects, each of its steps about one.  `Checked` is what is true in between: everything in front of the file pointer
has been found intact, and the last row ends where `config.filesize` says, so the truncation behind the last row hits no object.  It needs neither flushes nor tidy callers,
and with `Typed` it is inductive.
`Tiles` is why each object begins where the previous one ends: a writer that may begin a save stands at the recorded size, and loses that place only together with the right to go on
(`aborted`, `alarm`, a save that has failed); a save that writes its header a second time has its row already (`OffsetRecorded`).
`Headed` says that a row's object begins with the header that `datacheck` compares; with `Tiles` and `Kept` no comparison of a check can then fail.

*Argument for ContentProofs.*  Rows say nothing of a save before they exist, hence `Saving` follows the save from its constructor on: `Hashing` (the first bytes of the
version, each once; all of them in a second pass that began in time), `Begun` (what the constructor decided), `Contents` (what is behind `data_begin`, with the end of the deflate stream at the end or nowhere), and `Totals`.
`restart()` is the step that needs all four: it throws away `Contents` and keeps `Hashing`.  `Stored` is what `CommitDb` makes of them, per row.
The totals of a chain are a recursion along predecessors; `Accounted` ties each row to its parent, which has a smaller number, and the set of rows that satisfy
`ChainAccounting` then is all of them by well-foundedness.

*Argument for RefinementProofs.*  The invariant `Sound` is all of the above.  The log is read off `MAIN.DAT`, so a step that maps to a stutter must leave what is read of each
row alone, which is `Kept`; `CommitDb` must map to Store, that is, append the file the save was begun with behind the version it names, which is `Saving`.
The content of a version is read off the payload and its row's `file_size` (`ContentReadIs`), never off the hash, so an early `restart()` does no harm to it.

*Argument for DeltaProofs.*  Hash, powers of the factor, words of a difference-coded delta and what a delta restores are all recursive functions.  The provers cannot unfold a recursion as often as data demand, but
they can compare it with a function that lists its intermediate values: that the list is right at 0 and right at i when it is right at i - 1 makes it right everywhere (`UpTo`, induction over a set).
`ReadsAs(o, prev, d)` is such a list for a delta: there are words w and restored prefixes r, one per item, that lead to d.  Appending a command then extends the list at its end
(`CommandReads`, `FlushReads`), and `DecodeIs` says that `Decode` computes it.  `Segments` and `Rolling` do the same for the hash: hashes of prefixes determine hashes of windows, which is
why the code's past hash times a power is the right thing to subtract.
The invariant `DeltaInv` has two parts.  `Windows`: there is a position since which there was no match, the ring buffers hold the last bytes and prefix hashes since then, and no full window in
between is a block.  `Wrote(d)`: the items read as d, and d, the literals waiting and the window together are the bytes that came in.  At the end of a file the window that is not full is
restored as some bytes of the right number; they are the wrong ones (run DeltaTail), and `Sure` is what comes before.
`SignInv` is the same for the signature, `BlockIs` and `FilesAre` take the signature of the first version over as the predecessor of the second.
For block sizes, `RoundedRootIs` pins the rounded root between two squares, whose existence follows from a least number; the rest is arithmetic, for `NearlyOptimal` after completing the square.
Headers are lists again: of the low i bytes of a number, x % `Shift[i]`, which is what `datacheck` has put together after i of them (`LowBytes`, `SizeFoundIs`), and, for `read_integer`, of what the bytes that are
negative as a char fall short of it (`ExcessIs`).  If none in front of the last byte is, that sum is a multiple of the word.

*Argument for SaveTransaction.*  The properties do not say who owns the open transaction while a destructor is between its two halves.  `Owns(t)` does: the transaction is
`t`'s from its BEGIN, before it has the lock, to its COMMIT or to the ROLLBACK behind the release of the lock.  `PendingRows` says which rows wait in it, `Told(t)` what is on the
disk of `t` and what `t` knows of that.  BEGIN inside a transaction fails, so only one save can own it, and all its statements go there.
A save that gives up (`Late`) owns the open transaction or, rolled back by SQLite, there is none; an `Intruder` is what would make it somebody else's.
The step simulation (`SerialStep`) follows: COMMIT of `t` completes what BEGIN of `t` opened.

*Argument for Repository.*  Two constructors can both have seen no `MAIN.DB`.  `TablesFirst` and `Reserving` tell the one that creates: it is the holder of SQLite's RESERVED lock, or the
tables are there and whoever reads the schema next fails.  Hence `OneAtATime`, from which `RowsSoFar` follows: where the creator stands says which rows of
`config` are there.  `HandlesFit` says what a handle on `MAIN.DAT` is worth: one that writes keeps all other writers out until it is closed, also when its constructor has thrown,
so what an unchecked opening compared stays true.

*Argument for DbQuery.*  `ReadyWhenClean`: every operation that ends without an exception and has stepped leaves the statement ready, so the bind that nobody looks at takes effect.  `CacheWhole`: without an exception
the cache is empty or full; `run_one`'s `#` never stays.

*Argument for DatabaseParts.*  A step of the composition is a step of one half and leaves the other alone.

*Only model-checked.*  Liveness (`SavesEnd` in both modules, `ChecksEnd`), for which the prover has no means: it knows neither ENABLED nor fairness.  Every invariant, action property and
refinement that a passing run checks is proved.  The findings of the next section are counterexamples and need no proof.

## 5 Where the code disagrees with its documents

| Run | What happens |
|---|---|
| DeltaTail | At the end of a file `process()` appends the *oldest* `dcurbytes` bytes of the window instead of the latest ones (`filesubsystem.cpp` 394).  If the last window is incomplete, the delta restores wrong bytes.  `docs/ru.rtf` line 123 wants all of the buffer's bytes.  `RestoresUpToTail` shows that everything before is right |
| GapAfterFailure | A save that fails leaves its bytes at the end of `MAIN.DAT`, and the next one in the same process begins behind them: `datacheck` reports unused space and a writer can never open the repository with a check again, although nothing is damaged (`docs/ru.rtf` 34) |
| RestartEarly | `restart()` in the middle of the first pass leaves a file hash over a prefix (`docs/ru.rtf` 39: of the whole file) |
| OverrunCommit | `commit()` accepts a save to which more than `file_size` bytes were sent, with a hash over all of them (`docs/ru.rtf` 39).  A `commit()` that is tried again after one of its statements has failed violates the property, too: its row has the hash of the object in place of the file's (`filesubsystem.cpp` 474) |
| HalfCreated | Two constructors, no failure: the late one reads the schema while one of the creator's INSERTs runs and makes it fail (SQLITE_BUSY).  Both throw; tables, `MAIN.DAT` and the first rows stay and nobody completes them, while `svslib.h` 48 promises to create the files |
| AutoRollback | `~db_transaction() noexcept` (`maindb.h` 303) throws, and the process ends, when SQLite has already rolled back |

`RestartEarly` and `OverrunCommit` need a caller that the tests do not show; nothing in the interface forbids it.

About `AutoRollback`: it is FALSE in run Database.  When SQLite rolls back by itself, another thread
may begin a transaction before the failed save's destructor, which has released the lock, runs its ROLLBACK; that ROLLBACK then ends the other save's
transaction, and `OwnTransaction` and `AllOrNothing` fail as well.  The finding states the root of it; the theorems of `DatabaseProofs` exclude exactly this `Intruder`.

Noticed while modelling, without a run of its own:

* With `readonly` a constructor on empty paths commits the tables, creates `MAIN.DAT` through a handle that cannot write (`svslib.cpp` 82), and throws; so does everyone after it.
  `CreatesFiles` with `Calls <- Reader` shows it.
* A checked opening only prints that `MAIN.DAT` is shorter than recorded (`svslib.cpp` 180).  If a power failure took the magic number, which is
  never flushed, the next object goes to offset 0.  `CreationFlushed` turns this on and off; unchecked writers are safe (`WriterFitsSize`).
* Archive mode overrides the random limit of a chain (`filesubsystem.cpp` 107), and the documented `max deltas` (`docs/ru.rtf` 30) does not exist.
* A delta does not begin with its block size (`docs/ru.rtf` 99); when the signature came from the caller, it is not in `MAIN.DAT` either.
* About `sqrt(N / 12)` blocks instead of the documented `round(sqrt(N / 11)) + 3` (`docs/ru.rtf` 91).  `NearlyOptimal` shows that little is lost.
* `read_integer` extends the sign of every byte from 128 on into all the higher ones (`stream_helper.h` 70), so it misreads every number with such a byte in front of its
  last one, while all numbers are little endian (`docs/ru.rtf` 68).  `ObjectHeader!ReadInteger` computes what it does; `ReadsSmallBytes` says which numbers it reads right.  It has no caller yet.
* A constructor of `SVS` that throws behind `svslib.cpp` 151 leaves its handle on `MAIN.DAT` open, and with it nobody can open the file for writing until the process ends (`leaked` in `Repository`).

## 6 What is not modelled

| Part | Why |
|---|---|
| Random storing policy (`filesubsystem.cpp` 60–108) | its outcome is nondeterministic in `FileSave`: a product of logarithms and powers of doubles with normally distributed factors is
out of TLC's reach, and what it should be is not documented.  The block sizes before it are in `BlockSize` |
| column traits, `winerror`, `ioerror` (`maindb.h`, `filesubsystem.h`) | types and texts without a state |
| `acquire_db`, `acquire_data` | return members that never change |
| `fileload`, `diffview` | structs without operations |
| `stream_helper.h` but for `read_integer` | abstract, without callers |
| version tree, branches, commits, comments, ignores, revisions | tables and documents only; no code |
| `svs` | an empty program |
| SQLite, BLAKE3, httplib, diff_match_patch | third-party; the models have of them what the library's own code meets.  SQLite's statement states, its own rollback and its file locks are read off `svslib/sqlite3.c` at the lines `PROJECT.json` names; Windows' calls and sharing modes, whose source is not here, are external.  They are about 277 000 of the 279 000 lines of C and C++ below `src/`, which is why so small a part of the lines is modelled although most of the library's own logic is; the last two are not used at all |

Widths other than those of hashes and commands are unbounded: a signature of more than 2^31 bytes or a buffer beyond
the `int` range is not covered.

## 7 Plan

1. `ContentStored` under an early `restart()`: what it says of the payload still holds, so it could be separated from what it says of the hash.
2. `WriterAtEnd` without `CreationFlushed`, for every writer but the one on an empty repository.
3. `fileload` and the readers of `stream_helper.h`, as soon as the code has them; `DeltaStream!Decode` is what they should do, and `DecodeIs` a lemma their proof could begin with.
