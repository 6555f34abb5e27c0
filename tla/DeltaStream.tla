---------------------------- MODULE DeltaStream -----------------------------
(***************************************************************************)
(* How filesave::process turns a new version into a delta against the      *)
(* signature of its predecessor, byte by byte and without ever seeing the  *)
(* predecessor itself.  A delta is a sequence of commands: a block number  *)
(* copies that block, a negative number -n is followed by n bytes to       *)
(* insert.  fileload, which would read it back, is an empty struct in this *)
(* version; Decode is the reading that docs/ru.rtf prescribes.             *)
(***************************************************************************)
EXTENDS RingBuffer, BlockHash

CONSTANTS
  Alphabet, MaxSource, MaxTarget,   \* bytes; longest old and new version
  BlockSizes,                       \* block sizes of the signature
  CmdMod,                           \* 2^32 of a command word, scaled down
  DELTA_BUFFER_SIZE                 \* literals collected before a flush

VARIABLES
  source, target, blocksize, use_zlib,
  bytespassed,       \* bytes of target processed
  dbuffer, dhashes,  \* the last blocksize bytes, and the hashes before them
  dcurbytes,         \* bytes since the last match, up to blocksize
  chash, dprevcmd,
  dbuf,              \* literals not yet sent
  out,               \* what has been written to MAIN.DAT
  tail,              \* history: dcurbytes when the file ended
  finished           \* the end-of-file branch of process() has run

inputs == <<source, target, blocksize, use_zlib>>
window == <<dbuffer, dhashes, dcurbytes, chash>>
output == <<dprevcmd, dbuf, out>>
vars   == <<inputs, window, output, bytespassed, tail, finished>>

ASSUME DeltaAssumption ==
  /\ Alphabet \subseteq Nat /\ MaxSource \in Nat /\ MaxTarget \in Nat
  /\ BlockSizes \subseteq Nat \ {0} /\ DELTA_BUFFER_SIZE \in Nat \ {0}
  /\ CmdMod \in Nat \ {0}

\* A command word has room for every block number and for the literals of one
\* flush.  With words of 32 bits and block sizes that grow with the root of
\* the file size it has, for every size that fits into an object's header.
ASSUME CommandsFit ==
  \A b \in BlockSizes :
    /\ MaxSource \div b <= CmdMod \div 2
    /\ DELTA_BUFFER_SIZE + b <= CmdMod \div 2

\* Mutant: one factor short
dhashmulShort ==
  LET p[i \in 0 .. blocksize] == IF i = 0 THEN 1 ELSE (p[i - 1] * K) % HashMod
  IN p[blocksize - 1]

\* dhashmul: K to the power of the block size
dhashmul ==
  LET p[i \in 0 .. blocksize] == IF i = 0 THEN 1 ELSE (p[i - 1] * K) % HashMod
  IN p[blocksize]

-----------------------------------------------------------------------------
(* Output.  An item of `out' is a command word or a run of literal bytes;  *)
(* what is sent is described by [prev, items], the new dprevcmd and what   *)
(* is appended.                                                            *)

\* Mutant: dprevcmd is not updated
CommandForgotten(prev, cmd) ==
  [prev |-> prev,
   items |-> <<[cmd |-> IF use_zlib THEN (cmd - prev) % CmdMod ELSE cmd % CmdMod]>>]

\* _send_delta_command: with zlib, the difference to the previous command
Command(prev, cmd) ==
  IF use_zlib
  THEN [prev |-> cmd % CmdMod, items |-> <<[cmd |-> (cmd - prev) % CmdMod]>>]
  ELSE [prev |-> prev, items |-> <<[cmd |-> cmd % CmdMod]>>]

\* _flush_delta_buffer
Flush(prev, lits) ==
  IF lits = << >> THEN [prev |-> prev, items |-> << >>]
  ELSE LET c == Command(prev, -Len(lits))
       IN [c EXCEPT !.items = Append(@, [bytes |-> lits])]

\* _flush_delta_buffer, then _send_delta_command
FlushAndSend(prev, lits, cmd) ==
  LET f == Flush(prev, lits)
      c == Command(f.prev, cmd)
  IN [prev |-> c.prev, items |-> f.items \o c.items]

\* _push_delta_buffer: what it flushes, and the buffer it leaves
PushFlush(prev, lits) ==
  Flush(prev, IF Len(lits) = DELTA_BUFFER_SIZE THEN lits ELSE << >>)

\* Mutant: the byte that found the buffer full is lost
PushBufLosing(lits, ch) ==
  IF Len(lits) = DELTA_BUFFER_SIZE THEN << >> ELSE Append(lits, ch)

PushBuf(lits, ch) ==
  IF Len(lits) = DELTA_BUFFER_SIZE THEN <<ch>> ELSE Append(lits, ch)

-----------------------------------------------------------------------------
(* Matching.                                                               *)

\* The blocks of the signature that _find_delta_hash may pick: hash table
\* first, BLAKE3 of the window second
Matches(hsh, buf) ==
  {m \in 1 .. Len(source) \div blocksize :
     SignatureOf(source, blocksize)[m] = [hash |-> hsh, blake3 |-> serialize(buf)]}

\* _find_delta_hash after `flushed' was sent and with `lits' still in dbuf
Find(hsh, buf, h, n, flushed, lits) ==
  \/ /\ Matches(hsh, buf) = {}
     /\ dcurbytes' = n /\ chash' = h /\ dbuf' = lits
     /\ dprevcmd' = flushed.prev /\ out' = out \o flushed.items
  \/ \E m \in Matches(hsh, buf) :
       LET sent == FlushAndSend(flushed.prev, lits, m - 1)
       IN /\ dcurbytes' = 0 /\ chash' = 0 /\ dbuf' = << >>
          /\ dprevcmd' = sent.prev /\ out' = out \o flushed.items \o sent.items

Nothing == [prev |-> dprevcmd, items |-> << >>]

\* One byte of a buffer
Step(ch) ==
  LET h   == Extend(chash, ch)
      buf == push(dbuffer, ch)
  IN /\ dbuffer' = buf
     /\ dhashes' = push(dhashes, h)
     /\ \/ /\ dcurbytes < blocksize - 1
           /\ dcurbytes' = dcurbytes + 1 /\ chash' = h
           /\ UNCHANGED output
        \/ /\ dcurbytes = blocksize - 1
           /\ Find(h, buf, h, blocksize, Nothing, dbuf)
        \/ /\ dcurbytes = blocksize
           /\ Find((h - oldest(dhashes) * dhashmul) % HashMod, buf, h, blocksize,
                   PushFlush(dprevcmd, dbuf), PushBuf(dbuf, oldest(dbuffer)))

ProcessByte ==
  /\ bytespassed < Len(target)
  /\ Step(target[bytespassed + 1])
  /\ bytespassed' = bytespassed + 1
  /\ UNCHANGED <<inputs, tail, finished>>

\* Mutant: the window is forgotten at the end of the file
ProcessEndFlushOnly ==
  LET f == Flush(dprevcmd, dbuf)
  IN /\ bytespassed = Len(target)
     /\ dprevcmd' = f.prev /\ out' = out \o f.items
     /\ dbuf' = << >> /\ dcurbytes' = 0
     /\ finished' = TRUE
     /\ tail' = IF finished THEN tail ELSE dcurbytes
     /\ UNCHANGED <<inputs, dbuffer, dhashes, chash, bytespassed>>

\* bytespassed == filesize at the end of a process() call - again, if the
\* caller calls process(buf, 0) once more
ProcessEnd ==
  LET rest == SubSeq(serialize(dbuffer), 1, dcurbytes)
      f    == Flush(dprevcmd, dbuf \o rest)
  IN /\ bytespassed = Len(target)
     /\ dprevcmd' = f.prev /\ out' = out \o f.items
     /\ dbuf' = << >> /\ dcurbytes' = 0
     /\ finished' = TRUE
     /\ tail' = IF finished THEN tail ELSE dcurbytes
     /\ UNCHANGED <<inputs, dbuffer, dhashes, chash, bytespassed>>

Init ==
  /\ source \in FilesUpTo(MaxSource, Alphabet)
  /\ target \in FilesUpTo(MaxTarget, Alphabet) \ {<< >>}
  /\ blocksize \in {b \in BlockSizes : b <= Len(source)}
  /\ use_zlib \in BOOLEAN
  /\ dbuffer = init(blocksize) /\ dhashes = init(blocksize)
  /\ dcurbytes = 0 /\ chash = 0 /\ dprevcmd = 0
  /\ dbuf = << >> /\ out = << >>
  /\ bytespassed = 0 /\ tail = 0 /\ finished = FALSE

Next == ProcessByte \/ ProcessEnd

Spec == Init /\ [][Next]_vars

-----------------------------------------------------------------------------
(* Reading a delta back, as docs/ru.rtf describes it.                      *)

\* The signed value of command word i, undoing the difference coding
WordAt(i) ==
  LET w[j \in 0 .. i] ==
        IF j = 0 THEN 0
        ELSE IF "cmd" \notin DOMAIN out[j] THEN w[j - 1]
        ELSE IF use_zlib THEN (w[j - 1] + out[j].cmd) % CmdMod ELSE out[j].cmd
  IN IF w[i] >= CmdMod \div 2 THEN w[i] - CmdMod ELSE w[i]

\* What item i contributes to the restored file
Restored(i) ==
  IF "bytes" \in DOMAIN out[i] THEN out[i].bytes
  ELSE IF WordAt(i) >= 0 THEN Block(source, blocksize, WordAt(i) + 1)
  ELSE << >>

Decode ==
  LET r[i \in 0 .. Len(out)] == IF i = 0 THEN << >> ELSE r[i - 1] \o Restored(i)
  IN r[Len(out)]

\* The bytes seen since the last match that are still in the window
Pending == SubSeq(serialize(dbuffer), blocksize - dcurbytes + 1, blocksize)

-----------------------------------------------------------------------------
(* Properties.                                                             *)

\* Nothing is lost or doubled on the way from the window through dbuf to the
\* delta: what the delta restores so far, the literals still collected and
\* the window are together the bytes that process() has been given.
DeltaPrefix ==
  ~finished => Decode \o dbuf \o Pending = SubSeq(target, 1, bytespassed)

\* No match is overlooked: a full window that survives a step is no block of
\* the predecessor.  This is what the rolling hash, its table of past hashes
\* and their resets after a match have to get right together.
NothingMissed ==
  ~finished /\ dcurbytes = blocksize =>
    \A m \in 1 .. Len(source) \div blocksize : Pending # Block(source, blocksize, m)

\* The command words can be told apart after difference coding: a block
\* number names a block of the predecessor, and -n is followed by n bytes.
CommandsReadable ==
  \A i \in DOMAIN out : "cmd" \in DOMAIN out[i] =>
    IF WordAt(i) >= 0 THEN WordAt(i) < Len(source) \div blocksize
    ELSE i < Len(out) /\ "bytes" \in DOMAIN out[i + 1] /\ Len(out[i + 1].bytes) = -WordAt(i)

\* A finished delta restores a file of the right length that agrees with the
\* target up to the last, incomplete window.
RestoresUpToTail ==
  finished =>
    LET sure == Len(target) - (IF tail < blocksize THEN tail ELSE 0)
    IN Len(Decode) = Len(target) /\ SubSeq(Decode, 1, sure) = SubSeq(target, 1, sure)

\* A finished delta restores the target: at the end of the file "all bytes
\* from the buffer" are appended (docs/ru.rtf, step 11 of the algorithm).
RestoresTarget == finished => Decode = target
=============================================================================
