----------------------------- MODULE Signature ------------------------------
(***************************************************************************)
(* The signature that filesave::process computes while a new version       *)
(* streams by, block for block of `bsnt' bytes: a polynomial hash that can *)
(* be rolled along the next version, and a BLAKE3 hash (taken to be the    *)
(* block itself) that settles equality.  The constructor sizes its store   *)
(* from the file size, before the first byte is seen.                      *)
(***************************************************************************)
EXTENDS RingBuffer, BlockHash

CONSTANTS
  Alphabet,         \* byte values that occur
  MaxFile,          \* longest file that is signed
  BlockSizes        \* values of bsnt

VARIABLES
  file, bsnt,       \* the bytes the caller will send; block size
  passed,           \* how many have been sent
  sigbuf, shash,    \* window over the current block, its hash so far
  nsstore,          \* entries written to the store
  capacity          \* entries it has room for

vars == <<file, bsnt, passed, sigbuf, shash, nsstore, capacity>>

Init ==
  /\ file \in FilesUpTo(MaxFile, Alphabet)
  /\ bsnt \in BlockSizes
  /\ passed = 0
  /\ sigbuf = init(bsnt) /\ shash = 0
  /\ nsstore = << >> /\ capacity = Len(file) \div bsnt

\* Mutant: the hash is not reset at the end of a block
SignByteNoReset ==
  /\ passed < Len(file)
  /\ LET ch  == file[passed + 1]
         buf == push(sigbuf, ch)
         h   == Extend(shash, ch)
     IN /\ sigbuf' = buf
        /\ passed' = passed + 1
        /\ shash' = h
        /\ nsstore' = IF full(buf)
                      THEN Append(nsstore, [hash |-> h, blake3 |-> serialize(buf)])
                      ELSE nsstore
  /\ UNCHANGED <<file, bsnt, capacity>>

\* One byte of the buffers given to process()
SignByte ==
  /\ passed < Len(file)
  /\ LET ch  == file[passed + 1]
         buf == push(sigbuf, ch)
         h   == Extend(shash, ch)
     IN /\ sigbuf' = buf
        /\ passed' = passed + 1
        /\ IF full(buf)
           THEN /\ nsstore' = Append(nsstore, [hash |-> h, blake3 |-> serialize(buf)])
                /\ shash' = 0
           ELSE shash' = h /\ UNCHANGED nsstore
  /\ UNCHANGED <<file, bsnt, capacity>>

Done == passed = Len(file) /\ UNCHANGED vars

Next == SignByte \/ Done

Spec == Init /\ [][Next]_vars

\* The store fills up with the signature of what has been sent: each entry is
\* the hash of exactly one block, the blocks follow one another from the
\* first byte, and the store the constructor allocated from the file size has
\* room for them and is full when the last byte has passed.
SignaturePrefix ==
  /\ nsstore = SignatureOf(SubSeq(file, 1, passed), bsnt)
  /\ Len(nsstore) <= capacity
  /\ passed = Len(file) => Len(nsstore) = capacity
=============================================================================
