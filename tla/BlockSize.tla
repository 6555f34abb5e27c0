------------------------------ MODULE BlockSize ------------------------------
(***************************************************************************)
(* How large the blocks of a signature are: the constructor of filesave    *)
(* (svslib/filesubsystem.cpp) in its own numbers.  FileSave takes block    *)
(* sizes as given; this module says what they are for every file size.     *)
(***************************************************************************)
EXTENDS Integers

CONSTANTS MaxSize   \* file sizes up to this one are looked at

VARIABLES filesize  \* the size with which a constructor is called

LargerFile == filesize < MaxSize /\ filesize' = filesize + 1

THRESHOLD_DELTA == (80 * 80) \div 11

\* lround(sqrt(x)): the r with r - 1/2 <= sqrt(x) < r + 1/2.  A square root
\* of an integer is never halfway between two integers.
RoundedRoot(x) == CHOOSE r \in 0 .. x : r * (r - 1) < x /\ x <= r * (r + 1)

\* Mutant: the factors of the two block sizes are exchanged
bsntForSwapped(n, emb) == RoundedRoot((IF emb THEN 4 ELSE 12) * n + 2) + 1

\* bsnt, for a signature that is handed out or embedded in MAIN.DAT
bsntFor(n, emb) == RoundedRoot((IF emb THEN 12 ELSE 4) * n + 2) + 1

\* Mutant: the threshold is left out
NoSignatureByBlock(n) == bsntFor(n, FALSE) > n

\* no_signature; write_signature does not look at the larger block size
no_signature(n) == bsntFor(n, FALSE) > n \/ n <= THRESHOLD_DELTA

\* sbl: the bytes of the entries; the store has two more words
sbl(n, emb) == (n \div bsntFor(n, emb)) * 40

-----------------------------------------------------------------------------
(* Properties.                                                             *)

\* A file that gets a signature has a block at least, and the signature with
\* its two words is smaller than the file.  no_signature looks at the block
\* size of a signature that is handed out, also when the one that is embedded,
\* and for which space is set aside in MAIN.DAT, has larger blocks.
SignaturePays ==
  ~no_signature(filesize) =>
    \A emb \in BOOLEAN :
      bsntFor(filesize, emb) \in 1 .. filesize /\ 8 + sbl(filesize, emb) < filesize

\* What a change of one byte adds to MAIN.DAT with K = n / b blocks, as docs/ru.rtf
\* (line 90) counts it, is 4 * (11 * K + n / K) + 4.  This is 11 * K + n / K, its
\* part that depends on K, times b, to stay in the integers.
AddedTimes(n, b) == 11 * n + b * b

\* docs/ru.rtf derives a block size that is optimal for what a change adds to
\* MAIN.DAT.  The code's formula is another one, but no other size of embedded
\* blocks would add less by more than 5 %.
NearlyOptimal ==
  ~no_signature(filesize) =>
    LET b == bsntFor(filesize, TRUE)
    IN \A c \in 1 .. 2 * b :
         20 * AddedTimes(filesize, b) * c <= 21 * AddedTimes(filesize, c) * b
=============================================================================
