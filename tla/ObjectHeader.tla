---------------------------- MODULE ObjectHeader ----------------------------
(***************************************************************************)
(* The number in front of every object of MAIN.DAT: one byte of flags and  *)
(* the size of the object in the other bytes, low byte first.  commit()    *)
(* packs it, datacheck::run takes it apart, and read_integer of            *)
(* svslib/stream_helper.h reads such numbers from a stream.                *)
(*                                                                         *)
(* A byte has Byte values instead of 256 and the size SizeBytes bytes      *)
(* instead of 7; char is signed, as it is for the compiler of the project. *)
(***************************************************************************)
EXTENDS Integers, Sequences

CONSTANTS Byte, SizeBytes

ASSUME HeaderAssumption == Byte \in Nat \ {0, 1} /\ SizeBytes \in Nat

VARIABLES objsize   \* the size of the object that is committed

\* What a shift by j bytes multiplies a number with
Shift[j \in 0 .. SizeBytes + 1] == IF j = 0 THEN 1 ELSE Byte * Shift[j - 1]

\* An unsigned long long is less than that.
Word == Shift[SizeBytes + 1]

LargerObject == objsize < Shift[SizeBytes] - 1 /\ objsize' = objsize + 1

\* The bytes of x in memory, low byte first
Bytes(x, n) == [j \in 1 .. n |-> (x \div Shift[j - 1]) % Byte]

\* A byte read as a char
Char(b) == IF b < Byte \div 2 THEN b ELSE b - Byte

\* Mutant: the size is shifted by one bit too few
headerShifted(flags, size) == (flags + size * (Byte \div 2)) % Word

\* commit(): header = flags + (objsize << 8)
header(flags, size) == (flags + size * Byte) % Word

\* Mutant: every byte is taken for the lowest one
ReadIntegerUnshifted(bytes) ==
  LET sum[j \in 0 .. Len(bytes)] ==
        IF j = 0 THEN 0 ELSE (sum[j - 1] + Char(bytes[j])) % Word
  IN sum[Len(bytes)]

\* read_integer(x): each char is converted to unsigned long long before it is
\* shifted, which extends its sign
ReadInteger(bytes) ==
  LET sum[j \in 0 .. Len(bytes)] ==
        IF j = 0 THEN 0
        ELSE (sum[j - 1] + Char(bytes[j]) * Shift[j - 1]) % Word
  IN sum[Len(bytes)]

\* datacheck::run: header[0], a char, and the other bytes copied into a number
TypeFound(bytes) == Char(bytes[1])
SizeFound(bytes) ==
  LET sum[j \in 1 .. Len(bytes)] ==
        IF j = 1 THEN 0 ELSE sum[j - 1] + bytes[j] * Shift[j - 2]
  IN sum[Len(bytes)]

-----------------------------------------------------------------------------
(* Properties.                                                             *)

\* datacheck finds the flags and the size that commit() has written, up to the
\* largest size that fits into its bytes; the highest flag, which is not used,
\* is the only one it would complain about.  (No object is empty: it has a header.)
HeaderReadsBack ==
  objsize > 0 => \A type \in 0 .. Byte - 1 :
    LET bytes == Bytes(header(type, objsize), SizeBytes + 1)
    IN /\ SizeFound(bytes) = objsize
       /\ TypeFound(bytes) = type <=> type < Byte \div 2

\* read_integer reads every header of which no byte but the last is negative as
\* a char: neither the order of the bytes nor their number goes wrong.
ReadsSmallBytes ==
  objsize > 0 => \A type \in 0 .. Byte - 1 :
    LET x     == type + objsize * Byte
        bytes == Bytes(x, SizeBytes + 1)
    IN (\A j \in 1 .. SizeBytes : bytes[j] < Byte \div 2) => ReadInteger(bytes) = x
=============================================================================
