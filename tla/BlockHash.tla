----------------------------- MODULE BlockHash ------------------------------
(***************************************************************************)
(* The two hashes of a signature block.  The polynomial one is unsigned    *)
(* arithmetic that wraps at HashMod (2^32 in the code); BLAKE3 is free of  *)
(* collisions, so the block stands for its hash.                           *)
(***************************************************************************)
EXTENDS Integers, Sequences

CONSTANTS K, HashMod

ASSUME HashAssumption == K \in Nat /\ HashMod \in Nat \ {0}

\* hash *= K; hash += ch
Extend(h, ch) == (h * K + ch) % HashMod

\* The hash of a sequence of bytes
PolyHash(w) ==
  LET h[i \in 0 .. Len(w)] == IF i = 0 THEN 0 ELSE Extend(h[i - 1], w[i])
  IN h[Len(w)]

\* Block m (from 1) of a file, and the signature of the file's full blocks
Block(f, b, m) == SubSeq(f, (m - 1) * b + 1, m * b)

SignatureOf(f, b) ==
  [m \in 1 .. Len(f) \div b |->
     [hash |-> PolyHash(Block(f, b, m)), blake3 |-> Block(f, b, m)]]

\* All files of up to n bytes
FilesUpTo(n, alphabet) == UNION {[1 .. m -> alphabet] : m \in 0 .. n}
=============================================================================
