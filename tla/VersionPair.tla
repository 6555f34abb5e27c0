----------------------------- MODULE VersionPair -----------------------------
(***************************************************************************)
(* The two byte loops of filesave::process one after the other, as they    *)
(* meet when a file is saved twice: the first version is signed while it   *)
(* is stored whole (module Signature), and the second one is turned into a *)
(* delta against that signature (module DeltaStream).                      *)
(*                                                                         *)
(* Next to them, the numbers both depend on: block sizes and headers, for  *)
(* all sizes of files and objects.  They have nothing to do with the bytes *)
(* of a file, so they are gone through beside an empty one.                *)
(***************************************************************************)
EXTENDS DeltaStream, BlockSize, ObjectHeader

CONSTANTS MaxFile, SignatureBlocks   \* for the first version

ASSUME PairAssumption == MaxFile \in Nat /\ SignatureBlocks \subseteq Nat \ {0}

VARIABLES file, bsnt, passed, sigbuf, shash, nsstore, capacity

Sign == INSTANCE Signature WITH BlockSizes <- SignatureBlocks

sigvars == <<file, bsnt, passed, sigbuf, shash, nsstore, capacity>>

\* Before the second version there is no delta
NoDelta ==
  /\ source = << >> /\ target = << >> /\ blocksize = 1 /\ use_zlib = FALSE
  /\ dbuffer = init(1) /\ dhashes = init(1)
  /\ dcurbytes = 0 /\ chash = 0 /\ dprevcmd = 0 /\ dbuf = << >> /\ out = << >>
  /\ bytespassed = 0 /\ tail = 0 /\ finished = FALSE

\* A delta is begun with the first version's blocks; the store must be full
BeginDelta ==
  /\ target = << >> /\ nsstore # << >> /\ Len(nsstore) = capacity
  /\ Len(file) <= MaxSource /\ bsnt \in BlockSizes
  /\ source' = file /\ blocksize' = bsnt
  /\ target' \in FilesUpTo(MaxTarget, Alphabet) \ {<< >>}
  /\ use_zlib' \in BOOLEAN
  /\ dbuffer' = init(bsnt) /\ dhashes' = init(bsnt)
  /\ UNCHANGED <<dcurbytes, chash, output, bytespassed, tail, finished,
                sigvars, filesize, objsize>>

NextSize ==
  /\ file = << >> /\ bsnt = 1
  /\ \/ LargerFile /\ objsize = 0 /\ UNCHANGED objsize
     \/ LargerObject /\ filesize = 0 /\ UNCHANGED filesize
  /\ UNCHANGED <<vars, sigvars>>

PairInit == NoDelta /\ Sign!Init /\ filesize = 0 /\ objsize = 0

PairNext ==
  \/ target = << >> /\ Sign!Next /\ UNCHANGED <<vars, filesize, objsize>>
  \/ BeginDelta
  \/ target # << >> /\ Next /\ UNCHANGED <<sigvars, filesize, objsize>>
  \/ NextSize

PairSpec == PairInit /\ [][PairNext]_<<vars, sigvars, filesize, objsize>>

\* See Signature: one entry for each full block of what has been sent, filling
\* the store that the constructor has allocated from the file size.
SignaturePrefix == Sign!SignaturePrefix
=============================================================================
