----------------------------- MODULE MCFileSave -----------------------------
(***************************************************************************)
(* Instances of FileSave for TLC.                                          *)
(***************************************************************************)
EXTENDS FileSave

\* Signature blocks of two bytes: files of 2 and 3 bytes have one block, and
\* only the latter a tail.
MCBlockSize(n) == 2

Switches(z, e, l, a, r) ==
  [zlib |-> z, embed_s |-> e, local |-> l, archive |-> a, raw_content |-> r]

\* The config table as the SVS constructor fills it
DefaultConfig == {Switches(TRUE, TRUE, TRUE, FALSE, FALSE)}

\* Deltas whenever there is a signature to make them from
ArchiveConfig == {Switches(TRUE, TRUE, TRUE, TRUE, FALSE)}

\* Every file is stored whole, uncompressed and without a signature
RawConfig == {Switches(FALSE, FALSE, FALSE, FALSE, TRUE)}

\* The default, no compression with every signature kept, and raw content
DefaultAndPlain ==
  DefaultConfig \cup RawConfig \cup {Switches(FALSE, TRUE, FALSE, TRUE, FALSE)}
=============================================================================
