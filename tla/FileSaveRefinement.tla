------------------------- MODULE FileSaveRefinement -------------------------
(***************************************************************************)
(* FileSave implements VersionStore: what a reader of MAIN.DAT and MAIN.DB *)
(* finds is a log of whole versions, each the file its save was begun      *)
(* with.  The mapping reads contents back from MAIN.DAT as it is now, not  *)
(* from the hashes, so it also says that nothing touches them later.       *)
(***************************************************************************)
EXTENDS MCFileSave

\* Version v of a file of n bytes
FileOf(v, n) == [j \in 1 .. n |-> <<v, j>>]

AllFiles == {FileOf(v, n) : v \in 1 .. MaxSaves, n \in FileSizes}

\* Where the payload of object i begins, behind its header and signature, and
\* how many cells it has but for the end of the deflate stream
PayloadBegin(i) == objects[i].offset + PayloadFrom(i) - 1
PayloadSize(i) ==
  End(objects[i]) - PayloadBegin(i) - (IF Zipped(i) THEN 1 ELSE 0)

\* The content of version i, read from MAIN.DAT: the bytes of a file stored
\* whole, or what the delta was made of (DeltaStream says what it restores)
ContentRead(i) ==
  LET from == PayloadBegin(i)
  IN IF ~IsDelta(i)
     THEN [j \in 1 .. PayloadSize(i) |->
             LET c == dat[from + j - 1] IN IF c.k = "data" THEN c.b ELSE Junk]
     ELSE IF \A q \in from .. from + PayloadSize(i) - 1 :
               dat[q].k = "delta" /\ dat[q].v = dat[from].v
     THEN FileOf(dat[from].v, files[i].file_size)
     ELSE << >>

NoVersion == [none |-> TRUE]

Recorded(offset) == \E i \in DOMAIN objects : objects[i].offset = offset

\* What has been stored, and the version that is being saved
Versions ==
  [i \in DOMAIN files |-> [content |-> ContentRead(i), parent |-> files[i].parent]]

Current ==
  IF s.pc = "none" \/ Recorded(s.postition) THEN NoVersion
  ELSE [content |-> FileOf(s.v, s.filesize), parent |-> s.files_pid]

VS == INSTANCE VersionStore WITH
        Contents <- AllFiles, None <- NoVersion,
        versions <- Versions, current <- Current

\* Whatever is streamed in pieces, restarted, abandoned, truncated or lost in
\* a crash: seen from outside, commit() adds the file its save was begun
\* with, whole and behind the version it names as its predecessor, and
\* nothing else ever changes what is stored.
StoresVersions == VS!Spec

-----------------------------------------------------------------------------
(* Progress.                                                               *)

\* What the caller of a filesave does with it
SaveStep ==
  \/ \E k \in Chunks, e \in 0 .. MaxEmit :
       Process(k, e) \/ ProcessWriteError(k, e) \/ ProcessZlibError(k, e)
  \/ restart \/ restartError
  \/ CommitRefused \/ CommitWrites \/ CommitWriteError
  \/ CommitFlush \/ CommitDb \/ CommitDbError
  \/ Destroy

\* Callers go on with a save or give it up; datacheck is a loop that nothing
\* interrupts but the end of the process
FairSpec ==
  Spec /\ WF_vars(SaveStep) /\ WF_vars(CheckObject \/ CheckEnd)

\* Every save ends, committed or not: restart() makes the caller stream the
\* file a second time, but never a third.
SavesEnd == s.pc # "none" ~> s.pc = "none"

\* Every check ends: a reader's datacheck goes on behind each complaint.
ChecksEnd == proc = "checking" ~> proc # "checking"
=============================================================================
