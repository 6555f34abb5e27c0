---------------------------- MODULE MCRepository ----------------------------
(***************************************************************************)
(* Instances of Repository for TLC.                                        *)
(***************************************************************************)
EXTENDS Repository

Arguments(ro, chk, withdat, withlocal) ==
  [readonly |-> ro, diskchck |-> chk, datafile |-> withdat, localfile |-> withlocal]

\* As in svstests/fss.cpp: a writer without a check
Writer == {Arguments(FALSE, FALSE, TRUE, FALSE)}

\* A reader, also for paths on which there is nothing yet
Reader == {Arguments(TRUE, FALSE, TRUE, FALSE)}

WriterOrReader == Writer \cup Reader

\* Writers and readers, checked or not, with and without MAIN.DAT and LOCAL.DB
AnyCall ==
  WriterOrReader
    \cup {Arguments(FALSE, TRUE, TRUE, TRUE), Arguments(FALSE, FALSE, FALSE, TRUE)}
=============================================================================
