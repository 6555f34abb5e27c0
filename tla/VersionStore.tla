---------------------------- MODULE VersionStore ----------------------------
(***************************************************************************)
(* What SVS promises to somebody who saves files: a log of versions that   *)
(* only grows.  A save is begun with a file and its predecessor, and ends  *)
(* either as one new entry, which is that file, or without a trace.        *)
(* MAIN.DAT, MAIN.DB, buffers, deltas, restarts and crashes are not seen.  *)
(***************************************************************************)
EXTENDS Naturals, Sequences

CONSTANTS Contents, None

VARIABLES
  versions,         \* each with its content and its predecessor's index, or 0
  current           \* the version being saved, or None

vars == <<versions, current>>

Init == versions = << >> /\ current = None

Begin ==
  /\ current = None
  /\ current' \in [content : Contents, parent : 0 .. Len(versions)]
  /\ UNCHANGED versions

Store ==
  /\ current # None /\ current' = None
  /\ versions' = Append(versions, current)

Abort ==
  /\ current # None /\ current' = None
  /\ UNCHANGED versions

Next == Begin \/ Store \/ Abort

Spec == Init /\ [][Next]_vars
=============================================================================
