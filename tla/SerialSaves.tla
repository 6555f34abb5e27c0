----------------------------- MODULE SerialSaves -----------------------------
(***************************************************************************)
(* What database::lck and db_transaction are there for: saves come one     *)
(* after the other, and each is either in MAIN.DB as a whole or not at     *)
(* all.  Threads, locks, statements and rows are not seen.                 *)
(***************************************************************************)
CONSTANTS Saves, None

VARIABLES active, saved

vars == <<active, saved>>

Init == active = None /\ saved = {}

Begin(t) ==
  /\ active = None /\ t \notin saved
  /\ active' = t
  /\ UNCHANGED saved

Commit ==
  /\ active # None
  /\ saved' = saved \cup {active}
  /\ active' = None

Abort ==
  /\ active # None
  /\ active' = None
  /\ UNCHANGED saved

Next == Commit \/ Abort \/ \E t \in Saves : Begin(t)

Spec == Init /\ [][Next]_vars
=============================================================================
