----------------------------- MODULE MCDatabase -----------------------------
(***************************************************************************)
(* svslib/maindb.h as a whole, for TLC: the saves of several threads, and  *)
(* a db_query that somebody uses before.  They share nothing, so there is  *)
(* no need to see both of them move in turns.                              *)
(***************************************************************************)
EXTENDS MCSaveTransaction, DbQuery

\* Two statements that share a column, and names with no, one and two rows
QueryColumns == [config |-> {"value"}, files |-> {"id", "value"}]
QueryRows    == [zlib |-> 1, local |-> 1, missing |-> 0, twice |-> 2, null |-> 0]
QueryTexts   == DOMAIN QueryColumns
QueryNames   == DOMAIN QueryRows \ {"null"}

DatabaseInit == Init /\ QueryInit

DatabaseNext ==
  \/ stmt = "none" /\ Next /\ UNCHANGED queryvars
  \/ (\A t \in Saves : pc[t] = "new") /\ QueryNext /\ UNCHANGED vars

\* The threads of the saves are fair, as in FairSpec; nobody waits for the query
DatabaseSpec ==
  /\ DatabaseInit
  /\ [][DatabaseNext]_<<vars, queryvars>>
  /\ \A t \in Saves : WF_vars(~terminated /\ Steps(t))
=============================================================================
