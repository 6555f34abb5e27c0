------------------------------- MODULE DbQuery -------------------------------
(***************************************************************************)
(* A db_query (svslib/maindb.h): a prepared statement that is bound,       *)
(* stepped, read and reset again and again, with a cache of column names   *)
(* beside it.  Three things can be out of step with one another: the       *)
(* parameter bound last, the execution whose rows are delivered, and the   *)
(* names in the cache.                                                     *)
(*                                                                         *)
(* SQLite, as used here: a statement can be bound only while it is ready;  *)
(* stepping one that has ended starts it again with what is bound; a       *)
(* reset hands out the error of a step that has failed.                    *)
(***************************************************************************)
EXTENDS Naturals, FiniteSets

CONSTANTS
  Queries,          \* the SQL texts
  Columns,          \* their result columns, at least one and none called "#":
                    \* a function on Queries
  Params,           \* the values of the parameter
  RowCount,         \* how many rows match a parameter, or Null if there is none
  Null

VARIABLES
  stmt,             \* "none", "ready", "row", "ended" or "failed"
  sql,              \* what was prepared
  bound,            \* the parameter, as bound last
  source, left,     \* the execution: its parameter, the rows still to come
  colnames,         \* the cache; "#" is run_one's name for column 0
  result,           \* of the last operation
  use               \* since the last setup() or reset(): "clean", or rows
                    \* were "stepped" through, or something has "thrown"

execution == <<stmt, bound, source, left>>
queryvars == <<execution, sql, colnames, result, use>>

\* Results: nothing to tell; an exception; a value, for a parameter
Ok                 == [k |-> "ok"]
Error(e)           == [k |-> "error", what |-> e]
NoColumn(name)     == [k |-> "invalid column name", name |-> name]
Value(asked, from) == [k |-> "value", asked |-> asked, from |-> from]

QueryInit ==
  /\ stmt = "none" /\ sql = Null /\ bound = Null /\ source = Null /\ left = 0
  /\ colnames = {} /\ result = Ok /\ use = "clean"

Throws(e)   == result' = e /\ use' = "thrown"
Returns(r)  == result' = r /\ UNCHANGED use
Finishes(r) == result' = r /\ use' = "clean"     \* it has reset the statement

-----------------------------------------------------------------------------
(* An execution e == [stmt, bound, source, left] and what SQLite makes of  *)
(* it.                                                                     *)

Now == [stmt |-> stmt, bound |-> bound, source |-> source, left |-> left]

Become(e) ==
  stmt' = e.stmt /\ bound' = e.bound /\ source' = e.source /\ left' = e.left

Bound(e, x) == IF e.stmt = "ready" THEN [e EXCEPT !.bound = x] ELSE e

\* The first step of an execution decides which rows there are
Started(e) ==
  IF e.stmt = "row" THEN e
  ELSE [e EXCEPT !.source = e.bound, !.left = RowCount[e.bound]]

Stepped(e) ==
  LET b == Started(e)
  IN IF b.left > 0 THEN [b EXCEPT !.stmt = "row", !.left = @ - 1]
                   ELSE [b EXCEPT !.stmt = "ended"]

ResetTo(e) == [e EXCEPT !.stmt = "ready", !.source = Null, !.left = 0]

-----------------------------------------------------------------------------
(* The operations.                                                         *)

\* Mutant: the cache survives
SetupKeepingNames(q) ==
  /\ stmt' = "ready" /\ sql' = q /\ bound' = Null /\ source' = Null /\ left' = 0
  /\ UNCHANGED colnames
  /\ Finishes(Ok)

setup(q) ==
  /\ stmt' = "ready" /\ sql' = q /\ bound' = Null /\ source' = Null /\ left' = 0
  /\ colnames' = {}
  /\ Finishes(Ok)

\* The old statement is finalized, the new one is not there, the names stay
setupError ==
  /\ stmt' = "none" /\ sql' = Null /\ bound' = Null /\ source' = Null /\ left' = 0
  /\ UNCHANGED colnames
  /\ Throws(Error("syntax"))

\* Resetting no statement is no error
reset ==
  /\ Become(IF stmt = "none" THEN Now ELSE ResetTo(Now))
  /\ IF stmt = "failed" THEN Throws(Error("step")) /\ UNCHANGED colnames
                        ELSE Finishes(Ok) /\ colnames' = {}
  /\ UNCHANGED sql

bind(x) ==
  /\ stmt # "none"
  /\ Become(Bound(Now, x))
  /\ IF stmt = "ready" THEN Returns(Ok) ELSE Throws(Error("misuse"))
  /\ UNCHANGED <<sql, colnames>>

step ==
  /\ stmt # "none"
  /\ Become(Stepped(Now))
  /\ result' = Ok /\ use' = IF use = "thrown" THEN use ELSE "stepped"
  /\ UNCHANGED <<sql, colnames>>

\* A step fails, run_one's second one after its "#" has gone into the cache
stepError ==
  /\ stmt # "none"
  /\ Become([Started(Now) EXCEPT !.stmt = "failed"])
  /\ colnames' \in {colnames} \cup (IF left' > 0 THEN {colnames \cup {"#"}} ELSE {})
  /\ Throws(Error("step"))
  /\ UNCHANGED sql

\* bind, step and everything that steps, before a setup() or after one that has
\* thrown
noStatement ==
  /\ stmt = "none"
  /\ Throws(Error("misuse"))
  /\ UNCHANGED <<execution, sql, colnames>>

\* A statement that is expected to deliver nothing
run ==
  /\ stmt # "none"
  /\ IF Stepped(Now).stmt = "row"
     THEN Become(Stepped(Now)) /\ Throws(Error("not an update")) /\ UNCHANGED colnames
     ELSE Become(ResetTo(Stepped(Now))) /\ Finishes(Ok) /\ colnames' = {}
  /\ UNCHANGED sql

\* get and get_blob: prepare() fills an empty cache, column_id looks it up.  No
\* row is needed: without one the value is empty, and of the wrong size.
get(name) ==
  /\ LET names == IF colnames = {} /\ stmt # "none" THEN Columns[sql] ELSE colnames
     IN /\ colnames' = names
        /\ IF name \in names THEN Returns(Ok) \/ Throws(Error("blob size mismatch"))
                             ELSE Throws(NoColumn(name))
  /\ UNCHANGED <<execution, sql>>

\* Mutant: run_one does not reset the statement
RunOneWithoutReset(e, asked) ==
  LET first == Stepped(e)  second == Stepped(first)
  IN IF first.stmt # "row"
     THEN Become(first) /\ Throws(Error("no data returned")) /\ UNCHANGED colnames
     ELSE /\ Become(second)
          /\ colnames' = colnames \cup {"#"}
          /\ IF second.stmt = "row" THEN Throws(Error("too many data returned"))
                                    ELSE Finishes(Value(asked, first.source))

\* run_one on the execution e: one row, and the statement is ready again -
\* but not if there is none, or a second one
RunOne(e, asked) ==
  LET first == Stepped(e)  second == Stepped(first)
  IN IF first.stmt # "row"
     THEN Become(first) /\ Throws(Error("no data returned")) /\ UNCHANGED colnames
     ELSE IF second.stmt = "row"
     THEN /\ Become(second) /\ Throws(Error("too many data returned"))
          /\ colnames' = colnames \cup {"#"}
     ELSE Become(ResetTo(second)) /\ Finishes(Value(asked, first.source)) /\ colnames' = {}

run_one == stmt # "none" /\ RunOne(Now, bound) /\ UNCHANGED sql

\* sqlite3_bind_text's result is not looked at
run_one_inline(x) == stmt # "none" /\ RunOne(Bound(Now, x), x) /\ UNCHANGED sql

QueryNext ==
  \/ \E q \in Queries : setup(q)
  \/ setupError \/ reset \/ step \/ stepError \/ noStatement \/ run \/ run_one
  \/ \E x \in Params : bind(x) \/ run_one_inline(x)
  \/ \E name \in UNION {Columns[q] : q \in Queries} : get(name)

QuerySpec == QueryInit /\ [][QueryNext]_queryvars

-----------------------------------------------------------------------------
(* Properties.                                                             *)

\* On a statement that was set up or reset and has only been run since,
\* run_one_inline delivers the value of the name it was given: run_one leaves
\* the statement where the next bind takes effect, which is not looked at.
OwnAnswer ==
  [][use = "clean" /\ result'.k = "value" => result'.from = result'.asked]_queryvars

\* A column of the statement is found whatever was set up, read and run before
\* it: run_one's "#" does not keep the cache from being filled again.
ColumnsFound ==
  [][stmt # "none" /\ use # "thrown" /\ result'.k = "invalid column name"
       => result'.name \notin Columns[sql]]_queryvars

\* The cache never holds a name of another statement than the one that will
\* be stepped next, also after errors.
NamesOfStatement == stmt # "none" => colnames \subseteq Columns[sql] \cup {"#"}
=============================================================================
