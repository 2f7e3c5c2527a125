------------------------------ MODULE DbTests ------------------------------
(***************************************************************************)
(* The unit tests of dbjsqluser as users of the demo database: the tests   *)
(* run one after the other in the order main.cpp includes them, without    *)
(* those a filter leaves out, and all get the same static database from    *)
(* demo_db().  What one of them does to it, the later ones see.            *)
(*                                                                         *)
(* The test of rezults_db() only reads a database of its own and is left   *)
(* out.  A test that dereferences an empty optional (undefined behaviour)  *)
(* crashes or goes on.                                                     *)
(***************************************************************************)
EXTENDS DbInitor, Sequences

\* The script creates one of the Ids test_wrong_insert inserts again.
ASSUME TestsAssumption == Script >= 6

Tests == <<"simple_select", "error_handling", "longer_test", "whatever">>

VARIABLES
  left,        \* the first test that did not start
  test,        \* the test that runs, or "none"
  asked,       \* it has called demo_db()
  extra,       \* the Ids the tests inserted into entries
  registered,  \* the functions of the connection
  crashed

testVars == <<left, test, asked, extra, registered, crashed>>

(* DROP and CREATE come first, then one INSERT for each Id. *)
HasEntries == applied >= 2
Entries    == {id \in 1..Script : id + 2 <= applied} \cup extra
WrongIds   == 4..6

TestsInit ==
  /\ Init
  /\ left = 1 /\ test = "none" /\ asked = FALSE
  /\ extra = {} /\ registered = {} /\ crashed = FALSE
-----------------------------------------------------------------------------
Ends == test' = "none" /\ asked' = FALSE

Start ==
  /\ test = "none"
  /\ \E t \in left..Len(Tests) : test' = Tests[t] /\ left' = t + 1
  /\ UNCHANGED <<vars, asked, extra, registered, crashed>>

\* The filter leaves out the rest.
Done ==
  /\ test = "none" /\ left <= Len(Tests) /\ left' = Len(Tests) + 1
  /\ UNCHANGED <<vars, test, asked, extra, registered, crashed>>

(* A database of its own; example_callback dereferences texts, which may   *)
(* be NULL in a file it did not make.                                      *)
simple_select ==
  /\ test = "simple_select" /\ Ends
  /\ \E opened \in {DBJ_SQL_VALSTAT_OK("SQLITE_OK")}
                    \cup {DBJ_SQL_VALSTAT_ERR(e) : e \in ErrorCodes} :
       crashed' \in IF is_error_valstat(opened) THEN {opened.status = Nothing} ELSE BOOLEAN
  /\ UNCHANGED <<vars, left, extra, registered>>

\* auto [database, status] = demo_db(), of which the calls below are steps.
Ask ==
  /\ test \notin {"none", "simple_select"} /\ ~asked /\ asked' = TRUE
  /\ demo_db
  /\ UNCHANGED <<left, test, extra, registered, crashed>>

Creation ==
  /\ db_holder \/ refuse \/ exec_statement \/ exec_ends \/ created
  /\ UNCHANGED testVars

Answered == asked /\ pc = "idle"

(* No database: the test prints the status and returns. *)
GivesUp ==
  /\ Answered /\ result.value = Nothing /\ Ends
  /\ crashed' \in {FALSE, result.status = Nothing}
  /\ UNCHANGED <<vars, left, extra, registered>>

Has(name) == Answered /\ result.value # Nothing /\ test = name /\ Ends

(* A mutant of Conflict: the table has no primary key. *)
ConflictNever == FALSE

(* The primary keys are taken. *)
Conflict == WrongIds \cap Entries # {}

(* test_wrong_insert, all of it or nothing; table_info and SELECT only     *)
(* read.                                                                   *)
error_handling ==
  /\ Has("error_handling")
  /\ \/ UNCHANGED extra
     \/ HasEntries /\ ~Conflict /\ extra' = extra \cup WrongIds
  /\ UNCHANGED <<vars, left, registered, crashed>>

(* DBJ_RETURN_ON_SQL_ERROR returns whether there was an error or not, so   *)
(* the first registration is all there is.                                 *)
longer_test ==
  /\ Has("longer_test")
  /\ registered' \in {registered, registered \cup {"palindrome"}}
  /\ UNCHANGED <<vars, left, extra, crashed>>

(* firstchar, then exec() with a callback that dereferences a value its    *)
(* cursor does not have, once there is a row.                              *)
whatever ==
  /\ Has("whatever")
  /\ \/ UNCHANGED <<registered, crashed>>
     \/ /\ registered' = registered \cup {"firstchar"}
        /\ crashed' \in {FALSE, Entries # {}}
  /\ UNCHANGED <<vars, left, extra>>

Test ==
  \/ Start \/ Done \/ simple_select \/ Ask \/ Creation \/ GivesUp
  \/ error_handling \/ longer_test \/ whatever

TestsNext == ~crashed /\ Test
TestsSpec ==
  TestsInit /\ [][TestsNext]_<<vars, testVars>> /\ WF_<<vars, testVars>>(TestsNext)
-----------------------------------------------------------------------------
(* "this SQL is wrong because we already have 4,5,6 as primary keys in     *)
(* that table in the demo db" (basic_tests.h:25): the tests leave a demo  *)
(* database that was made to the end as it was made, so that what a test   *)
(* sees does not depend on the tests before it.                            *)
EntriesAsCreated == applied = Script => extra = {}

(* The test program comes to its end, or crashes. *)
TestsEnd == <>[](crashed \/ (test = "none" /\ left = Len(Tests) + 1))
=============================================================================
