---------------------------- MODULE SqliteStatus ----------------------------
(***************************************************************************)
(* The value/status pair ("valstat") every dbj::sql operation returns, and *)
(* the classification of SQLite result codes it rests on                   *)
(* (dbj--sqlite/sqlite_valstat.h).  A result code is a string, a message   *)
(* is the code it was made from, std::nullopt is Nothing.                  *)
(***************************************************************************)
CONSTANT ErrorCodes    \* the error codes SQLite may answer with

NonErrors == {"SQLITE_OK", "SQLITE_ROW", "SQLITE_DONE"}

ASSUME ErrorCodesAssumption ==
  /\ {"SQLITE_MISUSE", "SQLITE_ABORT"} \subseteq ErrorCodes
  /\ ErrorCodes \cap NonErrors = {}
  /\ "nullopt" \notin ErrorCodes

Codes   == NonErrors \cup ErrorCodes
Nothing == "nullopt"

Valstat == [value : Codes \cup {Nothing}, status : Codes \cup {Nothing}]

DBJ_SQL_VALSTAT_ERR(code) == [value |-> Nothing, status |-> code]
DBJ_SQL_VALSTAT_OK(v)     == [value |-> v, status |-> Nothing]

\* A valstat nobody assigned: both halves are empty.
EmptyValstat == [value |-> Nothing, status |-> Nothing]

is_sqlite_error(code) == code \notin NonErrors

\* No value at all is an error; a value is one when SQLite says so.
is_error_valstat(vs) == vs.value = Nothing \/ is_sqlite_error(vs.value)

\* print_on_sql_error looks at the status half only.
prints_error(vs) == vs.status # Nothing
=============================================================================
