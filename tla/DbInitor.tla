------------------------------ MODULE DbInitor ------------------------------
(***************************************************************************)
(* How the users of the library obtain their database: demo_db() and       *)
(* rezults_db() (tests/test_db.h), which are the same code for two         *)
(* databases, and db_initor() (dbj++sql.h) which both call.  The database  *)
(* object and the valstat that is returned are function-local statics: the *)
(* first caller makes them, all later callers get them.                    *)
(*                                                                         *)
(* SQLite runs the creation SQL one statement at a time, and may fail at   *)
(* any of them; what ran before stays.                                     *)
(***************************************************************************)
EXTENDS Naturals, SqliteStatus

CONSTANT Script    \* the number of statements in the creation SQL

ASSUME ScriptAssumption == Script \in Nat \ {0}

VARIABLES
  db,         \* the static database object of the holder
  applied,    \* how many creation statements have run
  instance_,  \* the static valstat, Unset before its initialisation
  pc,         \* where the call of demo_db() is
  status,     \* sqlite3_status in db_initor
  vs,         \* vs_ in db_initor
  result      \* what the last call of demo_db() returned

vars == <<db, applied, instance_, pc, status, vs, result>>

\* The value of a db_valstat is the reference to the database.
Unset        == [value |-> "unset", status |-> Nothing]
Dbref        == [value |-> "dbref", status |-> Nothing]
NoDb(st)     == [value |-> Nothing, status |-> st]
DbValstat    == {Unset, Dbref} \cup {NoDb(st) : st \in Codes \cup {Nothing}}

Init ==
  /\ db = "unborn" /\ applied = 0
  /\ instance_ = Unset /\ result = Unset
  /\ pc = "idle" /\ status = EmptyValstat /\ vs = EmptyValstat
-----------------------------------------------------------------------------
(* A mutant of demo_db: instance_ is not static. *)
demo_db_each_time ==
  /\ pc = "idle" /\ pc' = "holder"
  /\ status' = EmptyValstat
  /\ UNCHANGED <<db, applied, instance_, vs, result>>

(* A call of demo_db(): only the first runs db_initor. *)
demo_db ==
  /\ pc = "idle"
  /\ IF instance_ = Unset
     THEN /\ pc' = "holder" /\ status' = EmptyValstat
          /\ UNCHANGED result
     ELSE result' = instance_ /\ UNCHANGED <<pc, status>>
  /\ UNCHANGED <<db, applied, instance_, vs>>

(* A mutant of db_holder: the code of a failed open is the value. *)
db_holder_value ==
  /\ pc = "holder"
  /\ IF db = "unborn"
     THEN \/ db' = "open" /\ status' = DBJ_SQL_VALSTAT_OK("SQLITE_OK")
          \/ db' = "failed" /\ \E e \in ErrorCodes : status' = DBJ_SQL_VALSTAT_OK(e)
     ELSE UNCHANGED <<db, status>>
  /\ pc' = IF status'.value = Nothing THEN "refuse" ELSE "exec"
  /\ UNCHANGED <<applied, instance_, vs, result>>

(* db_initor: the holder makes the database object the first time it is    *)
(* called, and leaves sqlite3_status alone every other time.  Without a    *)
(* value the status is all there is to return.                             *)
db_holder ==
  /\ pc = "holder"
  /\ IF db = "unborn"
     THEN \/ db' = "open" /\ status' = DBJ_SQL_VALSTAT_OK("SQLITE_OK")
          \/ db' = "failed" /\ \E e \in ErrorCodes : status' = DBJ_SQL_VALSTAT_ERR(e)
     ELSE UNCHANGED <<db, status>>
  /\ pc' = IF status'.value = Nothing THEN "refuse" ELSE "exec"
  /\ UNCHANGED <<applied, instance_, vs, result>>

(* A mutant of refuse: the holder is asked again. *)
refuse_retries ==
  /\ pc = "refuse" /\ pc' = "holder"
  /\ UNCHANGED <<db, applied, instance_, status, vs, result>>

refuse ==
  /\ pc = "refuse" /\ pc' = "idle"
  /\ instance_' = NoDb(status.status) /\ result' = instance_'
  /\ UNCHANGED <<db, applied, status, vs>>

(* dbref.get().exec(SQL): one statement; then the end of the script, or a  *)
(* statement that fails.                                                   *)
exec_statement ==
  /\ pc = "exec" /\ applied < Script
  /\ applied' = applied + 1
  /\ UNCHANGED <<db, instance_, pc, status, vs, result>>

exec_ends ==
  /\ pc = "exec" /\ pc' = "created"
  /\ \/ applied = Script /\ vs' = DBJ_SQL_VALSTAT_OK("SQLITE_OK")
     \/ applied < Script /\ \E e \in ErrorCodes : vs' = DBJ_SQL_VALSTAT_OK(e)
  /\ UNCHANGED <<db, applied, instance_, status, result>>

(* A mutant of created: a creation that failed returns no value. *)
created_returns_vs ==
  /\ pc = "created" /\ pc' = "idle"
  /\ instance_' = IF is_error_valstat(vs) THEN NoDb(vs.status) ELSE Dbref
  /\ result' = instance_'
  /\ UNCHANGED <<db, applied, status, vs>>

(* if (!vs_.value) ...; success otherwise. *)
created ==
  /\ pc = "created" /\ pc' = "idle"
  /\ instance_' = IF vs.value = Nothing THEN NoDb(vs.status) ELSE Dbref
  /\ result' = instance_'
  /\ UNCHANGED <<db, applied, status, vs>>

Next ==
  \/ demo_db \/ db_holder \/ refuse \/ exec_statement \/ exec_ends \/ created

Spec == Init /\ [][Next]_vars
-----------------------------------------------------------------------------
TypeOK ==
  /\ db \in {"unborn", "open", "failed"}
  /\ applied \in 0..Script
  /\ instance_ \in DbValstat /\ result \in DbValstat
  /\ pc \in {"idle", "holder", "refuse", "exec", "created"}
  /\ status \in Valstat /\ vs \in Valstat

(* A caller that gets no database gets a status: every caller prints       *)
(* status->data() then (basic_tests.h, naked_udf.h).  It rests on the      *)
(* statics, since a holder called again leaves the status empty, and on    *)
(* exec() having no value only when it has a status.                       *)
StatusWhenNoValue ==
  (result # Unset /\ result.value = Nothing) => result.status # Nothing

(* A caller that gets a database gets one whose connection is open.        *)
ValueIsOpen == result = Dbref => db = "open"

(* All callers get the same answer as the first.                           *)
CallersAgree == [][result # Unset => result' = result]_vars

(* "at last success" (dbj++sql.h:847): a database is returned only when    *)
(* its creation SQL has run to the end.                                    *)
CreatedOnSuccess == result = Dbref => applied = Script
=============================================================================
