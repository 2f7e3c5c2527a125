------------------------------- MODULE DbjSql -------------------------------
(***************************************************************************)
(* class dbj::sql::database (dbj++sql.h): opening and closing connections, *)
(* query() and exec() with their row callbacks, and the statements these   *)
(* calls, sqlite3_exec and the user of the_db() own.                       *)
(*                                                                         *)
(* One thread runs everything.  The hard part is that a row callback is    *)
(* user code that may call the same database, or another one, before it    *)
(* returns, so calls nest: call[1..depth] is the stack of the calls of     *)
(* query() and of exec() that are under way.  A function the caller        *)
(* registered is user code as well, and runs inside a step of SQLite.      *)
(* User code may also destroy the object whose call it runs under: nothing *)
(* stops it.  The release build is modelled, where DBJ_ASSERT is nothing.  *)
(* SQL text is abstracted to how many statements and rows it has, and      *)
(* SQLite may answer any call with any error.                              *)
(***************************************************************************)
EXTENDS Naturals, FiniteSets, SqliteStatus

CONSTANTS
  Databases,      \* the database objects
  Statements,     \* the native statements that may exist at once
  Null,           \* nullptr
  MaxRows,        \* bound: the rows of a statement
  MaxScript,      \* bound: the statements of its SQL that sqlite3_exec
                  \* runs, or that query() leaves out
  MaxDepth,       \* bound: how deep callbacks call query() and exec() again
  CallbackCodes   \* what callbacks return: "the sqlite err rezult code or
                  \* SQLITE_OK" (dbj++sql.h:343)

ASSUME DbjSqlAssumption ==
  /\ Null \notin Databases \cup Statements
  /\ MaxRows \in Nat /\ MaxScript \in Nat /\ MaxDepth \in Nat
  /\ CallbackCodes \subseteq ErrorCodes \cup {"SQLITE_OK"}

VARIABLES
  object,    \* the life of each database object; db_name() is "UNOPENED"
             \* in that state, the storage name when opened, cleared when failed
  conn,      \* the native connection of each object
  unclosed,  \* the connections left open because sqlite3_close was refused
  stmt,      \* the native statements
  user,      \* the statements prepared by the caller through the_db()
  call,      \* the calls under way, innermost last
  depth,     \* how many they are
  result     \* the valstat returned last

objects == <<object, conn, unclosed>>
vars == <<object, conn, unclosed, stmt, user, call, depth, result>>

NoStmt == [db |-> Null, row |-> 0, rows |-> 0]
Idle   == [op |-> "none", db |-> Null, cursor |-> Null, run |-> Null,
           left |-> 0, sent |-> 0, pc |-> "idle", code |-> "SQLITE_OK"]

Init ==
  /\ object = [d \in Databases |-> "unborn"]
  /\ conn = [d \in Databases |-> "none"]
  /\ unclosed = {}
  /\ stmt = [s \in Statements |-> NoStmt]
  /\ user = {}
  /\ call = [i \in 1..MaxDepth |-> Idle]
  /\ depth = 0
  /\ result = EmptyValstat
-----------------------------------------------------------------------------
Live(s)  == stmt[s].db # Null
Alive(d) == object[d] \in {"UNOPENED", "failed", "opened"}
Handle(d) == Alive(d) /\ conn[d] # "none"        \* if (!handle)

\* User code runs outside of every call, inside a row callback, and inside
\* a function that SQLite calls while it steps.
UserTurn == depth > 0 => call[depth].pc \in {"callback", "udf"}
Running(op, pc) == depth > 0 /\ call[depth].op = op /\ call[depth].pc = pc

\* The codes SQLite may answer on connection d when it does not answer OK.
Refusals(d) == IF conn[d] = "sick" THEN {"SQLITE_MISUSE"} ELSE ErrorCodes

\* Updates of the innermost call.
Go(pc)        == [call EXCEPT ![depth].pc = pc]
ReturnOf(code) == [call EXCEPT ![depth].pc = "return", ![depth].code = code]
Compile(s, d, n) == [stmt EXCEPT ![s] = [db |-> d, row |-> 0, rows |-> n]]
Step(s)       == [stmt EXCEPT ![s].row = @ + 1]
Finalize(s)   == [t \in Statements |-> IF t = s THEN NoStmt ELSE stmt[t]]
-----------------------------------------------------------------------------
(* The two constructors.  sqlite3_open that fails leaves a connection that *)
(* can only be closed ("sick"), or none when there was no memory for it.   *)
DefaultConstruct(d) ==
  /\ UserTurn /\ object[d] = "unborn"
  /\ object' = [object EXCEPT ![d] = "UNOPENED"]
  /\ UNCHANGED <<conn, unclosed, stmt, user, call, depth, result>>

Construct(d) ==
  /\ UserTurn /\ object[d] = "unborn"
  /\ \/ /\ object' = [object EXCEPT ![d] = "opened"]
        /\ conn' = [conn EXCEPT ![d] = "open"]
        /\ result' = DBJ_SQL_VALSTAT_OK("SQLITE_OK")
     \/ /\ object' = [object EXCEPT ![d] = "failed"]
        /\ \E c \in {"sick", "none"} : conn' = [conn EXCEPT ![d] = c]
        /\ \E e \in ErrorCodes : result' = DBJ_SQL_VALSTAT_ERR(e)
  /\ UNCHANGED <<unclosed, stmt, user, call, depth>>

(* Two mutants of Destroy: the handle is not closed; what would make close *)
(* refuse, the statements of the connection, are all finalized before.     *)
DestroyForgets(d) ==
  /\ UserTurn /\ Alive(d)
  /\ object' = [object EXCEPT ![d] = "gone"]
  /\ UNCHANGED <<conn, unclosed, stmt, user, call, depth, result>>

DestroyFinalizes(d) ==
  /\ UserTurn /\ Alive(d)
  /\ object' = [object EXCEPT ![d] = "gone"]
  /\ conn' = [conn EXCEPT ![d] = "none"]
  /\ stmt' = [s \in Statements |-> IF stmt[s].db = d THEN NoStmt ELSE stmt[s]]
  /\ UNCHANGED <<unclosed, user, call, depth, result>>

(* ~database, also from a callback or a function that a call on the same   *)
(* object runs: the rest of that call uses the connection and its own      *)
(* statement, not the object.  sqlite3_close refuses while a statement of  *)
(* the connection exists; the handle is gone all the same.                 *)
Destroy(d) ==
  /\ UserTurn /\ Alive(d)
  /\ object' = [object EXCEPT ![d] = "gone"]
  /\ IF \E s \in Statements : stmt[s].db = d
     THEN unclosed' = unclosed \cup {d} /\ UNCHANGED conn
     ELSE conn' = [conn EXCEPT ![d] = "none"] /\ UNCHANGED unclosed
  /\ UNCHANGED <<stmt, user, call, depth, result>>

(* The caller prepares a statement on the_db(), and finalizes it. *)
UserPrepare(d, s) ==
  /\ UserTurn /\ Handle(d) /\ conn[d] = "open" /\ ~Live(s)
  /\ stmt' = Compile(s, d, 0)
  /\ user' = user \cup {s}
  /\ UNCHANGED <<objects, call, depth, result>>

UserFinalize(s) ==
  /\ UserTurn /\ s \in user
  /\ stmt' = Finalize(s)
  /\ user' = user \ {s}
  /\ UNCHANGED <<objects, call, depth, result>>
-----------------------------------------------------------------------------
(* query, exec and register_user_defined_function on an object that holds  *)
(* no connection, and exec(nullptr) on any.                                *)
Refuse(d) ==
  /\ UserTurn /\ Alive(d)
  /\ result' = DBJ_SQL_VALSTAT_ERR("SQLITE_MISUSE")
  /\ UNCHANGED <<objects, stmt, user, call, depth>>

(* A call that is one call of SQLite, which answers:                       *)
(* register_user_defined_function(), query() or exec() whose statement     *)
(* does not compile, and all of them on a connection that failed to open.  *)
(* Whatever the code, it is the value.                                     *)
OneCall(d) ==
  /\ UserTurn /\ Handle(d)
  /\ \E code \in Refusals(d) \cup (IF conn[d] = "open" THEN {"SQLITE_OK"} ELSE {}) :
       result' = DBJ_SQL_VALSTAT_OK(code)
  /\ UNCHANGED <<objects, stmt, user, call, depth>>

(* query() or exec(), up to the point where the statement_ of the call, if *)
(* it has one, is compiled.                                                *)
Enter(d, op, pc, cursor, left) ==
  /\ UserTurn /\ Handle(d) /\ conn[d] = "open" /\ depth < MaxDepth
  /\ depth' = depth + 1
  /\ call' = [call EXCEPT ![depth + 1] =
                [Idle EXCEPT !.op = op, !.db = d, !.cursor = cursor,
                             !.left = left, !.pc = pc]]
  /\ IF cursor = Null THEN UNCHANGED stmt
     ELSE ~Live(cursor) /\ \E n \in 0..MaxRows : stmt' = Compile(cursor, d, n)
  /\ UNCHANGED <<objects, user, result>>

(* query(): one sqlite3_prepare_v2 with a null pzTail compiles the first   *)
(* statement of the SQL, and nobody ever looks at the others (left).  SQL  *)
(* that is empty compiles to no statement at all.                          *)
query(d) ==
  \/ Enter(d, "query", "step", Null, 0)
  \/ \E s \in Statements, left \in 0..MaxScript : Enter(d, "query", "step", s, left)

(* exec(): sqlite3_exec runs all the statements of the SQL.  Only with a   *)
(* callback is the first also compiled into a statement_ of exec's own; a  *)
(* call with no statement_ is one with no callback, or with empty SQL.     *)
exec(d) ==
  \/ \E left \in 0..MaxScript : Enter(d, "exec", "next", Null, left)
  \/ \E s \in Statements, left \in 1..MaxScript : Enter(d, "exec", "next", s, left)

(* Two mutants of QueryStep: the callback is called before the statement   *)
(* is stepped; the loop does not end at SQLITE_DONE, and the next step     *)
(* starts over.                                                            *)
QueryStepLate(pc) ==
  LET f == call[depth]
      s == f.cursor
  IN
  /\ Running("query", pc)
  /\ \/ /\ s # Null /\ f.sent < stmt[s].rows
        /\ stmt' = IF f.sent = 0 THEN stmt ELSE Step(s)
        /\ call' = [Go("callback") EXCEPT ![depth].sent = @ + 1]
     \/ call' = ReturnOf("SQLITE_DONE") /\ UNCHANGED stmt
  /\ UNCHANGED <<objects, user, depth, result>>

QueryStepRestarts(pc) ==
  LET f == call[depth]
      s == f.cursor
  IN
  /\ Running("query", pc)
  /\ \/ /\ s # Null /\ stmt[s].row < stmt[s].rows
        /\ stmt' = Step(s)
        /\ call' = [Go("callback") EXCEPT ![depth].sent = @ + 1]
     \/ /\ s # Null /\ stmt[s].row = stmt[s].rows
        /\ stmt' = [stmt EXCEPT ![s].row = 0]
        /\ call' = [call EXCEPT ![depth].sent = 0]
     \/ /\ \E e \in IF s = Null THEN {"SQLITE_MISUSE"} ELSE ErrorCodes :
             call' = ReturnOf(e)
        /\ UNCHANGED stmt
  /\ UNCHANGED <<objects, user, depth, result>>

(* The while condition of query(): one sqlite3_step answers, with or       *)
(* without calls of functions in it; one that fails makes the step fail.   *)
(* Stepping no statement is a misuse.                                      *)
QueryStep(pc) ==
  LET f == call[depth]
      s == f.cursor
  IN
  /\ Running("query", pc)
  /\ \/ /\ s # Null /\ stmt[s].row < stmt[s].rows
        /\ stmt' = Step(s)
        /\ call' = [Go("callback") EXCEPT ![depth].sent = @ + 1]
     \/ /\ s # Null /\ stmt[s].row = stmt[s].rows
        /\ call' = ReturnOf("SQLITE_DONE") /\ UNCHANGED stmt
     \/ /\ \E e \in IF s = Null THEN {"SQLITE_MISUSE"} ELSE ErrorCodes :
             call' = ReturnOf(e)
        /\ UNCHANGED stmt
  /\ UNCHANGED <<objects, user, depth, result>>

(* A statement that steps, of query() or of sqlite3_exec, calls functions  *)
(* the caller registered: with what they do, they are one turn of the user.*)
UdfCall ==
  /\ depth > 0 /\ call[depth].pc = "step"
  /\ call[depth].op = "query" => call[depth].cursor # Null
  /\ call' = Go("udf")
  /\ UNCHANGED <<objects, stmt, user, depth, result>>

(* A mutant of QueryCallback: a code that ends the loop is not kept. *)
QueryCallbackForgets(code) ==
  /\ Running("query", "callback")
  /\ call' = IF code = "SQLITE_OK" THEN Go("step") ELSE ReturnOf("SQLITE_OK")
  /\ UNCHANGED <<objects, stmt, user, depth, result>>

(* The callback of query() returns: anything but OK ends the loop. *)
QueryCallback(code) ==
  /\ Running("query", "callback")
  /\ call' = IF code = "SQLITE_OK" THEN Go("step") ELSE ReturnOf(code)
  /\ UNCHANGED <<objects, stmt, user, depth, result>>
-----------------------------------------------------------------------------
(* sqlite3_exec, on behalf of exec(): compile the next statement, ...      *)
ExecNext ==
  LET f == call[depth] IN
  /\ Running("exec", "next")
  /\ \/ /\ f.left = 0
        /\ call' = ReturnOf("SQLITE_OK") /\ UNCHANGED stmt
     \/ /\ f.left > 0
        /\ \E s \in Statements, n \in 0..MaxRows :
             /\ ~Live(s)
             /\ stmt' = Compile(s, f.db, n)
             /\ call' = [Go("step") EXCEPT ![depth].run = s, ![depth].sent = 0,
                                           ![depth].left = @ - 1]
     \/ /\ f.left > 0
        /\ \E e \in ErrorCodes : call' = ReturnOf(e)
        /\ UNCHANGED stmt
  /\ UNCHANGED <<objects, user, depth, result>>

(* ... step it, giving the row to the callback if there is one, and        *)
(* finalize it at the end of its rows or when it fails.                    *)
ExecStep(pc) ==
  LET f == call[depth]
      s == f.run
  IN
  /\ Running("exec", pc)
  /\ \/ /\ stmt[s].row < stmt[s].rows
        /\ stmt' = Step(s)
        /\ call' = [Go(IF f.cursor = Null THEN "step" ELSE "callback")
                      EXCEPT ![depth].sent = @ + 1]
     \/ /\ stmt[s].row = stmt[s].rows
        /\ stmt' = Finalize(s)
        /\ call' = [Go("next") EXCEPT ![depth].run = Null]
     \/ /\ stmt' = Finalize(s)
        /\ \E e \in ErrorCodes : call' = [ReturnOf(e) EXCEPT ![depth].run = Null]
  /\ UNCHANGED <<objects, user, depth, result>>

(* The callback of exec() returns: anything but 0 makes it SQLITE_ABORT. *)
ExecCallback(code) ==
  /\ Running("exec", "callback")
  /\ IF code = "SQLITE_OK"
     THEN call' = Go("step") /\ UNCHANGED stmt
     ELSE /\ stmt' = Finalize(call[depth].run)
          /\ call' = [ReturnOf("SQLITE_ABORT") EXCEPT ![depth].run = Null]
  /\ UNCHANGED <<objects, user, depth, result>>

(* Two mutants of Return: the statement is not finalized; every statement  *)
(* of the connection is, as sqlite3_next_stmt in a loop would do it.       *)
ReturnLeaks ==
  /\ depth > 0 /\ call[depth].pc = "return"
  /\ call' = [call EXCEPT ![depth] = Idle]
  /\ depth' = depth - 1
  /\ result' = DBJ_SQL_VALSTAT_OK(call[depth].code)
  /\ UNCHANGED <<objects, stmt, user>>

ReturnFinalizesAll ==
  /\ depth > 0 /\ call[depth].pc = "return"
  /\ stmt' = [s \in Statements |-> IF stmt[s].db = call[depth].db THEN NoStmt ELSE stmt[s]]
  /\ call' = [call EXCEPT ![depth] = Idle]
  /\ depth' = depth - 1
  /\ result' = DBJ_SQL_VALSTAT_OK(call[depth].code)
  /\ UNCHANGED <<objects, user>>

(* query() or exec() returns: the statement handle is destroyed, and the   *)
(* code is the value, error or not.                                        *)
Return ==
  /\ depth > 0 /\ call[depth].pc = "return"
  /\ stmt' = Finalize(call[depth].cursor)
  /\ call' = [call EXCEPT ![depth] = Idle]
  /\ depth' = depth - 1
  /\ result' = DBJ_SQL_VALSTAT_OK(call[depth].code)
  /\ UNCHANGED <<objects, user>>

(* What user code does on its turn; what the library and SQLite do. *)
User ==
  \/ \E d \in Databases :
       \/ DefaultConstruct(d) \/ Construct(d) \/ Destroy(d)
       \/ Refuse(d) \/ OneCall(d) \/ query(d) \/ exec(d)
       \/ \E s \in Statements : UserPrepare(d, s)
  \/ \E s \in Statements : UserFinalize(s)

Library  == QueryStep("step") \/ ExecNext \/ ExecStep("step") \/ UdfCall \/ Return
Callback == \E code \in CallbackCodes : QueryCallback(code) \/ ExecCallback(code)
UdfReturn == QueryStep("udf") \/ ExecStep("udf")

Next == User \/ Library \/ Callback \/ UdfReturn
Spec == Init /\ [][Next]_vars

(* The thread runs on, and a callback or a function called over and over   *)
(* comes back at last from each of its calls, nested calls or not.         *)
FairSpec ==
  /\ Spec
  /\ WF_vars(Library)
  /\ \A i \in 1..MaxDepth : SF_vars(depth = i /\ (Callback \/ UdfReturn))
-----------------------------------------------------------------------------
Calls == 1..depth
Owns(i, s) == s = call[i].cursor \/ s = call[i].run

Statement == [db : Databases \cup {Null}, row : 0..MaxRows, rows : 0..MaxRows]
Frame ==
  [op     : {"none", "query", "exec"},
   db     : Databases \cup {Null},
   cursor : Statements \cup {Null},
   run    : Statements \cup {Null},
   left   : 0..MaxScript,
   sent   : 0..MaxRows,
   pc     : {"idle", "next", "step", "udf", "callback", "return"},
   code   : Codes]

TypeOK ==
  /\ object \in [Databases -> {"unborn", "UNOPENED", "opened", "failed", "gone"}]
  /\ conn \in [Databases -> {"none", "open", "sick"}]
  /\ unclosed \subseteq Databases
  /\ stmt \in [Statements -> Statement]
  /\ user \subseteq Statements
  /\ depth \in 0..MaxDepth
  /\ call \in [1..MaxDepth -> Frame]
  /\ result \in Valstat

(* Every statement that exists has exactly one owner: the caller that      *)
(* prepared it, the statement_ of one call of query() or exec(), or the    *)
(* sqlite3_exec under one call; and everything owned exists.  A statement  *)
(* without owner would make the connection impossible to close, one with   *)
(* two would be finalized twice.                                           *)
StatementsAccounted ==
  /\ \A s \in Statements : Live(s) <=> s \in user \/ \E i \in Calls : Owns(i, s)
  /\ \A s \in Statements, i \in Calls :
       Owns(i, s) => s \notin user /\ \A j \in Calls : Owns(j, s) => j = i
  /\ \A i \in Calls : call[i].run # Null => call[i].run # call[i].cursor

(* While a callback of query() runs, however deep in other calls, the      *)
(* cursor_iterator it was given is over a statement that stands on the row *)
(* whose id it was given (row_counter++), "the *current* row".             *)
QueryCursorOnRow ==
  \A i \in Calls :
    (call[i].op = "query" /\ call[i].pc = "callback") =>
      /\ call[i].cursor # Null
      /\ stmt[call[i].cursor].db = call[i].db
      /\ stmt[call[i].cursor].row = call[i].sent /\ call[i].sent > 0

(* The same of the cursor_iterator exec() gives its callback as the first  *)
(* argument, which naked_udf.h:53-57 reads.                                *)
ExecCursorOnRow ==
  \A i \in Calls :
    (call[i].op = "exec" /\ call[i].pc = "callback") =>
      call[i].cursor # Null /\ stmt[call[i].cursor].row = call[i].sent

(* A code that is no error ("no error is SQLITE_DONE or SQLITE_OK",        *)
(* dbj++sql.h:459) means that query() gave the callback every row of the   *)
(* statement it compiled, the first of its SQL, and that exec() ran every  *)
(* statement of its SQL to its end: neither a failed step nor a callback   *)
(* that stopped the traversal is ever reported as success.                 *)
NoSilentTruncation ==
  \A i \in Calls :
    (call[i].pc = "return" /\ ~is_sqlite_error(call[i].code)) =>
      IF call[i].op = "query"
      THEN /\ call[i].cursor # Null
           /\ call[i].sent = stmt[call[i].cursor].rows
      ELSE call[i].left = 0 /\ call[i].run = Null

(* ... and that nothing of the SQL was left out.  query() cannot say so of *)
(* SQL with more than one statement (dbj++sql.h:390-395).                  *)
AllStatementsRun ==
  \A i \in Calls :
    (call[i].pc = "return" /\ ~is_sqlite_error(call[i].code)) => call[i].left = 0

(* The connection of a call of query() or exec() stays open until the call *)
(* returns, although its callbacks and functions may destroy the database  *)
(* object it was called on: whenever they run, a statement of every call   *)
(* under way exists, so that sqlite3_close in ~database refuses.           *)
CallsOnOpenConnections ==
  /\ \A i \in Calls : conn[call[i].db] = "open"
  /\ \A s \in Statements : Live(s) => conn[stmt[s].db] = "open"

(* Destroying a database leaves its connection open only if the caller has *)
(* statements of its own on it, or does so from within a call of the same  *)
(* database: the library's statements are all finalized by then.           *)
CloseFailsOnlyInUse ==
  [][\A d \in Databases :
       d \in unclosed' \ unclosed =>
         \/ \E s \in user : stmt[s].db = d
         \/ \E i \in Calls : call[i].db = d]_vars

(* An error a caller gets is one print_on_sql_error prints: "thus the      *)
(* caller will be notified" (basic_tests.h:26).                            *)
NotifiedOnError ==
  (result # EmptyValstat /\ is_error_valstat(result)) => prints_error(result)

(* The handle in the object of every database, and the statement_ of every *)
(* call, obey the ownership protocol of unique_handle.                     *)
ConnHandles == INSTANCE UniqueHandle WITH
  Handles <- Databases, Resources <- Databases, CloseMayFail <- TRUE,
  m_value <- [d \in Databases |-> IF Handle(d) THEN d ELSE Null],
  open <- {d \in Databases : conn[d] # "none"},
  raw <- {}, reported <- {}

StmtHandles == INSTANCE UniqueHandle WITH
  Handles <- 1..MaxDepth, Resources <- Statements, CloseMayFail <- FALSE,
  m_value <- [i \in 1..MaxDepth |-> call[i].cursor],
  open <- {s \in Statements : Live(s)},
  raw <- user \cup ({call[i].run : i \in 1..MaxDepth} \ {Null}),
  unclosed <- {}, reported <- {}

ConnectionOwnership == ConnHandles!Spec
StatementOwnership  == StmtHandles!Spec

(* Every call of query() and exec() returns, if the callbacks and functions*)
(* do.                                                                     *)
CallsReturn == \A i \in 1..MaxDepth : (depth = i) ~> (depth < i)
=============================================================================
