---------------------------- MODULE DbjSqlProofs ----------------------------
(***************************************************************************)
(* The invariants of the database class, for any number of objects and of  *)
(* statements, any depth of nesting, any script and any answers of SQLite, *)
(* and the two refinements of the ownership protocol of unique_handle.     *)
(***************************************************************************)
EXTENDS DbjSql, TLAPS

\* The shape of the stack of calls: nothing above its top; below it, calls
\* whose callback or function runs; each call as query() and exec() leave it.
Stack ==
  /\ \A i \in 1..MaxDepth : i > depth => call[i] = Idle
  /\ \A i \in Calls :
       /\ call[i].op \in {"query", "exec"} /\ call[i].db \in Databases
       /\ i < depth => call[i].pc \in {"callback", "udf"}
       /\ call[i].op = "query" =>
            call[i].pc \in {"step", "udf", "callback", "return"} /\ call[i].run = Null
       /\ call[i].op = "exec" =>
            /\ call[i].pc \in {"next", "step", "udf", "callback", "return"}
            /\ call[i].run # Null <=> call[i].pc \in {"step", "udf", "callback"}

\* How far the statement of a query() has got is what it gave its callback;
\* user code runs only in a call that has a statement.
Progress ==
  /\ \A s \in Statements : stmt[s].row <= stmt[s].rows
  /\ \A i \in Calls :
       IF call[i].cursor # Null
       THEN /\ stmt[call[i].cursor].db = call[i].db
            /\ call[i].op = "query" => stmt[call[i].cursor].row = call[i].sent
       ELSE call[i].op = "query" => call[i].pc \notin {"callback", "udf"}
  /\ \A i \in Calls :
       /\ (call[i].op = "query" /\ call[i].pc = "callback") => call[i].sent > 0
       /\ call[i].run # Null => /\ stmt[call[i].run].row = call[i].sent
                                /\ stmt[call[i].run].db = call[i].db

\* A connection exists only once its object has been opened.
Unborn ==
  \A d \in Databases : object[d] \in {"unborn", "UNOPENED"} => conn[d] = "none"

IInv == /\ TypeOK /\ Stack /\ Progress /\ Unborn
        /\ StatementsAccounted /\ CallsOnOpenConnections /\ NoSilentTruncation

USE DbjSqlAssumption, ErrorCodesAssumption

LEMMA InitIInv == Init => IInv
<1> SUFFICES ASSUME Init PROVE IInv
  OBVIOUS
<1>1. TypeOK
  BY DEF Init, TypeOK, Statement, Frame, NoStmt, Idle, Codes, NonErrors, Valstat, EmptyValstat, Nothing
<1>2. Stack /\ Progress /\ Unborn /\ NoSilentTruncation
  BY DEF Init, Stack, Progress, Unborn, NoSilentTruncation, Calls, NoStmt
<1>3. StatementsAccounted /\ CallsOnOpenConnections
  BY DEF Init, StatementsAccounted, CallsOnOpenConnections, Calls, Live, NoStmt, Owns
<1>. QED  BY <1>1, <1>2, <1>3 DEF IInv

\* Whenever user code runs, every call under way has a statement on its
\* connection, which therefore cannot be closed.
LEMMA CallsHaveStatements ==
  ASSUME IInv, UserTurn, NEW i \in Calls
  PROVE  \E s \in Statements : stmt[s].db = call[i].db
<1>1. /\ i \in 1..MaxDepth /\ depth \in Nat /\ depth > 0 /\ i <= depth
      /\ call[i] \in Frame
  BY DEF Calls, IInv, TypeOK
<1>2. call[i].pc \in {"callback", "udf"} /\ call[i].op \in {"query", "exec"}
  BY <1>1 DEF UserTurn, IInv, Stack
<1>3. call[i].cursor \in Statements \cup {Null} /\ call[i].run \in Statements \cup {Null}
  BY <1>1 DEF Frame
<1>4. CASE call[i].op = "query"
  BY <1>2, <1>3, <1>4 DEF IInv, Progress
<1>5. CASE call[i].op = "exec"
  <2>1. call[i].run # Null
    BY <1>2, <1>5 DEF IInv, Stack
  <2>. QED  BY <1>3, <2>1 DEF IInv, Progress
<1>. QED  BY <1>2, <1>4, <1>5

\* The object of a database and its connection change; no call moves.
LEMMA ObjectSteps ==
  ASSUME IInv, NEW d \in Databases,
         DefaultConstruct(d) \/ Construct(d) \/ Destroy(d) \/ Refuse(d) \/ OneCall(d)
  PROVE  IInv'
<1>1. UNCHANGED <<stmt, user, call, depth>>
  BY DEF DefaultConstruct, Construct, Destroy, Refuse, OneCall, objects
<1>2. TypeOK'
  <2>1. result' \in Valstat
    BY DEF IInv, TypeOK, Statement, Frame, DefaultConstruct, Construct, Destroy, Refuse, OneCall, Valstat,
           DBJ_SQL_VALSTAT_OK, DBJ_SQL_VALSTAT_ERR, Codes, NonErrors, Refusals
  <2>2. /\ object' \in [Databases -> {"unborn", "UNOPENED", "opened", "failed", "gone"}]
        /\ conn' \in [Databases -> {"none", "open", "sick"}]
        /\ unclosed' \subseteq Databases
    <3>1. /\ object \in [Databases -> {"unborn", "UNOPENED", "opened", "failed", "gone"}]
          /\ conn \in [Databases -> {"none", "open", "sick"}]
          /\ unclosed \subseteq Databases
      BY DEF IInv, TypeOK, Statement, Frame
    <3>2. CASE DefaultConstruct(d) \/ Refuse(d) \/ OneCall(d)
      BY <3>1, <3>2 DEF DefaultConstruct, Refuse, OneCall, objects
    <3>3. CASE Construct(d)
      BY <3>1, <3>3 DEF Construct
    <3>4. CASE Destroy(d)
      BY <3>1, <3>4 DEF Destroy
    <3>. QED  BY <3>2, <3>3, <3>4
  <2>. QED  BY <1>1, <2>1, <2>2 DEF IInv, TypeOK, Statement, Frame
<1>3. Unborn'
  BY DEF IInv, TypeOK, Statement, Frame, Unborn, DefaultConstruct, Construct, Destroy, Refuse, OneCall,
         objects, Alive
<1>4. CallsOnOpenConnections'
  <2>1. \A c \in Databases :
          c # d => object'[c] = object[c] /\ conn'[c] = conn[c]
    BY DEF IInv, TypeOK, Statement, Frame, DefaultConstruct, Construct, Destroy, Refuse, OneCall, objects
  <2>2. CASE object[d] = "unborn"
    <3>1. \A i \in Calls : call[i].db \in Databases \ {d}
      BY <2>2 DEF IInv, Stack, Unborn, CallsOnOpenConnections, Calls
    <3>2. \A s \in Statements : stmt[s].db # Null => stmt[s].db \in Databases \ {d}
      BY <2>2 DEF IInv, TypeOK, Statement, Frame, Unborn, CallsOnOpenConnections, Live
    <3>. QED
      BY <1>1, <2>1, <3>1, <3>2 DEF IInv, CallsOnOpenConnections, Live, Calls
  <2>3. CASE Destroy(d)
    <3>1. \A i \in Calls : call[i].db \in Databases
      BY DEF IInv, Stack
    <3>2. conn'[d] = conn[d] \/ \A s \in Statements : stmt[s].db # d
      BY <2>3 DEF Destroy, IInv, TypeOK
    <3>3. conn'[d] = conn[d] \/ \A i \in Calls : call[i].db # d
      BY <2>3, <3>2, CallsHaveStatements DEF Destroy
    <3>4. Calls' = Calls /\ call' = call /\ stmt' = stmt
      BY <1>1 DEF Calls
    <3>5. \A i \in Calls : conn'[call[i].db] = "open"
      BY <2>1, <3>1, <3>3 DEF IInv, CallsOnOpenConnections
    <3>6. \A s \in Statements : stmt[s].db # Null => conn'[stmt[s].db] = "open"
      <4>1. \A s \in Statements : stmt[s].db \in Databases \cup {Null}
        BY DEF IInv, TypeOK, Statement
      <4>. QED  BY <2>1, <3>2, <4>1 DEF IInv, CallsOnOpenConnections, Live
    <3>. QED  BY <3>4, <3>5, <3>6 DEF CallsOnOpenConnections, Live
  <2>4. CASE Refuse(d) \/ OneCall(d)
    BY <1>1, <2>4 DEF Refuse, OneCall, IInv, CallsOnOpenConnections, Live, Calls, objects
  <2>. QED  BY <2>2, <2>3, <2>4 DEF DefaultConstruct, Construct
<1>5. (Stack /\ Progress /\ StatementsAccounted /\ NoSilentTruncation)'
  BY <1>1 DEF IInv, Stack, Progress, StatementsAccounted, NoSilentTruncation, Calls, Live, Owns
<1>. QED  BY <1>2, <1>3, <1>4, <1>5 DEF IInv

\* The caller's own statements: no call owns them.
LEMMA UserSteps ==
  ASSUME IInv, NEW s \in Statements,
         UserFinalize(s) \/ \E d \in Databases : UserPrepare(d, s)
  PROVE  IInv'
<1>1. UNCHANGED <<objects, call, depth, result>>
  BY DEF UserFinalize, UserPrepare
<1>2. /\ \A t \in Statements \ {s} : stmt'[t] = stmt[t]
      /\ \/ stmt'[s] = NoStmt /\ user' = user \ {s} /\ s \in user
         \/ /\ ~Live(s) /\ user' = user \cup {s}
            /\ \E d \in Databases : conn[d] = "open" /\ stmt'[s] = [db |-> d, row |-> 0, rows |-> 0]
      /\ stmt' \in [Statements -> Statement]
  BY DEF IInv, TypeOK, Statement, Frame, UserFinalize, UserPrepare, Finalize, Compile, NoStmt
<1>3. TypeOK'
  BY <1>1, <1>2 DEF IInv, TypeOK, Statement, Frame, objects
<1>4. \A i \in Calls : ~Owns(i, s)
  BY <1>2 DEF IInv, TypeOK, Statement, Frame, StatementsAccounted, Live
<1>5. Stack' /\ Unborn'
  BY <1>1 DEF IInv, Stack, Unborn, Calls, objects
<1>6. StatementsAccounted'
  <2>1. \A t \in Statements \ {s} : (stmt'[t].db # Null <=> stmt[t].db # Null)
    BY <1>2
  <2>2. s \in user' <=> stmt'[s].db # Null
    BY <1>2 DEF IInv, TypeOK, Statement, Frame, NoStmt
  <2>3. \A t \in Statements \ {s} : t \in user' <=> t \in user
    BY <1>2
  <2>4. user' \subseteq Statements
    BY <1>2 DEF IInv, TypeOK, Statement, Frame
  <2>. QED
    BY <1>1, <1>4, <2>1, <2>2, <2>3, <2>4 DEF IInv, StatementsAccounted, Live, Owns, Calls
<1>7. Progress' /\ NoSilentTruncation'
  <2>1. \A t \in Statements : stmt'[t].row <= stmt'[t].rows
    BY <1>2 DEF IInv, Progress, NoStmt
  <2>2. \A i \in Calls :
          /\ call[i].cursor # Null => stmt'[call[i].cursor] = stmt[call[i].cursor]
          /\ call[i].run # Null => stmt'[call[i].run] = stmt[call[i].run]
    BY <1>2, <1>4 DEF IInv, TypeOK, Statement, Frame, Calls, Owns
  <2>. QED
    BY <1>1, <2>1, <2>2 DEF IInv, Progress, NoSilentTruncation, Calls
<1>8. CallsOnOpenConnections'
  <2>1. \A t \in Statements : stmt'[t].db # Null => conn[stmt'[t].db] = "open"
    BY <1>2 DEF IInv, CallsOnOpenConnections, Live, NoStmt
  <2>. QED
    BY <1>1, <2>1 DEF IInv, CallsOnOpenConnections, Live, Calls, objects
<1>. QED  BY <1>3, <1>5, <1>6, <1>7, <1>8 DEF IInv

\* A call starts: its frame is new, and so is its statement.
LEMMA EnterStep ==
  ASSUME IInv, NEW d \in Databases, NEW op, NEW pc, NEW cursor \in Statements \cup {Null},
         NEW left \in 0..MaxScript,
         <<op, pc>> \in {<<"query", "step">>, <<"exec", "next">>},
         Enter(d, op, pc, cursor, left)
  PROVE  IInv'
<1> DEFINE n == depth + 1
<1>1. /\ n \in 1..MaxDepth /\ depth' = n /\ conn[d] = "open"
      /\ UNCHANGED <<object, conn, unclosed, user, result>>
      /\ depth > 0 => call[depth].pc \in {"callback", "udf"}
      /\ depth \in Nat /\ Calls' = Calls \cup {n} /\ n \notin Calls
  BY DEF Enter, IInv, TypeOK, UserTurn, objects, Calls
<1>2. /\ call' = [call EXCEPT ![n] =
                     [Idle EXCEPT !.op = op, !.db = d, !.cursor = cursor,
                                  !.left = left, !.pc = pc]]
      /\ IF cursor = Null THEN UNCHANGED stmt
         ELSE ~Live(cursor) /\ \E r \in 0..MaxRows : stmt' = Compile(cursor, d, r)
  BY DEF Enter
<1>3. /\ call'[n] = [op |-> op, db |-> d, cursor |-> cursor, run |-> Null, left |-> left,
                     sent |-> 0, pc |-> pc, code |-> "SQLITE_OK"]
      /\ \A i \in 1..MaxDepth : i # n => call'[i] = call[i]
  BY <1>1, <1>2 DEF IInv, TypeOK, Statement, Frame, Idle
<1>4. /\ \A t \in Statements : t # cursor => stmt'[t] = stmt[t]
      /\ cursor # Null =>
           /\ cursor \in Statements /\ stmt[cursor].db = Null
           /\ stmt'[cursor].db = d /\ stmt'[cursor].row = 0 /\ stmt'[cursor].rows \in Nat
      /\ stmt' \in [Statements -> Statement]
  <2>1. CASE cursor = Null
    BY <1>2, <2>1 DEF IInv, TypeOK, Statement, Frame
  <2>2. CASE cursor # Null
    <3>1. PICK r \in 0..MaxRows : stmt' = [stmt EXCEPT ![cursor] = [db |-> d, row |-> 0, rows |-> r]]
      BY <1>2, <2>2 DEF Compile
    <3>2. cursor \in Statements /\ stmt[cursor].db = Null
      BY <1>2, <2>2 DEF Live
    <3>3. stmt \in [Statements -> Statement]
      BY DEF IInv, TypeOK, Statement, Frame
    <3>4. [db |-> d, row |-> 0, rows |-> r] \in Statement /\ r \in Nat
      BY DEF Statement
    <3>. QED  BY <3>1, <3>2, <3>3, <3>4
  <2>. QED  BY <2>1, <2>2
<1>5. \A i \in Calls : cursor # Null => ~Owns(i, cursor)
  BY <1>4 DEF IInv, StatementsAccounted, Live
<1>6. /\ cursor \notin user
      /\ \A i \in Calls : i \in 1..MaxDepth
  BY <1>1, <1>4 DEF IInv, TypeOK, Statement, Frame, StatementsAccounted, Live, Calls
<1>7. TypeOK'
  <2>1. call'[n] \in Frame
    BY <1>3, <1>2 DEF Codes, NonErrors, Frame
  <2>. QED  BY <1>1, <1>2, <1>4, <2>1, <1>3 DEF IInv, TypeOK, Statement, Frame
<1>8. Stack'
  BY <1>1, <1>3, <1>6 DEF IInv, Stack, Calls
<1>9. Unborn'
  BY <1>1 DEF IInv, Unborn
<1>10. Progress'
  <2>1. \A t \in Statements : stmt'[t].row <= stmt'[t].rows
    BY <1>4 DEF IInv, Progress
  <2>2. \A i \in Calls :
          /\ call[i].cursor # Null => stmt'[call[i].cursor] = stmt[call[i].cursor]
          /\ call[i].run # Null => stmt'[call[i].run] = stmt[call[i].run]
    BY <1>4, <1>5, <1>6 DEF IInv, TypeOK, Statement, Frame, Owns
  <2>3. /\ cursor # Null => stmt'[cursor].db = d /\ stmt'[cursor].row = 0
        /\ pc \notin {"callback", "udf"}
    BY <1>4
  <2>. QED
    BY <1>1, <1>3, <1>6, <2>1, <2>2, <2>3 DEF IInv, Progress
<1>11. StatementsAccounted'
  <2>1. \A t \in Statements : stmt'[t].db # Null <=> stmt[t].db # Null \/ t = cursor
    BY <1>4
  <2>2. \A t \in Statements, i \in Calls' :
          (Owns(i, t)' <=> IF i = n THEN t = cursor ELSE Owns(i, t))
    BY <1>1, <1>3, <1>6 DEF Owns
  <2>3. (\A i \in Calls : call[i].run # Null => call[i].run # call[i].cursor)'
    BY <1>1, <1>3, <1>6 DEF IInv, StatementsAccounted
  <2>. QED
    BY <1>1, <1>5, <1>6, <2>1, <2>2, <2>3 DEF IInv, StatementsAccounted, Live
<1>12. CallsOnOpenConnections'
  <2>1. \A t \in Statements : stmt'[t].db # Null => conn[stmt'[t].db] = "open"
    BY <1>1, <1>4 DEF IInv, CallsOnOpenConnections, Live
  <2>. QED
    BY <1>1, <1>3, <1>6, <2>1 DEF IInv, CallsOnOpenConnections, Live
<1>13. NoSilentTruncation'
  <2>1. \A i \in Calls :
          call[i].cursor # Null => stmt'[call[i].cursor] = stmt[call[i].cursor]
    BY <1>4, <1>5, <1>6 DEF IInv, TypeOK, Statement, Frame, Owns
  <2>. QED
    BY <1>1, <1>3, <1>6, <2>1 DEF IInv, NoSilentTruncation
<1>. QED  BY <1>7, <1>8, <1>9, <1>10, <1>11, <1>12, <1>13 DEF IInv

\* A call returns: its statement, which nobody else owns, is finalized.
LEMMA ReturnStep ==
  ASSUME IInv, Return
  PROVE  IInv'
<1> DEFINE cursor == call[depth].cursor
<1>1. /\ depth \in 1..MaxDepth /\ depth' = depth - 1 /\ call[depth].pc = "return"
      /\ UNCHANGED <<object, conn, unclosed, user>>
      /\ Calls' = Calls \ {depth} /\ depth \in Calls /\ \A i \in Calls : i \in 1..MaxDepth
  BY DEF Return, IInv, TypeOK, Frame, objects, Calls
<1>2. /\ call'[depth] = Idle
      /\ \A i \in 1..MaxDepth : i # depth => call'[i] = call[i]
  BY <1>1 DEF Return, IInv, TypeOK, Frame
<1>3. /\ \A t \in Statements : t # cursor => stmt'[t] = stmt[t]
      /\ \A t \in Statements : t = cursor => stmt'[t] = NoStmt
      /\ stmt' \in [Statements -> Statement]
  BY DEF Return, IInv, TypeOK, Frame, Statement, Finalize, NoStmt
<1>4. /\ \A i \in Calls : /\ call[i].cursor \in Statements \cup {Null}
                          /\ call[i].run \in Statements \cup {Null}
      /\ user \subseteq Statements
  BY <1>1 DEF IInv, TypeOK, Statement, Frame
<1>5. \A i \in Calls \ {depth} : cursor # Null => ~Owns(i, cursor)
  <2>1. Owns(depth, cursor)
    BY DEF Owns
  <2>. QED  BY <1>1, <1>4, <2>1 DEF IInv, StatementsAccounted
<1>6. cursor # Null => cursor \notin user
  BY <1>1, <1>4 DEF IInv, StatementsAccounted, Owns
<1>7. call[depth].run = Null
  BY <1>1 DEF IInv, Stack
<1>8. \A i \in Calls \ {depth} :
        /\ call[i].cursor # Null => stmt'[call[i].cursor] = stmt[call[i].cursor]
        /\ call[i].run # Null => stmt'[call[i].run] = stmt[call[i].run]
  BY <1>3, <1>4, <1>5 DEF Owns
<1>9. TypeOK'
  <2>1. result' \in Valstat
    BY <1>1 DEF Return, IInv, TypeOK, Frame, Valstat, DBJ_SQL_VALSTAT_OK
  <2>2. Idle \in Frame
    BY DEF Frame, Idle, Codes, NonErrors
  <2>3. call' = [call EXCEPT ![depth] = Idle]
    BY DEF Return
  <2>4. call' \in [1..MaxDepth ->
                     Frame]
    BY <2>2, <2>3 DEF IInv, TypeOK, Statement, Frame
  <2>5. depth' \in 0..MaxDepth
    BY <1>1
  <2>. QED  BY <1>1, <1>3, <2>1, <2>4, <2>5 DEF IInv, TypeOK, Statement, Frame
<1>10. Stack'
  BY <1>1, <1>2 DEF IInv, Stack, Calls
<1>11. Unborn'
  BY <1>1 DEF IInv, Unborn
<1>12. Progress'
  <2>1. \A t \in Statements : stmt'[t].row <= stmt'[t].rows
    BY <1>3 DEF IInv, Progress, NoStmt
  <2>2. \A i \in Calls' : i \in Calls \ {depth} /\ call'[i] = call[i]
    BY <1>1, <1>2
  <2>. QED  BY <1>8, <2>1, <2>2 DEF IInv, Progress
<1>13. StatementsAccounted'
  <2>1. \A t \in Statements : stmt'[t].db # Null <=> stmt[t].db # Null /\ t # cursor
    <3> TAKE t \in Statements
    <3>1. CASE t = cursor
      BY <1>3, <3>1 DEF NoStmt
    <3>2. CASE t # cursor
      BY <1>3, <3>2
    <3>. QED  BY <3>1, <3>2
  <2>2. \A t \in Statements, i \in Calls' : Owns(i, t)' <=> Owns(i, t)
    BY <1>1, <1>2 DEF Owns
  <2>3. (\A i \in Calls : call[i].run # Null => call[i].run # call[i].cursor)'
    BY <1>1, <1>2 DEF IInv, StatementsAccounted
  <2>4. \A t \in Statements : Owns(depth, t) => t = cursor
    BY <1>7 DEF Owns
  <2>5. \A t \in Statements : t = cursor => t \notin user /\ \A i \in Calls' : ~Owns(i, t)
    <3> TAKE t \in Statements
    <3>1. CASE t = cursor
      <4>1. cursor # Null
        BY <3>1
      <4>2. \A i \in Calls' : ~Owns(i, cursor)
        BY <4>1, <1>1, <1>5
      <4>. QED  BY <3>1, <4>1, <4>2, <1>6 DEF Owns
    <3>. QED  BY <3>1
  <2>. QED
    BY <1>1, <2>1, <2>2, <2>3, <2>4, <2>5 DEF IInv, StatementsAccounted, Live
<1>14. CallsOnOpenConnections'
  <2>1. \A t \in Statements : stmt'[t].db # Null => conn[stmt'[t].db] = "open"
    BY <1>3 DEF IInv, CallsOnOpenConnections, Live, NoStmt
  <2>. QED
    BY <1>1, <1>2, <2>1 DEF IInv, CallsOnOpenConnections, Live
<1>15. NoSilentTruncation'
  BY <1>1, <1>2, <1>8 DEF IInv, NoSilentTruncation
<1>. QED  BY <1>9, <1>10, <1>11, <1>12, <1>13, <1>14, <1>15 DEF IInv

\* The innermost call moves to g, touching at most one statement s, which
\* no other call and no caller owns: what is left to check is local to it.
LEMMA TopStep ==
  ASSUME IInv, depth > 0, NEW g \in Frame, NEW s \in Statements \cup {Null},
         call' = [call EXCEPT ![depth] = g], stmt' \in [Statements -> Statement],
         UNCHANGED <<object, conn, unclosed, user, depth, result>>,
         g.op = call[depth].op, g.db = call[depth].db, g.cursor = call[depth].cursor,
         \A t \in Statements \ {s} :
           /\ stmt'[t] = stmt[t]
           /\ (t = g.cursor \/ t = g.run <=> Owns(depth, t)),
         s # Null =>
           /\ s \notin user /\ \A i \in Calls \ {depth} : ~Owns(i, s)
           /\ stmt'[s].row <= stmt'[s].rows
           /\ IF s = g.cursor \/ s = g.run THEN stmt'[s].db = g.db
                                           ELSE stmt'[s].db = Null,
         g.run # Null => g.run # g.cursor /\ stmt'[g.run].row = g.sent,
         g.op = "query" => /\ g.pc \in {"step", "udf", "callback", "return"} /\ g.run = Null
                           /\ g.pc \in {"callback", "udf"} => g.cursor # Null
                           /\ g.pc = "callback" => g.sent > 0
                           /\ g.cursor # Null => stmt'[g.cursor].row = g.sent,
         g.op = "exec" => /\ g.pc \in {"next", "step", "udf", "callback", "return"}
                          /\ g.run # Null <=> g.pc \in {"step", "udf", "callback"},
         (g.pc = "return" /\ ~is_sqlite_error(g.code)) =>
           IF g.op = "query" THEN g.cursor # Null /\ g.sent = stmt'[g.cursor].rows
                             ELSE g.left = 0 /\ g.run = Null
  PROVE  IInv'
<1>1. /\ depth \in 1..MaxDepth /\ depth \in Calls /\ Calls' = Calls
      /\ \A i \in Calls : i \in 1..MaxDepth
      /\ call'[depth] = g
      /\ \A i \in 1..MaxDepth : i # depth => call'[i] = call[i]
  BY DEF IInv, TypeOK, Calls
<1>2. \A i \in Calls : call[i].cursor \in Statements \cup {Null} /\ call[i].run \in Statements \cup {Null}
  BY <1>1 DEF IInv, TypeOK, Frame
<1>3. \A i \in Calls \ {depth} :
        /\ call[i].cursor # Null => stmt'[call[i].cursor] = stmt[call[i].cursor]
        /\ call[i].run # Null => stmt'[call[i].run] = stmt[call[i].run]
  BY <1>1, <1>2 DEF Owns
<1>4. g.db \in Databases /\ conn[g.db] = "open"
  BY <1>1 DEF IInv, Stack, CallsOnOpenConnections
<1>5. TypeOK'
  BY <1>1 DEF IInv, TypeOK
<1>6. Stack'
  BY <1>1 DEF IInv, Stack
<1>7. Unborn'
  BY DEF IInv, Unborn
<1>8. Progress'
  <2>1. \A t \in Statements : stmt'[t].row <= stmt'[t].rows
    BY DEF IInv, Progress
  <2>2. g.cursor # Null => stmt'[g.cursor].db = g.db
    <3>1. CASE g.cursor = s
      BY <3>1
    <3>2. CASE g.cursor # s
      BY <1>1, <1>2, <3>2 DEF IInv, Progress
    <3>. QED  BY <3>1, <3>2
  <2>3. g.run # Null => stmt'[g.run].db = g.db
    <3>1. CASE g.run = s
      BY <3>1
    <3>2. CASE g.run # s /\ g.run # Null
      <4>1. g.run \in Statements \ {s}
        BY <3>2 DEF Frame
      <4>2. stmt'[g.run] = stmt[g.run] /\ Owns(depth, g.run) /\ g.run # call[depth].cursor
        BY <3>2, <4>1
      <4>3. g.run = call[depth].run
        BY <4>2 DEF Owns
      <4>. QED  BY <1>1, <3>2, <4>2, <4>3 DEF IInv, Progress
    <3>. QED  BY <3>1, <3>2
  <2>. QED
    BY <1>1, <1>3, <2>1, <2>2, <2>3 DEF IInv, Progress
<1>9. StatementsAccounted'
  <2>1. \A t \in Statements, i \in Calls :
          (Owns(i, t)' <=> IF i = depth THEN t = g.cursor \/ t = g.run ELSE Owns(i, t))
    BY <1>1 DEF Owns
  <2>2. \A t \in Statements :
          t # s => (stmt'[t].db # Null <=> t \in user \/ \E i \in Calls : Owns(i, t)')
    BY <1>1, <2>1 DEF IInv, StatementsAccounted, Live
  <2>3. s \in Statements => (stmt'[s].db # Null <=> s \in user \/ \E i \in Calls : Owns(i, s)')
    BY <1>1, <1>4, <2>1
  <2>4. \A t \in Statements, i \in Calls :
          Owns(i, t)' => t \notin user /\ \A j \in Calls : Owns(j, t)' => j = i
    <3> TAKE t \in Statements, i \in Calls
    <3>1. CASE t = s
      BY <3>1, <1>1, <2>1
    <3>2. CASE t # s
      BY <3>2, <1>1, <2>1 DEF IInv, StatementsAccounted
    <3>. QED  BY <3>1, <3>2
  <2>5. (\A i \in Calls : call[i].run # Null => call[i].run # call[i].cursor)'
    BY <1>1 DEF IInv, StatementsAccounted
  <2>. QED  BY <1>1, <2>2, <2>3, <2>4, <2>5 DEF StatementsAccounted, Live
<1>10. CallsOnOpenConnections'
  <2>1. \A t \in Statements : stmt'[t].db # Null => conn[stmt'[t].db] = "open"
    BY <1>4 DEF IInv, CallsOnOpenConnections, Live
  <2>. QED
    BY <1>1, <2>1 DEF IInv, CallsOnOpenConnections, Live
<1>11. NoSilentTruncation'
  BY <1>1, <1>3 DEF IInv, NoSilentTruncation
<1>. QED  BY <1>5, <1>6, <1>7, <1>8, <1>9, <1>10, <1>11 DEF IInv

\* What the innermost call is, for the steps that move it.
LEMMA TopCall ==
  ASSUME IInv, depth > 0
  PROVE  /\ depth \in 1..MaxDepth /\ depth \in Calls /\ call[depth] \in Frame
         /\ call[depth].cursor \in Statements \cup {Null}
         /\ call[depth].run \in Statements \cup {Null}
         /\ call[depth].sent \in Nat /\ call[depth].left \in 0..MaxScript
         /\ \A t \in Statements : Owns(depth, t) =>
              /\ t \notin user /\ \A i \in Calls \ {depth} : ~Owns(i, t)
              /\ stmt[t].db = call[depth].db
              /\ stmt[t].row \in Nat /\ stmt[t].rows \in Nat /\ stmt[t].row <= stmt[t].rows
              /\ stmt[t].rows <= MaxRows
<1>1. /\ depth \in 1..MaxDepth /\ depth \in Calls /\ call[depth] \in Frame
      /\ stmt \in [Statements -> Statement]
  BY DEF IInv, TypeOK, Calls
<1>2. /\ call[depth].cursor \in Statements \cup {Null}
      /\ call[depth].run \in Statements \cup {Null}
      /\ call[depth].sent \in Nat /\ call[depth].left \in 0..MaxScript
  BY <1>1 DEF Frame
<1>3. ASSUME NEW t \in Statements, Owns(depth, t)
      PROVE  /\ t \notin user /\ \A i \in Calls \ {depth} : ~Owns(i, t)
             /\ stmt[t].db = call[depth].db
             /\ stmt[t].row \in Nat /\ stmt[t].rows \in Nat /\ stmt[t].row <= stmt[t].rows
             /\ stmt[t].rows <= MaxRows
  <2>1. t \notin user /\ \A i \in Calls \ {depth} : ~Owns(i, t)
    BY <1>1, <1>3 DEF IInv, StatementsAccounted
  <2>2. stmt[t].db = call[depth].db
    BY <1>1, <1>3 DEF IInv, Progress, Owns
  <2>3. stmt[t] \in Statement /\ stmt[t].row <= stmt[t].rows
    BY <1>1 DEF IInv, Progress
  <2>. QED  BY <2>1, <2>2, <2>3 DEF Statement
<1>. QED  BY <1>1, <1>2, <1>3

\* query(): one sqlite3_step, with its functions, and the callback's return.
\* A step of a statement to its next row.
LEMMA RowStep ==
  ASSUME NEW s \in Statements, NEW n \in Nat, stmt \in [Statements -> Statement],
         stmt[s].row = n, n + 1 \in 0..MaxRows, stmt' = Step(s)
  PROVE  /\ stmt' \in [Statements -> Statement]
         /\ \A t \in Statements \ {s} : stmt'[t] = stmt[t]
         /\ stmt'[s].row = n + 1 /\ stmt'[s].rows = stmt[s].rows /\ stmt'[s].db = stmt[s].db
<1>1. PICK next \in Statement : /\ next = [stmt[s] EXCEPT !.row = n + 1]
                               /\ next.row = n + 1
                               /\ next.rows = stmt[s].rows /\ next.db = stmt[s].db
  <2>1. PICK r \in Statement : r = stmt[s]
    OBVIOUS
  <2>2. PICK m \in 0..MaxRows : m = n + 1
    OBVIOUS
  <2>3. [r EXCEPT !.row = m] \in Statement
    BY DEF Statement
  <2>4. /\ [r EXCEPT !.row = m].row = m
        /\ [r EXCEPT !.row = m].rows = r.rows /\ [r EXCEPT !.row = m].db = r.db
    BY DEF Statement
  <2>. QED  BY <2>1, <2>2, <2>3, <2>4, Zenon
<1>2. stmt' = [stmt EXCEPT ![s] = next]
  <2>1. stmt' = [stmt EXCEPT ![s].row = n + 1]
    BY DEF Step
  <2>. QED  BY <1>1, <2>1
<1>. QED  BY <1>1, <1>2

LEMMA QuerySteps ==
  ASSUME IInv,
         \/ QueryStep("step") \/ QueryStep("udf")
         \/ \E code \in CallbackCodes : QueryCallback(code)
         \/ UdfCall /\ call[depth].op = "query"
  PROVE  IInv'
<1> DEFINE f == call[depth]
           s == f.cursor
<1>0. /\ depth > 0 /\ f.op = "query" /\ f.pc \in {"step", "udf", "callback"}
      /\ UNCHANGED <<object, conn, unclosed, user, depth, result>>
  BY DEF QueryStep, QueryCallback, UdfCall, Running, objects, IInv, TypeOK
<1>1. /\ depth \in 1..MaxDepth /\ depth \in Calls /\ f \in Frame
      /\ f.cursor \in Statements \cup {Null} /\ f.run = Null
      /\ f.sent \in Nat
      /\ s # Null => stmt[s].row = f.sent
      /\ f.pc = "callback" => f.sent > 0 /\ f.cursor # Null
  BY <1>0, TopCall DEF IInv, Stack, Progress
<1>2. s # Null =>
        /\ s \in Statements /\ s \notin user /\ \A i \in Calls \ {depth} : ~Owns(i, s)
        /\ stmt[s].db = f.db /\ stmt[s].row \in Nat /\ stmt[s].rows \in Nat
        /\ stmt[s].row <= stmt[s].rows /\ stmt[s].rows <= MaxRows
  BY <1>0, <1>1, TopCall DEF Owns
<1>3. call \in [1..MaxDepth -> Frame] /\ stmt \in [Statements -> Statement]
  BY DEF IInv, TypeOK
<1>4. CASE \E pc \in {"step", "udf", "return"}, code \in Codes :
             /\ call' = [call EXCEPT ![depth].pc = pc, ![depth].code = code]
             /\ UNCHANGED stmt
             /\ pc = "return" /\ ~is_sqlite_error(code) => s # Null /\ stmt[s].row = stmt[s].rows
             /\ pc = "udf" => s # Null
  <2>1. PICK pc \in {"step", "udf", "return"}, code \in Codes :
             /\ call' = [call EXCEPT ![depth].pc = pc, ![depth].code = code]
             /\ UNCHANGED stmt
             /\ pc = "return" /\ ~is_sqlite_error(code) => s # Null /\ stmt[s].row = stmt[s].rows
             /\ pc = "udf" => s # Null
    BY <1>4
  <2> DEFINE g == [f EXCEPT !.pc = pc, !.code = code]
  <2>2. /\ g \in Frame /\ g.op = f.op /\ g.db = f.db /\ g.cursor = f.cursor /\ g.run = f.run
        /\ g.sent = f.sent /\ g.pc = pc /\ g.code = code
    BY <1>1 DEF Frame
  <2>3. call' = [call EXCEPT ![depth] = g]
    BY <2>1, <1>1, <1>3 DEF Frame
  <2>4. \A t \in Statements : stmt'[t] = stmt[t] /\ (t = g.cursor \/ t = g.run <=> Owns(depth, t))
    BY <2>1, <2>2, <1>1 DEF Owns
  <2>5. g.cursor # Null => stmt'[g.cursor].row = g.sent
    BY <2>1, <2>2, <1>1
  <2>6. (g.pc = "return" /\ ~is_sqlite_error(g.code)) =>
          g.cursor # Null /\ g.sent = stmt'[g.cursor].rows
    BY <2>1, <2>2, <1>1
  <2>7. stmt' \in [Statements -> Statement]
    BY <2>1, <1>3
  <2> HIDE DEF g, f
  <2>8. /\ g.op = "query" /\ g.pc \in {"step", "udf", "return"} /\ g.run = Null
        /\ g.pc = "udf" => g.cursor # Null
    BY <2>1, <2>2, <1>0, <1>1 DEF f
  <2>9. /\ g \in Frame /\ depth > 0
        /\ g.op = call[depth].op /\ g.db = call[depth].db /\ g.cursor = call[depth].cursor
        /\ UNCHANGED <<object, conn, unclosed, user, depth, result>>
    BY <2>2, <1>0 DEF f
  <2>. QED
    BY <2>3, <2>4, <2>5, <2>6, <2>7, <2>8, <2>9, TopStep
<1>5. CASE /\ s # Null /\ stmt[s].row < stmt[s].rows /\ stmt' = Step(s)
           /\ call' = [Go("callback") EXCEPT ![depth].sent = @ + 1]
  <2> DEFINE g == [f EXCEPT !.pc = "callback", !.sent = f.sent + 1]
  <2>1. f.sent + 1 \in 0..MaxRows
    BY <1>5, <1>1, <1>2
  <2>2. /\ g \in Frame /\ g.op = f.op /\ g.db = f.db /\ g.cursor = f.cursor /\ g.run = f.run
        /\ g.sent = f.sent + 1 /\ g.pc = "callback"
    BY <1>1, <2>1 DEF Frame
  <2>3. call' = [call EXCEPT ![depth] = g]
    BY <1>5, <1>1, <1>3 DEF Frame, Go
  <2>4. /\ \A t \in Statements \ {s} : stmt'[t] = stmt[t]
        /\ stmt'[s].row = f.sent + 1 /\ stmt'[s].rows = stmt[s].rows /\ stmt'[s].db = f.db
        /\ stmt' \in [Statements -> Statement]
    BY <1>5, <1>1, <1>2, <1>3, <2>1, RowStep
  <2>5. \A t \in Statements : (t = g.cursor \/ t = g.run <=> Owns(depth, t))
    BY <2>2, <1>1 DEF Owns
  <2>6. /\ s \in Statements \cup {Null} /\ s # Null /\ s \notin user
        /\ \A i \in Calls \ {depth} : ~Owns(i, s)
        /\ stmt'[s].row <= stmt'[s].rows
    BY <1>1, <1>2, <1>5, <2>4
  <2>7. /\ g.op = "query" /\ g.run = Null /\ g.sent > 0
        /\ s = g.cursor /\ stmt'[s].db = g.db /\ stmt'[s].row = g.sent
    BY <1>0, <1>1, <2>2, <2>4
  <2>8. /\ depth > 0 /\ g.op = call[depth].op /\ g.db = call[depth].db
        /\ g.cursor = call[depth].cursor
        /\ UNCHANGED <<object, conn, unclosed, user, depth, result>>
    BY <1>0, <2>2
  <2>9. /\ \A t \in Statements \ {s} :
             /\ stmt'[t] = stmt[t]
             /\ (t = g.cursor \/ t = g.run <=> Owns(depth, t))
        /\ s # Null =>
             /\ s \notin user /\ \A i \in Calls \ {depth} : ~Owns(i, s)
             /\ stmt'[s].row <= stmt'[s].rows
             /\ IF s = g.cursor \/ s = g.run THEN stmt'[s].db = g.db
                                              ELSE stmt'[s].db = Null
    BY <2>4, <2>5, <2>6, <2>7
  <2>10. /\ g \in Frame /\ s \in Statements \cup {Null} /\ stmt' \in [Statements -> Statement]
         /\ g.pc = "callback"
    BY <2>2, <2>4, <2>6
  <2> HIDE DEF g, f, s
  <2>. QED  BY <2>3, <2>6, <2>7, <2>8, <2>9, <2>10, TopStep
<1>6. QED
  <2>1. CASE QueryStep("step") \/ QueryStep("udf")
    <3>1. CASE s # Null /\ stmt[s].row < stmt[s].rows /\ stmt' = Step(s)
               /\ call' = [Go("callback") EXCEPT ![depth].sent = @ + 1]
      BY <3>1, <1>5
    <3>2. CASE s # Null /\ stmt[s].row = stmt[s].rows
               /\ call' = ReturnOf("SQLITE_DONE") /\ UNCHANGED stmt
      BY <3>2, <1>4 DEF ReturnOf, Codes, NonErrors
    <3>3. CASE (\E e \in ErrorCodes : call' = ReturnOf(e)) /\ UNCHANGED stmt
      BY <3>3, <1>4 DEF ReturnOf, Codes, is_sqlite_error
    <3>. QED  BY <2>1, <3>1, <3>2, <3>3 DEF QueryStep
  <2>2. ASSUME NEW code \in CallbackCodes, QueryCallback(code)
        PROVE  IInv'
    <3>1. CASE code = "SQLITE_OK"
      <4>1. call' = [call EXCEPT ![depth].pc = "step", ![depth].code = f.code]
        BY <2>2, <3>1, <1>1, <1>3 DEF QueryCallback, Go, Frame
      <4>. QED  BY <4>1, <1>1, <1>4, <2>2 DEF QueryCallback, Frame
    <3>2. CASE code # "SQLITE_OK"
      <4>1. code \in ErrorCodes /\ is_sqlite_error(code)
        BY <3>2 DEF is_sqlite_error
      <4>. QED  BY <4>1, <3>2, <2>2, <1>4 DEF QueryCallback, ReturnOf, Codes
    <3>. QED  BY <3>1, <3>2
  <2>3. CASE UdfCall
    <3>1. /\ call' = [call EXCEPT ![depth].pc = "udf", ![depth].code = f.code] /\ UNCHANGED stmt
          /\ s # Null
      BY <2>3, <1>0, <1>1, <1>3 DEF UdfCall, Go, Frame
    <3>. QED  BY <3>1, <1>1, <1>4 DEF Frame
  <2>. QED  BY <2>1, <2>2, <2>3

\* exec(): what sqlite3_exec does between the callbacks, and their return.
LEMMA ExecSteps ==
  ASSUME IInv,
         \/ ExecNext \/ ExecStep("step") \/ ExecStep("udf")
         \/ \E code \in CallbackCodes : ExecCallback(code)
         \/ UdfCall /\ call[depth].op = "exec"
  PROVE  IInv'
<1> DEFINE f == call[depth]
           s == f.run
<1>0. /\ depth > 0 /\ f.op = "exec"
      /\ UNCHANGED <<object, conn, unclosed, user, depth, result>>
      /\ ExecNext => f.pc = "next"
      /\ \/ ExecStep("step") \/ ExecStep("udf") \/ UdfCall
         \/ \E code \in CallbackCodes : ExecCallback(code)
         => f.pc \in {"step", "udf", "callback"}
  BY DEF ExecNext, ExecStep, ExecCallback, UdfCall, Running, objects, IInv, TypeOK
<1>1. /\ depth \in 1..MaxDepth /\ depth \in Calls /\ f \in Frame
      /\ f.cursor \in Statements \cup {Null} /\ f.run \in Statements \cup {Null}
      /\ f.sent \in Nat /\ f.left \in 0..MaxScript
      /\ f.run # Null <=> f.pc \in {"step", "udf", "callback"}
      /\ f.run # Null => f.run # f.cursor /\ stmt[f.run].row = f.sent
  BY <1>0, TopCall DEF IInv, Stack, Progress, StatementsAccounted
<1>2. s # Null =>
        /\ s \in Statements /\ s \notin user /\ \A i \in Calls \ {depth} : ~Owns(i, s)
        /\ stmt[s].db = f.db /\ stmt[s].row \in Nat /\ stmt[s].rows \in Nat
        /\ stmt[s].row <= stmt[s].rows /\ stmt[s].rows <= MaxRows
  BY <1>0, <1>1, TopCall DEF Owns
<1>3. call \in [1..MaxDepth -> Frame] /\ stmt \in [Statements -> Statement]
  BY DEF IInv, TypeOK
<1>4. CASE \E code \in Codes : \* the call is about to return, no statement runs
             /\ f.pc = "next" /\ call' = ReturnOf(code) /\ UNCHANGED stmt
             /\ ~is_sqlite_error(code) => f.left = 0
  <2>1. PICK code \in Codes :
             /\ f.pc = "next" /\ call' = ReturnOf(code) /\ UNCHANGED stmt
             /\ ~is_sqlite_error(code) => f.left = 0
    BY <1>4
  <2> DEFINE g == [f EXCEPT !.pc = "return", !.code = code]
  <2>2. /\ g \in Frame /\ g.op = f.op /\ g.db = f.db /\ g.cursor = f.cursor /\ g.run = Null
        /\ g.left = f.left /\ g.pc = "return" /\ g.code = code /\ f.run = Null
    BY <1>1, <2>1 DEF Frame
  <2>3. call' = [call EXCEPT ![depth] = g]
    BY <2>1, <1>1, <1>3 DEF Frame, ReturnOf
  <2>4. \A t \in Statements : stmt'[t] = stmt[t] /\ (t = g.cursor \/ t = g.run <=> Owns(depth, t))
    BY <2>1, <2>2, <1>1 DEF Owns
  <2>5. stmt' \in [Statements -> Statement]
    BY <2>1, <1>3
  <2>6. (g.pc = "return" /\ ~is_sqlite_error(g.code)) => g.left = 0 /\ g.run = Null
    BY <2>1, <2>2
  <2> HIDE DEF g, f
  <2>7. /\ g \in Frame /\ depth > 0 /\ g.op = "exec" /\ g.pc = "return"
        /\ g.op = call[depth].op /\ g.db = call[depth].db /\ g.cursor = call[depth].cursor
        /\ UNCHANGED <<object, conn, unclosed, user, depth, result>>
    BY <2>2, <1>0 DEF f
  <2>. QED  BY <2>2, <2>3, <2>4, <2>5, <2>6, <2>7, TopStep
<1>5. CASE \E pc \in {"step", "udf"} : \* the callback said OK, or a function is called
             s # Null /\ UNCHANGED stmt /\ call' = Go(pc)
  <2>1. PICK pc \in {"step", "udf"} : s # Null /\ UNCHANGED stmt /\ call' = Go(pc)
    BY <1>5
  <2> DEFINE g == [f EXCEPT !.pc = pc]
  <2>2. /\ g \in Frame /\ g.op = f.op /\ g.db = f.db /\ g.cursor = f.cursor /\ g.run = f.run
        /\ g.sent = f.sent /\ g.pc = pc
    BY <1>1 DEF Frame
  <2>3. call' = [call EXCEPT ![depth] = g]
    BY <2>1, <1>1, <1>3 DEF Frame, Go
  <2>4. \A t \in Statements : stmt'[t] = stmt[t] /\ (t = g.cursor \/ t = g.run <=> Owns(depth, t))
    BY <2>1, <2>2, <1>1 DEF Owns
  <2>5. stmt' \in [Statements -> Statement]
    BY <2>1, <1>3
  <2>6. g.run # Null /\ g.run # g.cursor /\ stmt'[g.run].row = g.sent
    BY <2>1, <2>2, <1>1
  <2> HIDE DEF g, f
  <2>7. /\ g \in Frame /\ depth > 0 /\ g.op = "exec" /\ g.pc \in {"step", "udf"}
        /\ g.op = call[depth].op /\ g.db = call[depth].db /\ g.cursor = call[depth].cursor
        /\ UNCHANGED <<object, conn, unclosed, user, depth, result>>
    BY <2>1, <2>2, <1>0 DEF f
  <2>. QED  BY <2>3, <2>4, <2>5, <2>6, <2>7, TopStep
<1>6. ASSUME NEW pc \in {"step", "callback"},
             s # Null, stmt[s].row < stmt[s].rows, stmt' = Step(s),
             call' = [Go(pc) EXCEPT ![depth].sent = @ + 1]
      PROVE  IInv'
  <2> DEFINE g == [f EXCEPT !.pc = pc, !.sent = f.sent + 1]
  <2>1. f.sent + 1 \in 0..MaxRows
    BY <1>6, <1>1, <1>2
  <2>2. /\ g \in Frame /\ g.op = f.op /\ g.db = f.db /\ g.cursor = f.cursor /\ g.run = f.run
        /\ g.sent = f.sent + 1 /\ g.pc = pc
    BY <1>1, <2>1 DEF Frame
  <2>3. call' = [call EXCEPT ![depth] = g]
    BY <1>6, <1>1, <1>3 DEF Frame, Go
  <2>4. /\ \A t \in Statements \ {s} : stmt'[t] = stmt[t]
        /\ stmt'[s].row = f.sent + 1 /\ stmt'[s].rows = stmt[s].rows /\ stmt'[s].db = f.db
        /\ stmt' \in [Statements -> Statement]
    BY <1>6, <1>1, <1>2, <1>3, <2>1, RowStep
  <2>5. \A t \in Statements : (t = g.cursor \/ t = g.run <=> Owns(depth, t))
    BY <2>2, <1>1 DEF Owns
  <2>6. /\ s \in Statements \cup {Null} /\ s # Null /\ s \notin user
        /\ \A i \in Calls \ {depth} : ~Owns(i, s)
        /\ stmt'[s].row <= stmt'[s].rows
    BY <1>1, <1>2, <1>6, <2>4
  <2>7. /\ g.op = "exec" /\ s = g.run /\ g.run # g.cursor
        /\ stmt'[s].db = g.db /\ stmt'[s].row = g.sent
    BY <1>0, <1>1, <2>2, <2>4, <2>6
  <2>8. /\ depth > 0 /\ g.op = call[depth].op /\ g.db = call[depth].db
        /\ g.cursor = call[depth].cursor
        /\ UNCHANGED <<object, conn, unclosed, user, depth, result>>
    BY <1>0, <2>2
  <2>9. /\ \A t \in Statements \ {s} :
             /\ stmt'[t] = stmt[t]
             /\ (t = g.cursor \/ t = g.run <=> Owns(depth, t))
        /\ s # Null =>
             /\ s \notin user /\ \A i \in Calls \ {depth} : ~Owns(i, s)
             /\ stmt'[s].row <= stmt'[s].rows
             /\ IF s = g.cursor \/ s = g.run THEN stmt'[s].db = g.db
                                              ELSE stmt'[s].db = Null
    BY <2>4, <2>5, <2>6, <2>7
  <2>10. /\ g \in Frame /\ s \in Statements \cup {Null} /\ stmt' \in [Statements -> Statement]
         /\ g.pc \in {"step", "callback"} /\ g.run # Null
    BY <1>6, <2>2, <2>4, <2>6
  <2> HIDE DEF g, f, s
  <2>. QED  BY <2>3, <2>6, <2>7, <2>8, <2>9, <2>10, TopStep
<1>7. CASE \E code \in Codes, pc \in {"next", "return"} : \* sqlite3_finalize
             /\ s # Null /\ stmt' = Finalize(s)
             /\ call' = [call EXCEPT ![depth].pc = pc, ![depth].code = code, ![depth].run = Null]
             /\ pc = "return" => is_sqlite_error(code)
  <2>1. PICK code \in Codes, pc \in {"next", "return"} :
             /\ s # Null /\ stmt' = Finalize(s)
             /\ call' = [call EXCEPT ![depth].pc = pc, ![depth].code = code, ![depth].run = Null]
             /\ pc = "return" => is_sqlite_error(code)
    BY <1>7
  <2> DEFINE g == [f EXCEPT !.pc = pc, !.code = code, !.run = Null]
  <2>2. /\ g \in Frame /\ g.op = f.op /\ g.db = f.db /\ g.cursor = f.cursor /\ g.run = Null
        /\ g.pc = pc /\ g.code = code
    BY <1>1 DEF Frame
  <2>3. call' = [call EXCEPT ![depth] = g]
    BY <2>1, <1>1, <1>3 DEF Frame
  <2>4. /\ \A t \in Statements \ {s} : stmt'[t] = stmt[t]
        /\ stmt'[s].row = 0 /\ stmt'[s].rows = 0 /\ stmt'[s].db = Null
        /\ stmt' \in [Statements -> Statement]
    BY <2>1, <1>1, <1>3 DEF Finalize, Statement, NoStmt
  <2>5. /\ \A t \in Statements \ {s} : (t = g.cursor \/ t = g.run <=> Owns(depth, t))
        /\ s # g.cursor /\ s # g.run
    BY <2>1, <2>2, <1>1 DEF Owns
  <2>6. s \in Statements /\ s \notin user /\ \A i \in Calls \ {depth} : ~Owns(i, s)
    BY <2>1, <1>2
  <2>7. stmt'[s].row <= stmt'[s].rows
    BY <2>4
  <2>8. g.op = "exec" /\ g.pc \in {"next", "return"} /\ g.run = Null
    BY <2>1, <2>2, <1>0
  <2>9. g.pc # "return" \/ is_sqlite_error(g.code)
    BY <2>1, <2>2
  <2> HIDE DEF g, f, s
  <2>10. /\ g \in Frame /\ depth > 0
         /\ g.op = call[depth].op /\ g.db = call[depth].db /\ g.cursor = call[depth].cursor
         /\ UNCHANGED <<object, conn, unclosed, user, depth, result>>
    BY <2>2, <1>0 DEF f
  <2>. QED
    BY <2>3, <2>4, <2>5, <2>6, <2>7, <2>8, <2>9, <2>10, TopStep
<1>8. CASE \E t \in Statements, n \in 0..MaxRows : \* sqlite3_prepare_v2
             /\ f.pc = "next" /\ f.left > 0 /\ ~Live(t) /\ stmt' = Compile(t, f.db, n)
             /\ call' = [Go("step") EXCEPT ![depth].run = t, ![depth].sent = 0,
                                           ![depth].left = @ - 1]
  <2>1. PICK t \in Statements, n \in 0..MaxRows :
             /\ f.pc = "next" /\ f.left > 0 /\ ~Live(t) /\ stmt' = Compile(t, f.db, n)
             /\ call' = [Go("step") EXCEPT ![depth].run = t, ![depth].sent = 0,
                                           ![depth].left = @ - 1]
    BY <1>8
  <2> DEFINE g == [f EXCEPT !.pc = "step", !.run = t, !.sent = 0, !.left = f.left - 1]
  <2>2. /\ g \in Frame /\ g.op = f.op /\ g.db = f.db /\ g.cursor = f.cursor /\ g.run = t
        /\ g.pc = "step" /\ g.sent = 0
    <3>1. f.left - 1 \in 0..MaxScript /\ 0 \in 0..MaxRows
      BY <1>1, <2>1
    <3>. QED  BY <1>1, <2>1, <3>1 DEF Frame
  <2>3. call' = [call EXCEPT ![depth] = g]
    BY <2>1, <1>1, <1>3 DEF Frame, Go
  <2>4. f.db \in Databases /\ [db |-> f.db, row |-> 0, rows |-> n] \in Statement
    BY <1>1 DEF IInv, Stack, Statement
  <2>5. /\ \A u \in Statements \ {t} : stmt'[u] = stmt[u]
        /\ stmt'[t].row = 0 /\ stmt'[t].rows = n /\ stmt'[t].db = f.db
        /\ stmt' \in [Statements -> Statement]
    BY <2>1, <2>4, <1>3 DEF Compile
  <2>6. t \notin user /\ \A i \in Calls : ~Owns(i, t)
    BY <2>1 DEF IInv, StatementsAccounted
  <2>7. /\ f.run = Null /\ t # f.cursor
        /\ \A u \in Statements \ {t} : (u = g.cursor \/ u = g.run <=> Owns(depth, u))
    BY <2>1, <2>2, <2>6, <1>1 DEF Owns
  <2> HIDE DEF g
  <2>. QED
    BY <1>0, <1>1, <2>1, <2>2, <2>3, <2>5, <2>6, <2>7, TopStep
<1>9. CASE ExecNext
  <2>1. "SQLITE_OK" \in Codes /\ ErrorCodes \subseteq Codes
        /\ \A e \in ErrorCodes : is_sqlite_error(e)
    BY DEF Codes, NonErrors, is_sqlite_error
  <2>. QED  BY <1>9, <2>1, <1>0, <1>4, <1>8 DEF ExecNext
<1>10. CASE ExecStep("step") \/ ExecStep("udf")
  <2>1. s # Null
    BY <1>10, <1>0, <1>1
  <2>2. ASSUME NEW pc \in {"step", "callback"}, stmt[s].row < stmt[s].rows, stmt' = Step(s),
               call' = [Go(pc) EXCEPT ![depth].sent = @ + 1]
        PROVE  IInv'
    BY <2>1, <2>2, <1>6
  <2>3. CASE stmt' = Finalize(s) /\ call' = [Go("next") EXCEPT ![depth].run = Null]
    <3>1. f.code \in Codes /\ call' = [call EXCEPT ![depth].pc = "next", ![depth].code = f.code,
                                                   ![depth].run = Null]
      BY <2>3, <1>1, <1>3 DEF Go, Frame
    <3>. QED  BY <2>1, <2>3, <3>1, <1>7
  <2>4. ASSUME NEW e \in ErrorCodes, stmt' = Finalize(s),
               call' = [ReturnOf(e) EXCEPT ![depth].run = Null]
        PROVE  IInv'
    <3>1. e \in Codes /\ is_sqlite_error(e)
      BY DEF Codes, is_sqlite_error
    <3>2. call' = [call EXCEPT ![depth].pc = "return", ![depth].code = e, ![depth].run = Null]
      BY <2>4 DEF ReturnOf
    <3>. QED  BY <2>1, <2>4, <3>1, <3>2, <1>7
  <2>. QED  BY <1>10, <2>2, <2>3, <2>4 DEF ExecStep
<1>11. ASSUME NEW code \in CallbackCodes, ExecCallback(code)
       PROVE  IInv'
  <2>1. s # Null
    BY <1>11, <1>0, <1>1
  <2>2. CASE code = "SQLITE_OK"
    BY <2>1, <2>2, <1>5, <1>11 DEF ExecCallback
  <2>3. CASE code # "SQLITE_OK"
    <3>1. "SQLITE_ABORT" \in Codes /\ is_sqlite_error("SQLITE_ABORT")
      BY DEF Codes, is_sqlite_error
    <3>2. call' = [call EXCEPT ![depth].pc = "return", ![depth].code = "SQLITE_ABORT",
                               ![depth].run = Null]
      BY <1>11, <2>3 DEF ReturnOf, ExecCallback
    <3>3. stmt' = Finalize(s)
      BY <1>11, <2>3 DEF ExecCallback
    <3>. QED  BY <2>1, <3>1, <3>2, <3>3, <1>7
  <2>. QED  BY <2>2, <2>3
<1>12. CASE UdfCall
  <2>1. s # Null
    BY <1>12, <1>0, <1>1
  <2>. QED  BY <2>1, <1>5, <1>12 DEF UdfCall
<1>. QED  BY <1>9, <1>10, <1>11, <1>12

LEMMA NextIInv == IInv /\ [Next]_vars => IInv'
<1> SUFFICES ASSUME IInv, [Next]_vars
             PROVE  IInv'
  OBVIOUS
<1>1. ASSUME NEW d \in Databases, query(d) \/ exec(d)
      PROVE  IInv'
  <2>1. 0 \in 0..MaxScript /\ 1..MaxScript \subseteq 0..MaxScript
    OBVIOUS
  <2>. QED  BY <1>1, <2>1, EnterStep DEF query, exec
<1>2. CASE User
  BY <1>1, <1>2, ObjectSteps, UserSteps DEF User
<1>3. CASE Library \/ Callback \/ UdfReturn
  <2>1. UdfCall => call[depth].op \in {"query", "exec"}
    BY DEF UdfCall, IInv, TypeOK, Stack, Calls
  <2>. QED
    BY <1>3, <2>1, QuerySteps, ExecSteps, ReturnStep DEF Library, Callback, UdfReturn
<1>4. CASE UNCHANGED vars
  BY <1>4 DEF vars, objects, IInv, TypeOK, Stack, Progress, Unborn, StatementsAccounted,
              CallsOnOpenConnections, NoSilentTruncation, Calls, Live, Alive, Owns
<1>. QED  BY <1>2, <1>3, <1>4 DEF Next

\* The inductive invariant holds in every reachable state.
THEOREM Invariance == Spec => []IInv
  BY InitIInv, NextIInv, PTL DEF Spec

\* The types of the state of the database class.
THEOREM DatabaseTypes == Spec => []TypeOK
<1>1. IInv => TypeOK
  BY DEF IInv
<1>. QED  BY <1>1, Invariance, PTL

\* Every native statement always has exactly one owner.
THEOREM StatementOwners == Spec => []StatementsAccounted
<1>1. IInv => StatementsAccounted
  BY DEF IInv
<1>. QED  BY <1>1, Invariance, PTL

\* However deep callbacks nest, each reads the row it was called for.
THEOREM RowsOfCallbacks == Spec => []QueryCursorOnRow
<1>1. IInv => QueryCursorOnRow
  BY DEF IInv, Progress, QueryCursorOnRow
<1>. QED  BY <1>1, Invariance, PTL

\* Success is never reported for rows that were cut short: those of the one
\* statement query() compiles, those of all statements for exec().
THEOREM Completeness == Spec => []NoSilentTruncation
<1>1. IInv => NoSilentTruncation
  BY DEF IInv
<1>. QED  BY <1>1, Invariance, PTL

\* No call runs on a closed connection, although its own callbacks may
\* destroy the database it was called on, at any depth.
THEOREM OpenUnderCalls == Spec => []CallsOnOpenConnections
<1>1. IInv => CallsOnOpenConnections
  BY DEF IInv
<1>. QED  BY <1>1, Invariance, PTL

\* A database that cannot be closed was left with a statement of its user,
\* or destroyed in the middle of a call on it.
THEOREM CloseFailures == Spec => CloseFailsOnlyInUse
<1> DEFINE A == \A d \in Databases :
                  d \in unclosed' \ unclosed =>
                    \/ \E s \in user : stmt[s].db = d
                    \/ \E i \in Calls : call[i].db = d
<1>1. ASSUME IInv, [Next]_vars
      PROVE  A
  <2> SUFFICES ASSUME NEW d \in Databases, d \in unclosed', d \notin unclosed,
                      \A i \in Calls : call[i].db # d
               PROVE  \E s \in user : stmt[s].db = d
    OBVIOUS
  <2>1. Destroy(d)
    BY <1>1 DEF Next, User, Library, Callback, vars, objects, DefaultConstruct, Construct, Destroy,
      Refuse, OneCall, query, exec, Enter, UserPrepare, UserFinalize, QueryStep, QueryCallback,
      ExecNext, ExecStep, ExecCallback, UdfCall, UdfReturn, Return
  <2>2. PICK s \in Statements : stmt[s].db = d
    BY <2>1 DEF Destroy
  <2>3. \A i \in Calls : ~Owns(i, s)
    BY <1>1, <2>2 DEF IInv, Progress, Owns
  <2>4. s \in user
    BY <1>1, <2>2, <2>3 DEF IInv, StatementsAccounted, Live
  <2>. QED  BY <2>2, <2>4
<1>2. IInv /\ [Next]_vars => [A]_vars
  BY <1>1
<1>. QED
  BY <1>2, Invariance, PTL DEF Spec, CloseFailsOnlyInUse
-----------------------------------------------------------------------------
\* Two refinements.  The state of the two protocols: the pointer in each handle, what exists,
\* and what is owned through raw pointers.
HandleOf   == [d \in Databases |-> IF Handle(d) THEN d ELSE Null]
Opened     == {d \in Databases : conn[d] # "none"}
CursorOf   == [i \in 1..MaxDepth |-> call[i].cursor]
LiveStmts  == {s \in Statements : Live(s)}
RawStmts   == user \cup ({call[i].run : i \in 1..MaxDepth} \ {Null})

\* A step that leaves the objects and their connections alone.
LEMMA ConnStutter == UNCHANGED objects => UNCHANGED ConnHandles!vars
  BY DEF objects, ConnHandles!vars, Handle, Alive

\* A step of the objects is a step of the ownership protocol of connections.
LEMMA ConnStep ==
  ASSUME IInv, [Next]_vars
  PROVE  [ConnHandles!Next]_ConnHandles!vars
<1>. USE DEF HandleOf, Opened
<1>1. /\ object \in [Databases -> {"unborn", "UNOPENED", "opened", "failed", "gone"}]
      /\ conn \in [Databases -> {"none", "open", "sick"}]
  BY DEF IInv, TypeOK
<1>2. ASSUME NEW d \in Databases, DefaultConstruct(d)
      PROVE  UNCHANGED ConnHandles!vars
  <2>1. conn[d] = "none"
    BY <1>2 DEF DefaultConstruct, IInv, Unborn
  <2>2. \A c \in Databases : Handle(c)' <=> Handle(c)
    BY <1>1, <1>2, <2>1 DEF DefaultConstruct, Handle, Alive
  <2>3. HandleOf' = HandleOf /\ Opened' = Opened /\ unclosed' = unclosed
    BY <1>2, <2>2 DEF DefaultConstruct
  <2>. QED  BY <2>3 DEF ConnHandles!vars
<1>3. ASSUME NEW d \in Databases, Construct(d)
      PROVE  [ConnHandles!Next]_ConnHandles!vars
  <2>1. object[d] = "unborn" /\ conn[d] = "none" /\ unclosed' = unclosed
    BY <1>3 DEF Construct, IInv, Unborn
  <2>2. \A c \in Databases \ {d} : conn'[c] = conn[c] /\ (Handle(c)' <=> Handle(c))
    BY <1>1, <1>3 DEF Construct, Handle, Alive
  <2>3. ~Handle(d) /\ (Handle(d)' <=> conn'[d] # "none")
    BY <1>1, <1>3, <2>1 DEF Construct, Handle, Alive
  <2>4. CASE conn'[d] = "none"
    <3>1. \A c \in Databases : (conn'[c] # "none" <=> conn[c] # "none") /\ (Handle(c)' <=> Handle(c))
      BY <2>1, <2>2, <2>3, <2>4
    <3>2. HandleOf' = HandleOf /\ Opened' = Opened
      BY <3>1
    <3>. QED  BY <2>1, <3>2 DEF ConnHandles!vars
  <2>5. CASE conn'[d] # "none"
    <3>1. HandleOf[d] = Null /\ HandleOf' = [HandleOf EXCEPT ![d] = d]
      BY <2>2, <2>3, <2>5
    <3>2. d \in Databases \ Opened /\ Opened' = Opened \cup {d}
      BY <2>1, <2>2, <2>5
    <3>3. ConnHandles!Receive(d, d)
      BY <2>1, <3>1, <3>2 DEF ConnHandles!Receive, ConnHandles!Holds
    <3>. QED  BY <3>3 DEF ConnHandles!Next
  <2>. QED  BY <2>4, <2>5
<1>4. ASSUME NEW d \in Databases, Destroy(d)
      PROVE  [ConnHandles!Next]_ConnHandles!vars
  <2>1. \A c \in Databases \ {d} : conn'[c] = conn[c] /\ (Handle(c)' <=> Handle(c))
    BY <1>1, <1>4 DEF Destroy, Handle, Alive
  <2>2. Handle(d) <=> conn[d] # "none"
    BY <1>4 DEF Destroy, Handle
  <2>3. ~Handle(d)'
    BY <1>1, <1>4 DEF Destroy, Handle, Alive
  <2>4. \/ unclosed' = unclosed \cup {d} /\ conn' = conn /\ conn[d] # "none"
        \/ unclosed' = unclosed /\ conn'[d] = "none"
    <3>1. CASE \E s \in Statements : stmt[s].db = d
      <4>1. conn[d] = "open"
        BY <3>1 DEF IInv, CallsOnOpenConnections, Live
      <4>. QED  BY <1>4, <3>1, <4>1 DEF Destroy
    <3>2. CASE ~ \E s \in Statements : stmt[s].db = d
      <4>1. unclosed' = unclosed /\ conn' = [conn EXCEPT ![d] = "none"]
        BY <1>4, <3>2 DEF Destroy
      <4>. QED  BY <1>1, <4>1
    <3>. QED  BY <3>1, <3>2
  <2>5. CASE conn[d] = "none"
    <3>1. \A c \in Databases : (conn'[c] # "none" <=> conn[c] # "none") /\ (Handle(c)' <=> Handle(c))
      BY <2>1, <2>2, <2>3, <2>4, <2>5
    <3>2. HandleOf' = HandleOf /\ Opened' = Opened /\ unclosed' = unclosed
      BY <2>4, <2>5, <3>1
    <3>. QED  BY <3>2 DEF ConnHandles!vars
  <2>6. CASE conn[d] # "none"
    <3>1. HandleOf[d] = d /\ HandleOf' = [HandleOf EXCEPT ![d] = Null]
      BY <2>1, <2>2, <2>3, <2>6
    <3>2. \/ unclosed' = unclosed \cup {d} /\ Opened' = Opened
          \/ unclosed' = unclosed /\ Opened' = Opened \ {d}
      BY <2>1, <2>4
    <3>3. ConnHandles!Close(d, FALSE)
      <4>1. ConnHandles!Holds(d) /\ HandleOf[d] = d
        BY <3>1 DEF ConnHandles!Holds
      <4>2. ConnHandles!TraitClose(d, FALSE)
        BY <3>2 DEF ConnHandles!TraitClose
      <4>. QED  BY <4>1, <4>2 DEF ConnHandles!Close
    <3>4. ConnHandles!Destroy(d)
      BY <3>1, <3>3 DEF ConnHandles!Destroy, ConnHandles!Holds
    <3>. QED  BY <3>4 DEF ConnHandles!Next
  <2>. QED  BY <2>5, <2>6
<1>5. CASE UNCHANGED objects
  BY <1>5, ConnStutter
<1>6. \/ \E d \in Databases : DefaultConstruct(d) \/ Construct(d) \/ Destroy(d)
      \/ UNCHANGED objects
  BY DEF Next, User, Library, Callback, UdfReturn, vars, Refuse, OneCall, query, exec, Enter,
         UserPrepare, UserFinalize, QueryStep, QueryCallback, ExecNext, ExecStep, ExecCallback,
         UdfCall, Return, objects
<1>. QED  BY <1>2, <1>3, <1>4, <1>5, <1>6

(* The handle in every database object obeys the ownership protocol of     *)
(* unique_handle, whatever is opened, used and destroyed in callbacks.     *)
THEOREM ConnectionsOwned == Spec => ConnectionOwnership
<1>1. Init => ConnHandles!Init
  BY DEF Init, ConnHandles!Init, Handle, Alive
<1>. QED
  BY <1>1, ConnStep, Invariance, PTL DEF Spec, ConnectionOwnership, ConnHandles!Spec

\* A step that moves no cursor and no run, and prepares and finalizes nothing.
LEMMA StmtStutter ==
  ASSUME user' = user,
         \A i \in 1..MaxDepth : call'[i].cursor = call[i].cursor /\ call'[i].run = call[i].run,
         \A s \in Statements : Live(s)' <=> Live(s)
  PROVE  UNCHANGED StmtHandles!vars
<1>. USE DEF CursorOf, LiveStmts, RawStmts
<1>1. CursorOf' = CursorOf /\ LiveStmts' = LiveStmts /\ RawStmts' = RawStmts
  OBVIOUS
<1>. QED  BY <1>1 DEF StmtHandles!vars

\* A statement that some caller, or some sqlite3_exec, prepares.
LEMMA StmtOpened ==
  ASSUME NEW s \in Statements, ~Live(s),
         CursorOf' = CursorOf, RawStmts' = RawStmts \cup {s},
         \A t \in Statements : Live(t)' <=> Live(t) \/ t = s
  PROVE  StmtHandles!Next
<1>. USE DEF CursorOf, LiveStmts, RawStmts
<1>1. s \in Statements \ LiveStmts /\ LiveStmts' = LiveStmts \cup {s}
  OBVIOUS
<1>2. StmtHandles!CallerOpens(s)
  BY <1>1 DEF StmtHandles!CallerOpens
<1>. QED  BY <1>2 DEF StmtHandles!Next

\* A statement that its caller, or its sqlite3_exec, finalizes.
LEMMA StmtClosed ==
  ASSUME NEW s \in Statements, s \in RawStmts,
         CursorOf' = CursorOf, RawStmts' = RawStmts \ {s},
         \A t \in Statements : Live(t)' <=> Live(t) /\ t # s
  PROVE  StmtHandles!Next
<1>. USE DEF CursorOf, LiveStmts, RawStmts
<1>1. LiveStmts' = LiveStmts \ {s}
  OBVIOUS
<1>2. StmtHandles!CallerCloses(s)
  BY <1>1 DEF StmtHandles!CallerCloses
<1>. QED  BY <1>2 DEF StmtHandles!Next

\* The frames above the top own nothing; each run has one frame, no caller.
LEMMA RunsApart ==
  ASSUME IInv
  PROVE  /\ \A i \in 1..MaxDepth : i \notin Calls => call[i].run = Null /\ call[i].cursor = Null
         /\ \A i \in 1..MaxDepth : call[i].run # Null =>
              /\ call[i].run \in Statements \ user
              /\ \A j \in 1..MaxDepth : call[j].run = call[i].run => j = i
<1>1. /\ depth \in 0..MaxDepth /\ user \subseteq Statements
      /\ \A i \in 1..MaxDepth : call[i] \in Frame
  BY DEF IInv, TypeOK
<1>2. \A i \in 1..MaxDepth : i \notin Calls => call[i] = Idle
  BY <1>1 DEF IInv, Stack, Calls
<1>3. \A i \in 1..MaxDepth : i \notin Calls => call[i].run = Null /\ call[i].cursor = Null
  BY <1>2 DEF Idle
<1>4. ASSUME NEW i \in 1..MaxDepth, call[i].run # Null
      PROVE  /\ call[i].run \in Statements \ user
             /\ \A j \in 1..MaxDepth : call[j].run = call[i].run => j = i
  <2>1. i \in Calls /\ call[i].run \in Statements
    BY <1>1, <1>3, <1>4 DEF Frame
  <2>2. \A j \in 1..MaxDepth : call[j].run = call[i].run => j \in Calls
    BY <1>3, <1>4
  <2>. QED  BY <2>1, <2>2 DEF IInv, StatementsAccounted, Owns
<1>. QED  BY <1>3, <1>4

\* sqlite3_exec starts to run a statement, and ends.
LEMMA RunStarts ==
  ASSUME NEW i \in 1..MaxDepth, NEW s \in Statements,
         call[i].run = Null, call'[i].run = s, user' = user,
         \A j \in 1..MaxDepth : j # i => call'[j].run = call[j].run
  PROVE  RawStmts' = RawStmts \cup {s}
<1>1. {call'[j].run : j \in 1..MaxDepth} \ {Null} = ({call[j].run : j \in 1..MaxDepth} \ {Null}) \cup {s}
  <2>1. s # Null
    OBVIOUS
  <2>2. \A x : (\E j \in 1..MaxDepth : call'[j].run = x) /\ x # Null
           <=> ((\E j \in 1..MaxDepth : call[j].run = x) /\ x # Null) \/ x = s
    BY <2>1
  <2>. QED  BY <2>2
<1>. QED  BY <1>1 DEF RawStmts

LEMMA RunEnds ==
  ASSUME IInv, NEW i \in 1..MaxDepth,
         call[i].run # Null, call'[i].run = Null, user' = user,
         \A j \in 1..MaxDepth : j # i => call'[j].run = call[j].run
  PROVE  call[i].run \in RawStmts /\ RawStmts' = RawStmts \ {call[i].run}
<1> DEFINE s == call[i].run
<1>1. s \notin user /\ \A j \in 1..MaxDepth : call[j].run = s => j = i
  BY RunsApart
<1>2. {call'[j].run : j \in 1..MaxDepth} \ {Null} = ({call[j].run : j \in 1..MaxDepth} \ {Null}) \ {s}
  <2>1. \A x : (\E j \in 1..MaxDepth : call'[j].run = x) /\ x # Null
           <=> ((\E j \in 1..MaxDepth : call[j].run = x) /\ x # Null) /\ x # s
    BY <1>1
  <2>. QED  BY <2>1
<1>3. s \in {call[j].run : j \in 1..MaxDepth} \ {Null}
  OBVIOUS
<1>. QED  BY <1>1, <1>2, <1>3 DEF RawStmts

\* A call starts: the cursor, if there is one, receives a new statement.
LEMMA EnterMaps ==
  ASSUME IInv, NEW d \in Databases, NEW op, NEW pc, NEW cursor \in Statements \cup {Null},
         NEW left, Enter(d, op, pc, cursor, left)
  PROVE  [StmtHandles!Next]_StmtHandles!vars
<1> DEFINE n == depth + 1
<1>1. /\ n \in 1..MaxDepth /\ n \notin Calls /\ user' = user
      /\ call \in [1..MaxDepth -> Frame] /\ stmt \in [Statements -> Statement]
  BY DEF Enter, IInv, TypeOK, Calls
<1>2. /\ call' = [call EXCEPT ![n] =
                     [Idle EXCEPT !.op = op, !.db = d, !.cursor = cursor,
                                  !.left = left, !.pc = pc]]
      /\ IF cursor = Null THEN UNCHANGED stmt
         ELSE ~Live(cursor) /\ \E r \in 0..MaxRows : stmt' = Compile(cursor, d, r)
  BY DEF Enter
<1>3. /\ call'[n].cursor = cursor /\ call'[n].run = Null
      /\ \A i \in 1..MaxDepth : i # n => call'[i] = call[i]
  BY <1>1, <1>2 DEF Idle
<1>4. call[n].cursor = Null /\ call[n].run = Null
  BY <1>1, RunsApart
<1>5. CASE cursor = Null
  BY <1>1, <1>2, <1>3, <1>4, <1>5, StmtStutter DEF Live
<1>6. CASE cursor # Null
  <2>1. cursor \in Statements /\ ~Live(cursor)
    BY <1>2, <1>6
  <2>2. PICK r \in 0..MaxRows : stmt' = [stmt EXCEPT ![cursor] = [db |-> d, row |-> 0, rows |-> r]]
    BY <1>2, <1>6 DEF Compile
  <2>3. \A t \in Statements : Live(t)' <=> Live(t) \/ t = cursor
    BY <1>1, <2>1, <2>2 DEF Live
  <2>4. LiveStmts' = LiveStmts \cup {cursor} /\ cursor \in Statements \ LiveStmts
    BY <2>1, <2>3 DEF LiveStmts
  <2>5. CursorOf' = [CursorOf EXCEPT ![n] = cursor] /\ CursorOf[n] = Null
    BY <1>1, <1>3, <1>4 DEF CursorOf
  <2>6. RawStmts' = RawStmts
    BY <1>1, <1>3, <1>4 DEF RawStmts
  <2>7. StmtHandles!Receive(n, cursor)
    BY <2>4, <2>5, <2>6 DEF CursorOf, LiveStmts, RawStmts, StmtHandles!Receive, StmtHandles!Holds
  <2>. QED  BY <1>1, <2>1, <2>7 DEF StmtHandles!Next
<1>. QED  BY <1>2, <1>5, <1>6

\* A call returns: the cursor it holds is destroyed.
LEMMA ReturnMaps ==
  ASSUME IInv, Return
  PROVE  [StmtHandles!Next]_StmtHandles!vars
<1> DEFINE cursor == call[depth].cursor
<1>0. PICK top \in 1..MaxDepth : top = depth
  BY TopCall DEF Return
<1>1. /\ depth \in 1..MaxDepth /\ user' = user /\ call[depth].run = Null
      /\ call \in [1..MaxDepth -> Frame] /\ stmt \in [Statements -> Statement]
      /\ cursor \in Statements \cup {Null}
  BY TopCall DEF Return, IInv, TypeOK, Stack
<1>2. /\ call'[depth].cursor = Null /\ call'[depth].run = Null
      /\ \A i \in 1..MaxDepth : i # depth => call'[i] = call[i]
  BY <1>1 DEF Return, Idle
<1>3. \A t \in Statements : Live(t)' <=> Live(t) /\ t # cursor
  BY <1>1 DEF Return, Finalize, NoStmt, Live
<1>4. CASE cursor = Null
  BY <1>1, <1>2, <1>3, <1>4, StmtStutter
<1>5. CASE cursor # Null
  <2>1. LiveStmts' = LiveStmts \ {cursor}
    BY <1>3 DEF LiveStmts
  <2>2. CursorOf' = [CursorOf EXCEPT ![depth] = Null] /\ CursorOf[depth] = cursor
    BY <1>1, <1>2 DEF CursorOf
  <2>3. RawStmts' = RawStmts
    BY <1>1, <1>2 DEF RawStmts
  <2>4. StmtHandles!Holds(top)
    BY <1>0, <1>5, <2>2 DEF CursorOf, StmtHandles!Holds
  <2>5. StmtHandles!TraitClose(cursor, FALSE)
    BY <2>1 DEF LiveStmts, StmtHandles!TraitClose
  <2>6. StmtHandles!Close(top, FALSE)
    BY <1>0, <2>2, <2>4, <2>5 DEF CursorOf, StmtHandles!Close
  <2>7. StmtHandles!Destroy(top)
    BY <1>0, <2>2, <2>3, <2>4, <2>6 DEF CursorOf, RawStmts, StmtHandles!Destroy
  <2>. QED  BY <1>1, <2>7 DEF StmtHandles!Next
<1>. QED  BY <1>4, <1>5

\* What sqlite3_exec does between the callbacks, and their return.
LEMMA ExecMaps ==
  ASSUME IInv,
         ExecNext \/ ExecStep("step") \/ ExecStep("udf") \/ \E code \in CallbackCodes : ExecCallback(code)
  PROVE  [StmtHandles!Next]_StmtHandles!vars
<1> DEFINE s == call[depth].run
<1>0. depth > 0
  BY DEF ExecNext, ExecStep, ExecCallback, Running
<1>1. /\ depth \in 1..MaxDepth /\ user' = user
      /\ call \in [1..MaxDepth -> Frame] /\ stmt \in [Statements -> Statement]
      /\ s \in Statements \cup {Null}
      /\ ExecNext => s = Null
      /\ ~ExecNext => s # Null
  BY <1>0, TopCall DEF ExecNext, ExecStep, ExecCallback, Running, IInv, TypeOK, Stack
<1>2. PICK i \in 1..MaxDepth : i = depth
  BY <1>1
<1>3. ASSUME NEW g \in Frame, call' = [call EXCEPT ![depth] = g],
             g.cursor = call[depth].cursor
      PROVE  /\ CursorOf' = CursorOf /\ call'[i].run = g.run
             /\ \A j \in 1..MaxDepth : call'[j].cursor = call[j].cursor
             /\ \A j \in 1..MaxDepth : j # i => call'[j].run = call[j].run
  BY <1>1, <1>2, <1>3 DEF CursorOf
<1>4. ASSUME NEW g \in Frame, call' = [call EXCEPT ![depth] = g], \* no statement begins or ends
             g.cursor = call[depth].cursor, g.run = s,
             UNCHANGED stmt \/ (s \in Statements /\ stmt' = Step(s))
      PROVE  [StmtHandles!Next]_StmtHandles!vars
  <2>1. \A t \in Statements : Live(t)' <=> Live(t)
    <3>1. \A t \in Statements : stmt[t] \in Statement /\ stmt'[t].db = stmt[t].db
      <4>1. CASE UNCHANGED stmt
        BY <1>1, <4>1
      <4>2. CASE s \in Statements /\ stmt' = Step(s)
        <5>1. PICK u \in Statements : u = s
          BY <4>2
        <5>2. stmt' = [stmt EXCEPT ![u] = [stmt[u] EXCEPT !.row = stmt[u].row + 1]]
          BY <1>1, <4>2, <5>1 DEF Step
        <5>3. stmt[u] \in Statement => [stmt[u] EXCEPT !.row = stmt[u].row + 1].db = stmt[u].db
          BY DEF Statement
        <5>. QED  BY <1>1, <5>2, <5>3
      <4>. QED  BY <1>4, <4>1, <4>2
    <3>. QED  BY <3>1 DEF Live
  <2>2. \A j \in 1..MaxDepth : call'[j].cursor = call[j].cursor /\ call'[j].run = call[j].run
    BY <1>2, <1>3, <1>4
  <2>. QED  BY <1>1, <2>1, <2>2, StmtStutter
<1>5. ASSUME NEW g \in Frame, call' = [call EXCEPT ![depth] = g], \* sqlite3_finalize
             g.cursor = call[depth].cursor, g.run = Null, s # Null, stmt' = Finalize(s)
      PROVE  StmtHandles!Next
  <2>1. PICK t \in Statements : t = s
    BY <1>1, <1>5
  <2>2. \A u \in Statements : Live(u)' <=> Live(u) /\ u # t
    BY <1>1, <1>5, <2>1 DEF Finalize, NoStmt, Live
  <2>3. CursorOf' = CursorOf /\ t \in RawStmts /\ RawStmts' = RawStmts \ {t}
    BY <1>1, <1>2, <1>3, <1>5, <2>1, RunEnds
  <2>. QED  BY <2>2, <2>3, StmtClosed
<1>6. CASE ExecNext
  <2>1. ASSUME NEW code \in Codes, call' = ReturnOf(code), UNCHANGED stmt
        PROVE  [StmtHandles!Next]_StmtHandles!vars
    <3> DEFINE g == [call[depth] EXCEPT !.pc = "return", !.code = code]
    <3>1. g \in Frame /\ call' = [call EXCEPT ![depth] = g]
      <4>1. call[depth] \in Frame
        BY <1>1
      <4>2. g \in Frame
        BY <4>1, <2>1 DEF Frame
      <4>3. call' = [call EXCEPT ![depth] = g]
        BY <1>1, <2>1 DEF ReturnOf
      <4>. QED  BY <4>2, <4>3
    <3>2. g.cursor = call[depth].cursor /\ g.run = s
      BY <1>1 DEF Frame
    <3>. QED  BY <1>4, <2>1, <3>1, <3>2
  <2>2. ASSUME NEW t \in Statements, NEW n \in 0..MaxRows, ~Live(t), call[depth].left > 0,
               stmt' = Compile(t, call[depth].db, n),
               call' = [Go("step") EXCEPT ![depth].run = t, ![depth].sent = 0, ![depth].left = @ - 1]
        PROVE  StmtHandles!Next
    <3> DEFINE g == [call[depth] EXCEPT !.pc = "step", !.run = t, !.sent = 0,
                                        !.left = call[depth].left - 1]
    <3>1. call[depth].left - 1 \in 0..MaxScript
      BY <1>1, <2>2 DEF Frame
    <3>2. g \in Frame /\ call' = [call EXCEPT ![depth] = g]
      <4>1. call[depth] \in Frame /\ 0 \in 0..MaxRows
        BY <1>1
      <4>2. g \in Frame
        BY <3>1, <4>1 DEF Frame
      <4>3. call' = [call EXCEPT ![depth] = g]
        BY <1>1, <2>2 DEF Go, Frame
      <4>. QED  BY <4>2, <4>3
    <3>3. g.cursor = call[depth].cursor /\ g.run = t
      BY <1>1 DEF Frame
    <3>4. call[depth].db \in Databases
      BY <1>0, <1>1 DEF IInv, Stack, Calls
    <3>5. \A u \in Statements : Live(u)' <=> Live(u) \/ u = t
      BY <1>1, <2>2, <3>4 DEF Compile, Live
    <3>6. CursorOf' = CursorOf /\ RawStmts' = RawStmts \cup {t}
      BY <1>1, <1>2, <1>3, <1>6, <3>2, <3>3, RunStarts
    <3>. QED  BY <2>2, <3>5, <3>6, StmtOpened
  <2>3. "SQLITE_OK" \in Codes /\ ErrorCodes \subseteq Codes
    BY DEF Codes, NonErrors
  <2>. QED  BY <1>6, <2>1, <2>2, <2>3 DEF ExecNext
<1>7. CASE ExecStep("step") \/ ExecStep("udf")
  <2>1. ASSUME NEW to \in {"step", "callback"}, stmt[s].row < stmt[s].rows, stmt' = Step(s),
               call' = [Go(to) EXCEPT ![depth].sent = @ + 1]
        PROVE  [StmtHandles!Next]_StmtHandles!vars
    <3> DEFINE g == [call[depth] EXCEPT !.pc = to, !.sent = call[depth].sent + 1]
    <3>1. call[depth].run = Null <=> s = Null
      OBVIOUS
    <3>2. s \in Statements /\ call[depth].sent + 1 \in 0..MaxRows
      <4>1. s \in Statements /\ stmt[s].row = call[depth].sent
        BY <1>0, <1>1, <2>1, <1>7, TopCall DEF IInv, Progress, ExecNext, ExecStep, Running
      <4>. QED  BY <1>0, <1>1, <2>1, <4>1, TopCall DEF Owns
    <3>3. g \in Frame /\ call' = [call EXCEPT ![depth] = g]
      <4>1. call[depth] \in Frame
        BY <1>1
      <4>2. g \in Frame
        BY <3>2, <4>1 DEF Frame
      <4>3. call' = [call EXCEPT ![depth] = g]
        BY <1>1, <2>1 DEF Go, Frame
      <4>. QED  BY <4>2, <4>3
    <3>4. g.cursor = call[depth].cursor /\ g.run = s
      BY <1>1 DEF Frame
    <3>. QED  BY <1>4, <2>1, <3>2, <3>3, <3>4
  <2>2. CASE stmt' = Finalize(s) /\ call' = [Go("next") EXCEPT ![depth].run = Null]
    <3> DEFINE g == [call[depth] EXCEPT !.pc = "next", !.run = Null]
    <3>1. g \in Frame /\ call' = [call EXCEPT ![depth] = g]
      <4>1. call[depth] \in Frame
        BY <1>1
      <4>2. g \in Frame
        BY <4>1 DEF Frame
      <4>3. call' = [call EXCEPT ![depth] = g]
        BY <1>1, <2>2 DEF Go
      <4>. QED  BY <4>2, <4>3
    <3>2. g.cursor = call[depth].cursor /\ g.run = Null /\ s # Null
      BY <1>1, <1>7 DEF Frame, ExecNext, ExecStep, Running
    <3>. QED  BY <1>5, <2>2, <3>1, <3>2
  <2>3. ASSUME NEW e \in ErrorCodes, stmt' = Finalize(s),
               call' = [ReturnOf(e) EXCEPT ![depth].run = Null]
        PROVE  StmtHandles!Next
    <3> DEFINE g == [call[depth] EXCEPT !.pc = "return", !.code = e, !.run = Null]
    <3>1. g \in Frame /\ call' = [call EXCEPT ![depth] = g]
      <4>1. call[depth] \in Frame /\ e \in Codes
        BY <1>1 DEF Codes
      <4>2. g \in Frame
        BY <4>1 DEF Frame
      <4>3. call' = [call EXCEPT ![depth] = g]
        BY <1>1, <2>3 DEF ReturnOf
      <4>. QED  BY <4>2, <4>3
    <3>2. g.cursor = call[depth].cursor /\ g.run = Null /\ s # Null
      BY <1>1, <1>7 DEF Frame, ExecNext, ExecStep, Running
    <3>. QED  BY <1>5, <2>3, <3>1, <3>2
  <2>. QED  BY <1>7, <2>1, <2>2, <2>3 DEF ExecStep
<1>8. ASSUME NEW code \in CallbackCodes, ExecCallback(code)
      PROVE  [StmtHandles!Next]_StmtHandles!vars
  <2>1. CASE code = "SQLITE_OK"
    <3> DEFINE g == [call[depth] EXCEPT !.pc = "step"]
    <3>1. g \in Frame /\ call' = [call EXCEPT ![depth] = g] /\ UNCHANGED stmt
      <4>1. call[depth] \in Frame
        BY <1>1
      <4>2. g \in Frame
        BY <4>1 DEF Frame
      <4>3. call' = [call EXCEPT ![depth] = g] /\ UNCHANGED stmt
        BY <1>1, <1>8, <2>1 DEF ExecCallback, Go
      <4>. QED  BY <4>2, <4>3
    <3>2. g.cursor = call[depth].cursor /\ g.run = s
      BY <1>1 DEF Frame
    <3>. QED  BY <1>4, <3>1, <3>2
  <2>2. CASE code # "SQLITE_OK"
    <3> DEFINE g == [call[depth] EXCEPT !.pc = "return", !.code = "SQLITE_ABORT", !.run = Null]
    <3>1. g \in Frame /\ call' = [call EXCEPT ![depth] = g] /\ stmt' = Finalize(s)
      <4>1. call[depth] \in Frame /\ "SQLITE_ABORT" \in Codes
        BY <1>1 DEF Codes
      <4>2. g \in Frame
        BY <4>1 DEF Frame
      <4>3. call' = [call EXCEPT ![depth] = g] /\ stmt' = Finalize(s)
        BY <1>1, <1>8, <2>2 DEF ExecCallback, ReturnOf
      <4>. QED  BY <4>2, <4>3
    <3>2. g.cursor = call[depth].cursor /\ g.run = Null /\ s # Null
      BY <1>1, <1>8 DEF Frame, ExecNext, ExecCallback, Running
    <3>. QED  BY <1>5, <3>1, <3>2
  <2>. QED  BY <2>1, <2>2
<1>. QED  BY <1>6, <1>7, <1>8

\* query() while it steps and calls back, and a function that is called.
LEMMA QueryMaps ==
  ASSUME IInv,
         \/ QueryStep("step") \/ QueryStep("udf") \/ UdfCall
         \/ \E code \in CallbackCodes : QueryCallback(code)
  PROVE  UNCHANGED StmtHandles!vars
<1> DEFINE s == call[depth].cursor
<1>0. depth > 0
  BY DEF QueryStep, UdfCall, QueryCallback, Running
<1>1. /\ depth \in 1..MaxDepth /\ user' = user
      /\ call \in [1..MaxDepth -> Frame] /\ stmt \in [Statements -> Statement]
      /\ s \in Statements \cup {Null}
  BY <1>0, TopCall DEF QueryStep, UdfCall, QueryCallback, IInv, TypeOK
<1>2. \A j \in 1..MaxDepth : call'[j].cursor = call[j].cursor /\ call'[j].run = call[j].run
  <2>1. ASSUME NEW pc, NEW code, NEW sent,
               \/ call' = [call EXCEPT ![depth].pc = pc]
               \/ call' = [call EXCEPT ![depth].pc = pc, ![depth].code = code]
               \/ call' = [call EXCEPT ![depth].pc = pc, ![depth].sent = sent]
        PROVE  \A j \in 1..MaxDepth : call'[j].cursor = call[j].cursor /\ call'[j].run = call[j].run
    <3>1. call[depth] \in Frame
      BY <1>1
    <3>2. /\ [call[depth] EXCEPT !.pc = pc].cursor = s
          /\ [call[depth] EXCEPT !.pc = pc].run = call[depth].run
          /\ [call[depth] EXCEPT !.pc = pc, !.code = code].cursor = s
          /\ [call[depth] EXCEPT !.pc = pc, !.code = code].run = call[depth].run
          /\ [call[depth] EXCEPT !.pc = pc, !.sent = sent].cursor = s
          /\ [call[depth] EXCEPT !.pc = pc, !.sent = sent].run = call[depth].run
      BY <3>1 DEF Frame
    <3>. QED  BY <1>1, <2>1, <3>2
  <2>2. \E pc, code, sent :
          \/ call' = [call EXCEPT ![depth].pc = pc]
          \/ call' = [call EXCEPT ![depth].pc = pc, ![depth].code = code]
          \/ call' = [call EXCEPT ![depth].pc = pc, ![depth].sent = sent]
    <3>1. ASSUME NEW pc, QueryStep(pc)
          PROVE  \/ call' = [call EXCEPT ![depth].pc = "callback",
                                         ![depth].sent = call[depth].sent + 1]
                 \/ \E code : call' = [call EXCEPT ![depth].pc = "return", ![depth].code = code]
      <4>1. CASE call' = [Go("callback") EXCEPT ![depth].sent = @ + 1]
        <5>1. call' = [call EXCEPT ![depth].pc = "callback",
                                   ![depth].sent = call[depth].sent + 1]
          BY <1>1, <4>1 DEF Go, Frame
        <5>. QED  BY <5>1
      <4>2. CASE \E code : call' = ReturnOf(code)
        BY <4>2 DEF ReturnOf
      <4>. QED  BY <3>1, <4>1, <4>2 DEF QueryStep
    <3>2. ASSUME NEW code, QueryCallback(code)
          PROVE  \/ call' = [call EXCEPT ![depth].pc = "step"]
                 \/ call' = [call EXCEPT ![depth].pc = "return", ![depth].code = code]
      BY <3>2 DEF QueryCallback, Go, ReturnOf
    <3>3. UdfCall => call' = [call EXCEPT ![depth].pc = "udf"]
      BY DEF UdfCall, Go
    <3>. QED  BY <3>1, <3>2, <3>3
  <2>. QED  BY <2>1, <2>2
<1>3. \A t \in Statements : Live(t)' <=> Live(t)
  <2>1. CASE UNCHANGED stmt
    BY <2>1 DEF Live
  <2>2. CASE s # Null /\ stmt' = Step(s)
    <3>1. PICK u \in Statements : u = s
      BY <1>1, <2>2
    <3>2. stmt' = [stmt EXCEPT ![u] = [stmt[u] EXCEPT !.row = stmt[u].row + 1]]
      BY <1>1, <2>2, <3>1 DEF Step
    <3>3. stmt[u] \in Statement => [stmt[u] EXCEPT !.row = stmt[u].row + 1].db = stmt[u].db
      BY DEF Statement
    <3>4. \A t \in Statements : stmt'[t].db = stmt[t].db
      BY <1>1, <3>2, <3>3
    <3>. QED  BY <3>4 DEF Live
  <2>. QED  BY <2>1, <2>2 DEF QueryStep, UdfCall, QueryCallback
<1>. QED  BY <1>1, <1>2, <1>3, StmtStutter

\* A step of the database class is a step of the protocol of its statements.
LEMMA StmtStep ==
  ASSUME IInv, [Next]_vars
  PROVE  [StmtHandles!Next]_StmtHandles!vars
<1>1. stmt \in [Statements -> Statement] /\ user \subseteq Statements
  BY DEF IInv, TypeOK
<1>2. ASSUME NEW d \in Databases,
             DefaultConstruct(d) \/ Construct(d) \/ Destroy(d) \/ Refuse(d) \/ OneCall(d)
      PROVE  UNCHANGED StmtHandles!vars
  <2>1. UNCHANGED <<stmt, user, call>>
    BY <1>2 DEF DefaultConstruct, Construct, Destroy, Refuse, OneCall
  <2>. QED  BY <2>1, StmtStutter DEF Live
<1>3. ASSUME NEW d \in Databases, NEW s \in Statements, UserPrepare(d, s)
      PROVE  StmtHandles!Next
  <2>1. \A t \in Statements : Live(t)' <=> Live(t) \/ t = s
    BY <1>1, <1>3 DEF UserPrepare, Compile, Live
  <2>2. CursorOf' = CursorOf /\ RawStmts' = RawStmts \cup {s}
    BY <1>3 DEF UserPrepare, CursorOf, RawStmts
  <2>. QED  BY <1>3, <2>1, <2>2, StmtOpened DEF UserPrepare
<1>4. ASSUME NEW s \in Statements, UserFinalize(s)
      PROVE  StmtHandles!Next
  <2>1. \A t \in Statements : Live(t)' <=> Live(t) /\ t # s
    BY <1>1, <1>4 DEF UserFinalize, Finalize, NoStmt, Live
  <2>2. s \notin {call[i].run : i \in 1..MaxDepth}
    BY <1>4, RunsApart DEF UserFinalize
  <2>3. CursorOf' = CursorOf /\ s \in RawStmts /\ RawStmts' = RawStmts \ {s}
    BY <1>4, <2>2 DEF UserFinalize, CursorOf, RawStmts
  <2>. QED  BY <2>1, <2>3, StmtClosed
<1>5. ASSUME NEW d \in Databases, query(d) \/ exec(d)
      PROVE  [StmtHandles!Next]_StmtHandles!vars
  BY <1>5, EnterMaps DEF query, exec
<1>6. CASE User
  BY <1>2, <1>3, <1>4, <1>5, <1>6 DEF User
<1>7. CASE Library \/ Callback \/ UdfReturn
  BY <1>7, QueryMaps, ExecMaps, ReturnMaps DEF Library, Callback, UdfReturn
<1>8. CASE UNCHANGED vars
  BY <1>8, StmtStutter DEF vars, Live
<1>. QED  BY <1>6, <1>7, <1>8 DEF Next

(* The statement_ of every call of query() and exec() obeys the ownership  *)
(* protocol of unique_handle, and the statements of sqlite3_exec and of    *)
(* the caller are the raw pointers of that protocol.                       *)
THEOREM StatementsOwned == Spec => StatementOwnership
<1>1. Init => StmtHandles!Init
  BY DEF Init, StmtHandles!Init, Live, NoStmt, Idle
<1>. QED
  BY <1>1, StmtStep, Invariance, PTL DEF Spec, StatementOwnership, StmtHandles!Spec
=============================================================================
