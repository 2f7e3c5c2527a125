------------------------------- MODULE DbHash -------------------------------
(***************************************************************************)
(* main() of the hashing tool (hash_db/db_hashing.c): the command line is  *)
(* read (DbHashArgs), then its files are hashed, with hash_one_query and   *)
(* db_prepare, while other processes write to the same databases.          *)
(*                                                                         *)
(* What a database holds is its version, which a writer changes.  SQLite   *)
(* gives a connection one version for as long as one of its statements is  *)
(* running: the statement that lists the tables runs around the queries of *)
(* the tables.  Any call of SQLite may fail.  One context g.cx and one     *)
(* connection g.db serve all files; what went into the context is a        *)
(* sequence of pieces, each the rows of one query.                         *)
(***************************************************************************)
EXTENDS DbHashArgs

CONSTANTS
  MaxTables,    \* bound: how many tables of a database match --like
  MaxVersion    \* bound: what writers change

ASSUME DbHashAssumption == {MaxTables, MaxVersion} \subseteq Nat \ {0}

VARIABLES
  version,   \* what is in each file, as committed last
  open,      \* the connections that were opened and not closed, by i
  live,      \* the statement of main that is running: "tables", or none
  snapshot,  \* the version g.db sees, 0 outside of every transaction
  next,      \* the table hashed next
  cx,        \* what was hashed since hash_init
  printed    \* the lines of output

args  == <<given, argv, nFile, zLike, omit>>
files == <<version, open, live, snapshot, next, cx, printed>>
vars  == <<args, i, pc, files>>

Piece(file, name, seen, whole) ==
  [file |-> file, name |-> name, version |-> seen, whole |-> whole]
Table(t)   == <<"table", t>>
Schema     == <<"schema", 0>>

Init ==
  /\ ArgsInit
  /\ version = [f \in Files |-> 1]
  /\ open = {} /\ live = {} /\ snapshot = 0 /\ next = 1
  /\ cx = <<>> /\ printed = <<>>
-----------------------------------------------------------------------------
Parse == ReadArgs /\ UNCHANGED files

(* The loop over the files starts.  What it does not use is forgotten: the *)
(* command line behind the files.                                          *)
Begin ==
  /\ pc = "run" /\ pc' = "open"
  /\ i' = 1
  /\ argv' = SubSeq(argv, 1, nFile) /\ given' = <<>> /\ zLike' = 0
  /\ UNCHANGED <<nFile, omit, files>>

zDb == argv[i]

(* The version a statement sees when it runs. *)
Seen == IF live = {} THEN version[zDb] ELSE snapshot

(* Another process commits. *)
Write(f) ==
  /\ version[f] < MaxVersion
  /\ version' = [version EXCEPT ![f] = @ + 1]
  /\ UNCHANGED <<args, i, pc, open, live, snapshot, next, cx, printed>>

NextFile == i' = i + 1 /\ pc' = "open"

(* sqlite3_open_v2 that fails makes a connection all the same; it is never *)
(* closed.                                                                 *)
OpenFails ==
  /\ pc = "open" /\ i <= nFile
  /\ open' = open \cup {i}
  /\ NextFile
  /\ UNCHANGED <<args, version, live, snapshot, next, cx, printed>>

(* The file is no database, or cannot be read now. *)
NotValid ==
  /\ pc = "open" /\ i <= nFile
  /\ NextFile
  /\ UNCHANGED <<args, version, open, live, snapshot, next, cx, printed>>

(* A mutant of StartHash: the context is not initialised again. *)
StartHashContinues ==
  /\ pc = "open" /\ i <= nFile
  /\ open' = open \cup {i}
  /\ next' = 1
  /\ pc' = IF "content" \in omit THEN "schema" ELSE "list"
  /\ UNCHANGED <<args, version, i, live, snapshot, cx, printed>>

(* A database: hash_init, on a connection that stays open. *)
StartHash ==
  /\ pc = "open" /\ i <= nFile
  /\ open' = open \cup {i}
  /\ cx' = <<>> /\ next' = 1
  /\ pc' = IF "content" \in omit THEN "schema" ELSE "list"
  /\ UNCHANGED <<args, version, i, live, snapshot, printed>>

(* db_prepare that fails: runtimeError ends the program. *)
PrepareFails ==
  /\ pc \in {"list", "table", "schema"}
  /\ pc' = "failed"
  /\ UNCHANGED <<args, version, i, open, live, snapshot, next, cx, printed>>

ListTables ==
  /\ pc = "list" /\ pc' = "table"
  /\ live' = {"tables"} /\ snapshot' = version[zDb]
  /\ UNCHANGED <<args, version, i, open, next, cx, printed>>

(* A mutant of HashTable: the list was read to its end before the tables   *)
(* are.                                                                    *)
HashTableAlone ==
  /\ pc = "table" /\ next <= MaxTables
  /\ \E whole \in BOOLEAN :
       cx' = Append(cx, Piece(zDb, Table(next), version[zDb], whole))
  /\ next' = next + 1
  /\ UNCHANGED <<args, version, i, open, live, snapshot, printed, pc>>

(* hash_one_query of a table: a step that fails ends the rows like the     *)
(* last row does, and the piece is not whole.                              *)
HashTable ==
  /\ pc = "table" /\ next <= MaxTables
  /\ \E whole \in BOOLEAN :
       cx' = Append(cx, Piece(zDb, Table(next), Seen, whole))
  /\ next' = next + 1
  /\ UNCHANGED <<args, version, i, open, live, snapshot, printed, pc>>

(* Two mutants of TablesDone: the statement is not finalized; it is run    *)
(* again, as sqlite3_reset would have it.                                  *)
TablesDoneKeeps ==
  /\ pc = "table"
  /\ pc' = IF "schema" \in omit THEN "finish" ELSE "schema"
  /\ UNCHANGED <<args, version, i, open, live, snapshot, next, cx, printed>>

TablesDoneRestarts ==
  /\ pc = "table"
  /\ live' = {} /\ snapshot' = 0
  /\ pc' = "list"
  /\ UNCHANGED <<args, version, i, open, next, cx, printed>>

(* The end of the list, or a step of it that fails: the same to the loop.  *)
TablesDone ==
  /\ pc = "table"
  /\ live' = {} /\ snapshot' = 0
  /\ pc' = IF "schema" \in omit THEN "finish" ELSE "schema"
  /\ UNCHANGED <<args, version, i, open, next, cx, printed>>

(* hash_one_query of the schema, in a transaction of its own. *)
HashSchema ==
  /\ pc = "schema" /\ pc' = "finish"
  /\ \E whole \in BOOLEAN : cx' = Append(cx, Piece(zDb, Schema, Seen, whole))
  /\ UNCHANGED <<args, version, i, open, live, snapshot, next, printed>>

(* hash_finish prints the line; sqlite3_close refuses only while there are *)
(* statements.                                                             *)
FinishFile ==
  /\ pc = "finish"
  /\ printed' = Append(printed, [file |-> i, pieces |-> cx])
  /\ open' = IF live = {} THEN open \ {i} ELSE open
  /\ NextFile
  /\ UNCHANGED <<args, version, live, snapshot, next, cx>>

Exit ==
  /\ pc = "open" /\ i > nFile /\ pc' = "exit"
  /\ UNCHANGED <<args, version, i, open, live, snapshot, next, cx, printed>>

Main ==
  \/ Parse \/ Begin
  \/ OpenFails \/ NotValid \/ StartHash \/ PrepareFails \/ ListTables
  \/ HashTable \/ TablesDone \/ HashSchema \/ FinishFile \/ Exit

Next == Main \/ \E f \in Files : Write(f)
Spec == Init /\ [][Next]_vars
FairSpec == Spec /\ WF_vars(Main)
-----------------------------------------------------------------------------
Pieces == [file : Files, name : {Schema} \cup {Table(t) : t \in 1..MaxTables},
           version : 1..MaxVersion, whole : BOOLEAN]

TypeOK ==
  /\ \A k \in 1..Len(argv) : argv[k] \in Files \cup Options
  /\ nFile \in 0..Len(argv) /\ i \in 1..Len(argv) + 1
  /\ zLike \in {0, 1} /\ omit \subseteq {"schema", "content"}
  /\ version \in [Files -> 1..MaxVersion]
  /\ open \subseteq 1..nFile
  /\ live \subseteq {"tables"} /\ snapshot \in 0..MaxVersion
  /\ snapshot # 0 <=> live # {}
  /\ next \in 1..MaxTables + 1
  /\ Len(cx) <= MaxTables + 1 /\ \A k \in 1..Len(cx) : cx[k] \in Pieces
  /\ Len(printed) < i
  /\ pc \in {"parse", "run", "help", "error",
             "open", "list", "table", "schema", "finish", "exit", "failed"}

Lines == {printed[k] : k \in 1..Len(printed)}
PiecesOf(line) == {line.pieces[k] : k \in 1..Len(line.pieces)}

(* A line of output depends on nothing but the file it names: the tables   *)
(* of that file in order, each once, then its schema, without what the     *)
(* options leave out.  The context and the connection are shared by all    *)
(* files, and files that could not be read are in between.  The tables may *)
(* be the first ones only: a list that ends in an error ends like any.     *)
LineOfItsFile ==
  \A line \in Lines :
    /\ \A piece \in PiecesOf(line) : piece.file = argv[line.file]
    /\ \E n \in 0..MaxTables :
         /\ "content" \in omit => n = 0
         /\ [k \in 1..Len(line.pieces) |-> line.pieces[k].name] =
              [k \in 1..n |-> Table(k)] \o (IF "schema" \in omit THEN <<>> ELSE <<Schema>>)

(* The tables of one line are all hashed as they were at one moment, while *)
(* others write: the statement that lists them keeps the transaction open. *)
(* The schema is read later, and never as it was before.                   *)
TablesOfOneMoment ==
  \A line \in Lines : \A p, q \in PiecesOf(line) :
    /\ p.name # Schema /\ q.name # Schema => p.version = q.version
    /\ q.name = Schema => p.version <= q.version

(* The connection of every file that was hashed is closed: sqlite3_close   *)
(* finds no statement left.  Only the opens that failed leave one behind.  *)
HashedAreClosed == \A line \in Lines : line.file \notin open

(* "Compute the hash for all rows of the query" (db_hashing.c:294).        *)
AllRowsHashed ==
  \A line \in Lines : \A piece \in PiecesOf(line) : piece.whole

(* The program ends, whatever others write meanwhile. *)
Terminates == <>(pc \in {"help", "error", "exit", "failed"})
=============================================================================
