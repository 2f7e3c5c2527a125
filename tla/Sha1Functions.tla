--------------------------- MODULE Sha1Functions ---------------------------
(***************************************************************************)
(* The users of the SHA1 engine: the SQL functions sha1(X) and             *)
(* sha1_query(Y) of hash_db/sha1.c, each with a context of its own, and    *)
(* the pieces of anybody else, in a context that is used again.            *)
(*                                                                         *)
(* sha1_query compiles the statements of Y one after the other, runs those *)
(* that are queries, and hashes their texts and results in an encoding of  *)
(* its own.  Bytes are named by the character they would be.  The texts,   *)
(* blobs and SQL here are made of the very characters the encoding uses as *)
(* marks, so that a value that looks like a mark is among the cases; the   *)
(* eight bytes of a number are one such character.                         *)
(***************************************************************************)
EXTENDS Sha1

CONSTANTS
  Alphabet,       \* the characters of texts, blobs and SQL
  MaxText,        \* bound: how long texts and blobs are
  MaxSql,         \* bound: how long the SQL of a statement is
  MaxColumns,     \* bound: the columns of a query
  MaxStatements,  \* bound: the statements of Y
  MaxValues       \* bound: the values in all results

Digits == <<"1", "2", "3", "4", "5", "6", "7", "8", "9">>

ASSUME Sha1FunctionsAssumption ==
  /\ MaxText \in 1..Len(Digits) /\ MaxSql \in 1..MaxText
  /\ {MaxColumns, MaxStatements, MaxValues} \subseteq Nat \ {0}

VARIABLES
  registered,  \* the functions the connection knows
  caller,      \* who uses the engine
  left,        \* the statements of Y that were not compiled yet
  nCol,        \* the columns of pStmt, or NoStatement
  hashed,      \* what was hashed: the argument, or statements, rows, values
  failed,      \* a step answered an error
  result       \* of a function that does not come to hash_finish

query == <<left, nCol, failed>>
vars == <<engine, registered, caller, query, hashed, result>>

NoStatement == -1

Item(mark, bytes) == [mark |-> mark, bytes |-> bytes]
Texts  == UNION {[1..n -> Alphabet] : n \in 0..MaxText}
Sqls   == UNION {[1..n -> Alphabet] : n \in 1..MaxSql}
Values ==
  {Item("N", <<>>)} \cup {Item(t, <<c>>) : t \in {"I", "F"}, c \in Alphabet}
    \cup {Item(t, x) : t \in {"T", "B"}, x \in Texts}
Row == Item("R", <<>>)
Rows(n) == [1..n -> Values]

\* How many values were hashed.
Count == Len(SelectSeq(hashed, LAMBDA item : item.mark \notin {"S", "R"}))

Bytes(chars) == [at \in 1..Len(chars) |-> <<chars[at]>>]
Chars(bytes) == [at \in 1..Len(bytes) |-> bytes[at][1]]

Init ==
  /\ EngineInit
  /\ registered = {} /\ caller = "none"
  /\ left = 0 /\ nCol = NoStatement /\ hashed = <<>> /\ failed = FALSE
  /\ result = "none"
-----------------------------------------------------------------------------
(* sha1_query is registered only after sha1 was.                           *)
sqlite3_sha_init ==
  /\ caller = "none" /\ registered = {}
  /\ registered' \in {{"sha1"}, {"sha1", "sha1_query"}}
  /\ UNCHANGED <<engine, caller, query, hashed, result>>

(* A call; the hash of a NULL is NULL. *)
Call(f) ==
  /\ caller = "none" /\ caller' = f
  /\ left' \in IF f = "sha1_query" THEN 0..MaxStatements ELSE {0}
  /\ result' \in IF f = "pieces" THEN {"none"} ELSE {"none", "NULL"}
  /\ UNCHANGED <<engine, registered, nCol, failed, hashed>>

Working(f) == caller = f /\ result = "none" /\ pc = "input"

(* sha1(X): all of X in one step, whatever its type. *)
Sha1Step ==
  /\ Working("sha1") /\ hashed = <<>>
  /\ \E x \in Texts : HashStep(Bytes(x)) /\ hashed' = <<Item("X", x)>>
  /\ UNCHANGED <<registered, caller, query, result>>

(* A mutant of Encoded: the length of a value does not go before it, as in *)
(* hash_one_query of db_hashing.c.                                         *)
EncodedBare(item) == <<item.mark>> \o item.bytes

(* What goes into the hash: "S%d:", "T%d:" and "B%d:" with the bytes, "R", *)
(* "N", and "I" or "F" with the number.                                    *)
Encoded(item) ==
  IF item.mark \notin {"S", "T", "B"} THEN <<item.mark>> \o item.bytes
  ELSE IF item.bytes = <<>> THEN <<item.mark, "0", ":">>
  ELSE <<item.mark, Digits[Len(item.bytes)], ":">> \o item.bytes

\* The items one after the other, in steps of the engine as they come.
Hash(items) ==
  LET bytes[k \in 0..Len(items)] ==
        IF k = 0 THEN <<>> ELSE bytes[k - 1] \o Encoded(items[k])
  IN HashStep(Bytes(bytes[Len(items)])) /\ hashed' = hashed \o items

Between == Working("sha1_query") /\ nCol = NoStatement

(* sqlite3_prepare_v2 of a statement that only reads.  One without columns *)
(* is as good as a query, BEGIN for instance: it has no rows.              *)
Compile ==
  /\ Between /\ left > 0
  /\ left' = left - 1
  /\ \E sql \in Sqls : Hash(<<Item("S", sql)>>)
  /\ nCol' \in 0..MaxColumns
  /\ UNCHANGED <<registered, caller, failed, result>>

(* SQL that does not compile, or a statement that writes: it is finalized, *)
(* never run, and the function answers an error.  What is left of Y may    *)
(* also be blank or a comment: it compiles to no statement, which          *)
(* sqlite3_stmt_readonly takes for a query, and strlen gets the null       *)
(* sqlite3_sql answers.                                                    *)
Reject ==
  /\ Between /\ left > 0
  /\ result' \in {"error", "crash"}
  /\ UNCHANGED <<engine, registered, caller, query, hashed>>

(* A row: its mark, then its values. *)
StepRow ==
  /\ Working("sha1_query") /\ nCol > 0 /\ Count + nCol <= MaxValues
  /\ \E row \in Rows(nCol) : Hash(<<Row>> \o row)
  /\ UNCHANGED <<registered, caller, query, result>>

(* The last row was read, or sqlite3_step failed: the loop ends the same.  *)
StepEnds ==
  /\ Working("sha1_query") /\ nCol # NoStatement /\ nCol' = NoStatement
  /\ failed' \in {failed, TRUE}
  /\ UNCHANGED <<engine, registered, caller, left, hashed, result>>

Finish ==
  /\ \/ Working("sha1") /\ hashed # <<>>
     \/ Between /\ left = 0
  /\ HashFinish
  /\ UNCHANGED <<registered, caller, query, hashed, result>>

EngineAlone ==
  /\ \/ Padding
     \/ caller = "pieces" /\ Pieces
  /\ UNCHANGED <<registered, caller, query, hashed, result>>

Next ==
  \/ sqlite3_sha_init \/ \E f \in registered \cup {"pieces"} : Call(f)
  \/ Sha1Step \/ Compile \/ Reject \/ StepRow \/ StepEnds
  \/ Finish \/ EngineAlone

Spec == Init /\ [][Next]_vars
FairSpec == Spec /\ WF_vars(Padding /\ EngineAlone)
-----------------------------------------------------------------------------
(* The reader of the encoding: what the characters from a position on      *)
(* stand for.                                                              *)
Length(digit) ==
  IF \E n \in 1..Len(Digits) : Digits[n] = digit
  THEN CHOOSE n \in 1..Len(Digits) : Digits[n] = digit ELSE 0

\* The item at a position: how many characters it takes, and what it is.
LengthAt(chars, at) == IF at < Len(chars) THEN Length(chars[at + 1]) ELSE 0
SizeAt(chars, at) ==
  IF chars[at] \in {"S", "T", "B"} THEN 3 + LengthAt(chars, at)
  ELSE IF chars[at] \in {"I", "F"} THEN 2 ELSE 1
ItemAt(chars, at) ==
  Item(chars[at], SubSeq(chars, IF chars[at] \in {"S", "T", "B"} THEN at + 3 ELSE at + 1,
                                at + SizeAt(chars, at) - 1))

Decoded(chars) ==
  LET from[at \in 1..Len(chars) + 12] ==
        IF at > Len(chars) THEN <<>>
        ELSE <<ItemAt(chars, at)>> \o from[at + SizeAt(chars, at)]
  IN from[1]

TypeOK ==
  /\ EngineTypeOK
  /\ registered \subseteq {"sha1", "sha1_query"}
  /\ caller \in {"none", "pieces"} \cup registered
  /\ left \in 0..MaxStatements /\ nCol \in {NoStatement} \cup 0..MaxColumns
  /\ failed \in BOOLEAN /\ result \in {"none", "NULL", "error", "crash"}

(* "The hash is not just a concatenation of the outputs" (sha1.c:276-278): *)
(* the bytes tell which statements were run, and which rows, types and     *)
(* values each of them gave, whatever the values look like.  Equal hashes  *)
(* mean equal results.                                                     *)
Unambiguous == caller = "sha1_query" => Decoded(Chars(message)) = hashed

(* "The results are hashed" (sha1.c:272): all of them. *)
ResultsComplete == caller = "sha1_query" /\ pc = "done" => ~failed

(* "evalutes all queries in the SQL statements of Y and returns a hash of  *)
(* their results" (sha1.c:23): it returns.                                 *)
Returns == result # "crash"
=============================================================================
