------------------------------- MODULE Values -------------------------------
(***************************************************************************)
(* Texts on their way between SQLite and C++, and how long they live.      *)
(* database::query runs "SELECT x, f(x)": in each step SQLite calls the    *)
(* user defined function f with x, through udf_holder or natively; then    *)
(* the row callback reads the two columns through a cursor_iterator, and   *)
(* may keep what it read for as long as it likes.                          *)
(*                                                                         *)
(* Memory is made of cells that hold one text each.  SQLite owns the texts *)
(* of the row its statement stands on; the other cells are buffers         *)
(* (vector<char>), which die with the variable that holds them.  A text is *)
(* named by the row it comes from.                                         *)
(***************************************************************************)
EXTENDS Naturals, FiniteSets

CONSTANTS
  Cells,    \* places in memory
  Rows,     \* how many rows the query has
  MaxKept   \* bound: the texts callbacks keep

Nothing == "nothing"   \* no cell

ASSUME ValuesAssumption ==
  Rows \in Nat /\ MaxKept \in Nat /\ IsFiniteSet(Cells) /\ Nothing \notin Cells

VARIABLES
  mem,     \* the text in each cell, Free when there is none
  pc,
  row,     \* the row of the statement
  x, fx,   \* the two columns of that row
  word,    \* the local buffer of the function, word_
  kept,    \* what callbacks kept: the cell, and the text it should hold
  status   \* the status of the last call: a string_view, or Nothing

vars == <<mem, pc, row, x, fx, word, kept, status>>

Free     == 0
NullText == Rows + 1                       \* "NULL"
Message  == Rows + 2                       \* what sqlite3_errstr answers
Contents == Free..Message

\* A column: an integer is a value, a text is in a cell.
Null          == [type |-> "null"]
Integer(v)    == [type |-> "integer", value |-> v]
Text(c, how)  == [type |-> "text", at |-> c, destructor |-> how]
Column        == {Null} \cup {Integer(v) : v \in Contents}
                   \cup {Text(c, how) : c \in Cells, how \in {"transient", "static"}}

\* What the columns of the row must read as; a number is as good as the
\* text it was computed from.
TextOfRow == IF x = Null THEN NullText ELSE row

FreeCells == {c \in Cells : mem[c] = Free}

\* The cells that belong to the row: SQLite does not own a static text.
CellsOf(column) ==
  IF column.type = "text" /\ column.destructor = "transient" THEN {column.at} ELSE {}
Released(cells) == [c \in Cells |-> IF c \in cells THEN Free ELSE mem[c]]

Init ==
  /\ mem = [c \in Cells |-> Free] /\ pc = "idle" /\ row = 0
  /\ x = Null /\ fx = Null /\ word = Nothing
  /\ kept = {} /\ status = Nothing
-----------------------------------------------------------------------------
(* A call that is refused: the message is a buffer, the status a           *)
(* string_view of it, and the buffer dies with the return statement.       *)
Refused ==
  /\ pc = "idle"
  /\ \E c \in FreeCells : status' = c
  /\ UNCHANGED <<mem, pc, row, x, fx, word, kept>>

(* query(): the statement is prepared. *)
Query ==
  /\ pc = "idle" /\ pc' = "step"
  /\ row' = 0 /\ status' = Nothing
  /\ UNCHANGED <<mem, x, fx, word, kept>>

(* sqlite3_step answers SQLITE_ROW.                                        *)
HasRow == row < Rows

(* sqlite3_step: the texts of the last row go, and the argument of f is a  *)
(* text or NULL.                                                           *)
Step ==
  /\ pc = "step" /\ HasRow /\ row' = row + 1 /\ pc' = "udf"
  /\ LET left == Released(CellsOf(x) \cup CellsOf(fx))
     IN \/ \E c \in Cells :
             /\ left[c] = Free
             /\ x' = Text(c, "transient") /\ mem' = [left EXCEPT ![c] = row + 1]
        \/ x' = Null /\ mem' = left
  /\ fx' = Null
  /\ UNCHANGED <<word, kept, status>>

(* The rows are done, or a step failed, or the callback stopped: the       *)
(* statement is finalized.                                                 *)
Finalize ==
  /\ pc \in {"step", "callback"} /\ pc' = "idle"
  /\ mem' = Released(CellsOf(x) \cup CellsOf(fx))
  /\ x' = Null /\ fx' = Null
  /\ UNCHANGED <<row, word, kept, status>>

(* A mutant of udf_argument: the buffer is static, and is made once. *)
udf_argument_once ==
  /\ pc = "udf" /\ word = Nothing
  /\ \E c \in FreeCells :
       /\ word' = c
       /\ mem' = [mem EXCEPT ![c] = IF x = Null THEN NullText ELSE 1]
  /\ UNCHANGED <<pc, row, x, fx, kept, status>>

(* word_ = args_(0): a copy of the argument, "NULL" for a NULL.            *)
udf_argument ==
  /\ pc = "udf" /\ word = Nothing
  /\ \E c \in FreeCells :
       /\ word' = c
       /\ mem' = [mem EXCEPT ![c] = IF x = Null THEN NullText ELSE mem[x.at]]
  /\ UNCHANGED <<pc, row, x, fx, kept, status>>

(* result_(number): what palindrome and strlen compute from word_, which   *)
(* dies as they return.                                                    *)
udf_retval_number ==
  /\ pc = "udf" /\ word # Nothing /\ pc' = "callback"
  /\ fx' = Integer(mem[word])
  /\ mem' = Released({word}) /\ word' = Nothing
  /\ UNCHANGED <<row, x, kept, status>>

(* A mutant of udf_retval_text: SQLite is told to free what is the buffer's*)
(* own.                                                                    *)
udf_retval_frees ==
  /\ pc = "udf" /\ word # Nothing /\ pc' = "callback"
  /\ fx' = Text(word, "transient")
  /\ mem' = Released({word}) /\ word' = Nothing
  /\ UNCHANGED <<row, x, kept, status>>

(* result_(word_): SQLite takes the pointer for a constant, since the      *)
(* destructor is null, and word_ dies.                                     *)
udf_retval_text ==
  /\ pc = "udf" /\ word # Nothing /\ pc' = "callback"
  /\ fx' = Text(word, "static")
  /\ mem' = Released({word}) /\ word' = Nothing
  /\ UNCHANGED <<row, x, kept, status>>

(* return_error: SQLite copies the message, and the step fails.            *)
return_error ==
  /\ pc = "udf" /\ word # Nothing /\ pc' = "idle"
  /\ mem' = Released({word} \cup CellsOf(x)) /\ word' = Nothing
  /\ x' = Null
  /\ UNCHANGED <<row, fx, kept, status>>

(* A native function, as firstchar_udf: SQLite copies the result.          *)
native_udf ==
  /\ pc = "udf" /\ word = Nothing /\ pc' = "callback"
  /\ \/ x = Null /\ UNCHANGED <<fx, mem>>
     \/ /\ x # Null
        /\ \E c \in FreeCells :
             fx' = Text(c, "transient") /\ mem' = [mem EXCEPT ![c] = mem[x.at]]
  /\ UNCHANGED <<row, x, word, kept, status>>

\* The texts sqlite3_column_text may answer: behind a dead pointer is
\* anything.
ColumnText(column) ==
  CASE column.type = "null"    -> {NullText}
    [] column.type = "integer" -> {column.value}
    [] OTHER -> IF mem[column.at] = Free THEN Contents \ {Free} ELSE {mem[column.at]}

IsDead(column) == column.type = "text" /\ column.destructor = "static"

(* cursor_iterator::to_text in the callback: a copy, of a text or, if it   *)
(* is forced, of any value; a NULL that is forced is "NULL".  The callback *)
(* keeps it.                                                               *)
to_text(column, force) ==
  /\ pc = "callback" /\ Cardinality(kept) < MaxKept
  /\ force \/ column.type = "text"
  /\ \E c \in FreeCells, text \in ColumnText(column) :
       /\ mem' = [mem EXCEPT ![c] = text]
       /\ kept' = kept \cup {[at |-> c, says |-> TextOfRow, dead |-> IsDead(column)]}
  /\ UNCHANGED <<pc, row, x, fx, word, status>>

(* The user is done with a text. *)
Forget ==
  /\ pc \in {"idle", "callback"}
  /\ \E k \in kept : kept' = kept \ {k} /\ mem' = Released({k.at})
  /\ UNCHANGED <<pc, row, x, fx, word, status>>

CallbackReturns ==
  /\ pc = "callback" /\ pc' = "step"
  /\ UNCHANGED <<mem, row, x, fx, word, kept, status>>

Next ==
  \/ Refused \/ Query \/ Step \/ Finalize
  \/ udf_argument \/ udf_retval_number \/ udf_retval_text
  \/ return_error \/ native_udf
  \/ \E column \in {x, fx}, force \in BOOLEAN : to_text(column, force)
  \/ Forget \/ CallbackReturns

Spec == Init /\ [][Next]_vars
-----------------------------------------------------------------------------
TypeOK ==
  /\ mem \in [Cells -> Contents] /\ row \in 0..Rows
  /\ pc \in {"idle", "step", "udf", "callback"}
  /\ x \in Column /\ fx \in Column /\ word \in Cells \cup {Nothing}
  /\ kept \subseteq [at : Cells, says : Contents, dead : BOOLEAN]
  /\ status \in Cells \cup {Nothing}

(* What a callback keeps of a row stays the text of that row, through all  *)
(* later steps, calls of functions and queries, and after the statement is *)
(* gone.  Left out is what was read behind a dead pointer.                 *)
KeptIsOfItsRow == \A k \in kept : ~k.dead => mem[k.at] = k.says

(* Every cell in use has exactly one owner, SQLite or a buffer: nothing is *)
(* freed twice and nothing is lost.                                        *)
OneOwnerEach ==
  /\ {c \in Cells : mem[c] # Free} =
       CellsOf(x) \cup CellsOf(fx) \cup ({word} \ {Nothing}) \cup {k.at : k \in kept}
  /\ Cardinality({c \in Cells : mem[c] # Free}) =
       Cardinality(CellsOf(x)) + Cardinality(CellsOf(fx)) + Cardinality(kept)
         + (IF word = Nothing THEN 0 ELSE 1)

(* "thus be carefull not to have it as dangling" (sqlite_valstat.h:21):    *)
(* the message behind a status is there when the caller prints it.         *)
StatusIsReadable == status # Nothing => mem[status] = Message

(* A result "using the appropriate sqlite3 function" (dbj++sql.h:653) is   *)
(* the text the function gave, when the callback reads it.                 *)
ResultIsReadable ==
  (pc = "callback" /\ fx.type = "text") => mem[fx.at] = TextOfRow
=============================================================================
