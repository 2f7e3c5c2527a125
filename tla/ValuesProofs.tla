---------------------------- MODULE ValuesProofs ----------------------------
(***************************************************************************)
(* The way of a text through a query, for any memory, any number of rows   *)
(* and any number of texts kept: each cell has one owner, and what is kept *)
(* is what was in the row.                                                 *)
(***************************************************************************)
EXTENDS Values, FiniteSetTheorems, TLAPS

\* Who owns cells: the row, its second column, the buffer, what is kept.
BufferCells == {word} \ {Nothing}
KeptCells   == {k.at : k \in kept}

\* The argument of the function is a text of SQLite or NULL; there is a
\* buffer only while the function runs, and no result before it returns.
Argument ==
  /\ x \in {Null} \cup {Text(c, "transient") : c \in Cells}
  /\ word # Nothing => pc = "udf"
  /\ pc = "udf" => fx = Null
  /\ pc = "idle" => x = Null /\ fx = Null

\* No cell has two owners, and the cells in use are those that have one.
Owners ==
  /\ CellsOf(x) \cap CellsOf(fx) = {}
  /\ BufferCells \cap (CellsOf(x) \cup CellsOf(fx)) = {}
  /\ KeptCells \cap (CellsOf(x) \cup CellsOf(fx) \cup BufferCells) = {}
  /\ \A j, k \in kept : j.at = k.at => j = k
  /\ \A c \in Cells :
       mem[c] # Free <=> c \in CellsOf(x) \cup CellsOf(fx) \cup BufferCells \cup KeptCells

\* While a function or a callback runs, what they may read is of the row.
Readable ==
  /\ pc \in {"udf", "callback"} => row > 0 /\ \A c \in CellsOf(x) : mem[c] = row
  /\ \A c \in BufferCells : mem[c] = TextOfRow
  /\ pc = "callback" =>
       /\ fx = Null => x = Null
       /\ fx.type = "integer" => fx.value = TextOfRow
       /\ \A c \in CellsOf(fx) : mem[c] = TextOfRow

IInv == TypeOK /\ Argument /\ Owners /\ Readable /\ KeptIsOfItsRow

USE ValuesAssumption

\* What the constructors of columns give.
LEMMA Columns ==
  /\ Null \in Column
  /\ \A v \in Contents : Integer(v) \in Column
  /\ \A c \in Cells, how \in {"transient", "static"} :
       Text(c, how) \in Column /\ Text(c, how).at = c /\ Text(c, how) # Null
  /\ CellsOf(Null) = {} /\ \A v : CellsOf(Integer(v)) = {}
  /\ \A c : CellsOf(Text(c, "transient")) = {c} /\ CellsOf(Text(c, "static")) = {}
<1>1. Null \in Column
  BY DEF Column
<1>2. \A v \in Contents : Integer(v) \in Column
  BY DEF Column
<1>3. \A c \in Cells, how \in {"transient", "static"} : Text(c, how) \in Column
  BY DEF Column
<1>4. \A c, how : Text(c, how).at = c /\ Text(c, how) # Null
  <2>1. \A c, how : Text(c, how).type = "text" /\ Null.type = "null"
    BY DEF Text, Null
  <2>. QED  BY <2>1 DEF Text
<1>5. CellsOf(Null) = {} /\ \A v : CellsOf(Integer(v)) = {}
  BY DEF CellsOf, Null, Integer
<1>6. \A c : CellsOf(Text(c, "transient")) = {c} /\ CellsOf(Text(c, "static")) = {}
  BY DEF CellsOf, Text
<1>. QED  BY <1>1, <1>2, <1>3, <1>4, <1>5, <1>6

\* The contents of a cell are numbers.
LEMMA Texts ==
  /\ Free \in Contents /\ NullText \in Contents
  /\ \A r \in 0..Rows : r \in Contents
  BY DEF Contents, Free, NullText, Message

\* Memory stays memory when cells are released and written.
LEMMA ReleasedTyped ==
  ASSUME TypeOK, NEW cells
  PROVE  Released(cells) \in [Cells -> Contents]
  BY Texts DEF Released, TypeOK

\* Whatever a callback reads of a column is a text.
LEMMA ReadTyped ==
  ASSUME TypeOK, NEW column \in Column
  PROVE  ColumnText(column) \subseteq Contents
<1>1. CASE column = Null
  BY <1>1, Texts DEF ColumnText, Null
<1>2. CASE \E v \in Contents : column = Integer(v)
  BY <1>2 DEF ColumnText, Integer
<1>3. CASE \E c \in Cells, how \in {"transient", "static"} : column = Text(c, how)
  <2>1. column.type = "text" /\ column.at \in Cells
    BY <1>3 DEF Text
  <2>2. mem[column.at] \in Contents
    BY <2>1 DEF TypeOK
  <2>. QED  BY <2>1, <2>2 DEF ColumnText
<1>. QED  BY <1>1, <1>2, <1>3 DEF Column

LEMMA InitIInv == Init => IInv
<1> SUFFICES ASSUME Init PROVE IInv
  OBVIOUS
<1>1. TypeOK /\ Argument
  BY Columns, Texts DEF Init, TypeOK, Argument, Free
<1>2. Owners /\ Readable /\ KeptIsOfItsRow
  BY Columns DEF Init, Owners, Readable, KeptIsOfItsRow, BufferCells, KeptCells
<1>. QED  BY <1>1, <1>2 DEF IInv

\* The types, and what the control points say of the columns.
LEMMA NextTypes == IInv /\ [Next]_vars => (TypeOK /\ Argument)'
<1> SUFFICES ASSUME IInv, [Next]_vars
             PROVE  (TypeOK /\ Argument)'
  OBVIOUS
<1>. USE Columns, Texts, ReleasedTyped DEF IInv, TypeOK, Argument
<1>1. CASE Refused
  BY <1>1 DEF Refused, FreeCells
<1>2. CASE Query
  BY <1>2 DEF Query
<1>3. CASE Step
  <2>1. row + 1 \in 0..Rows /\ row + 1 \in Contents
    BY <1>3 DEF Step, HasRow
  <2>2. row' \in 0..Rows /\ mem' \in [Cells -> Contents] /\ x' \in Column /\ Argument'
    BY <1>3, <2>1 DEF Step
  <2>. QED  BY <1>3, <2>2 DEF Step
<1>4. CASE Finalize
  BY <1>4 DEF Finalize
<1>5. CASE udf_argument
  <2>1. x # Null => x.at \in Cells
    BY DEF Text
  <2>. QED  BY <1>5, <2>1 DEF udf_argument, FreeCells
<1>6. CASE udf_retval_number
  BY <1>6 DEF udf_retval_number
<1>7. CASE udf_retval_text
  BY <1>7 DEF udf_retval_text
<1>8. CASE return_error
  BY <1>8 DEF return_error
<1>9. CASE native_udf
  <2>1. x # Null => x.at \in Cells
    BY DEF Text
  <2>. QED  BY <1>9, <2>1 DEF native_udf, FreeCells
<1>10. ASSUME NEW column \in {x, fx}, NEW force \in BOOLEAN, to_text(column, force)
       PROVE  (TypeOK /\ Argument)'
  <2>1. PICK c \in FreeCells, text \in ColumnText(column) :
          /\ mem' = [mem EXCEPT ![c] = text]
          /\ kept' = kept \cup {[at |-> c, says |-> TextOfRow, dead |-> IsDead(column)]}
    BY <1>10 DEF to_text
  <2>2. c \in Cells /\ text \in Contents /\ TextOfRow \in Contents
    BY <1>10, <2>1, ReadTyped DEF FreeCells, TextOfRow
  <2>3. IsDead(column) \in BOOLEAN
    BY DEF IsDead
  <2>4. mem' \in [Cells -> Contents]
    BY <2>1, <2>2
  <2>5. kept' \subseteq [at : Cells, says : Contents, dead : BOOLEAN]
    BY <2>1, <2>2, <2>3
  <2>. QED  BY <1>10, <2>4, <2>5 DEF to_text
<1>11. CASE Forget
  BY <1>11 DEF Forget
<1>12. CASE CallbackReturns
  BY <1>12 DEF CallbackReturns
<1>13. CASE UNCHANGED vars
  BY <1>13 DEF vars
<1>. QED
  BY <1>1, <1>2, <1>3, <1>4, <1>5, <1>6, <1>7, <1>8, <1>9, <1>10, <1>11, <1>12, <1>13 DEF Next

\* Where the owners of cells are.
LEMMA Places ==
  ASSUME IInv
  PROVE  /\ mem \in [Cells -> Contents]
         /\ CellsOf(x) \subseteq Cells /\ CellsOf(fx) \subseteq Cells
         /\ BufferCells \subseteq Cells /\ KeptCells \subseteq Cells
         /\ word # Nothing => word \in Cells /\ BufferCells = {word}
         /\ word = Nothing => BufferCells = {}
         /\ x # Null => x.at \in Cells /\ CellsOf(x) = {x.at}
<1>. USE Columns DEF IInv, TypeOK, Argument
<1>1. CellsOf(x) \subseteq Cells /\ (x # Null => x.at \in Cells /\ CellsOf(x) = {x.at})
  OBVIOUS
<1>2. CellsOf(fx) \subseteq Cells
  BY DEF Column
<1>3. BufferCells \subseteq Cells /\ KeptCells \subseteq Cells
  BY DEF BufferCells, KeptCells
<1>4. /\ word # Nothing => word \in Cells /\ BufferCells = {word}
      /\ word = Nothing => BufferCells = {}
  BY DEF BufferCells
<1>. QED  BY <1>1, <1>2, <1>3, <1>4

\* What a callback reads is the text of its row, unless the pointer is dead.
LEMMA Reads ==
  ASSUME IInv, pc = "callback", NEW column \in {x, fx}, NEW text \in ColumnText(column)
  PROVE  text # Free /\ (~IsDead(column) => text = TextOfRow)
<1>0. /\ TypeOK /\ Argument /\ Readable /\ row > 0 /\ column \in Column
      /\ NullText # Free /\ TextOfRow # Free
  BY ValuesAssumption DEF IInv, TypeOK, Readable, TextOfRow, NullText, Free
<1>1. CASE column = Null
  <2>1. x = Null
    BY <1>0, <1>1 DEF Readable
  <2>2. text = NullText
    BY <1>1 DEF ColumnText, Null
  <2>. QED  BY <1>0, <2>1, <2>2 DEF TextOfRow
<1>2. ASSUME NEW v \in Contents, column = Integer(v)
      PROVE  text = TextOfRow
  <2>1. column.type = "integer" /\ text = column.value
    BY <1>2 DEF ColumnText, Integer
  <2>2. column = fx
    BY <1>0, <2>1 DEF Argument, Text, Null
  <2>. QED  BY <1>0, <2>1, <2>2 DEF Readable
<1>3. ASSUME NEW c \in Cells, NEW how \in {"transient", "static"}, column = Text(c, how)
      PROVE  text # Free /\ (~IsDead(column) => text = TextOfRow)
  <2>1. column.type = "text" /\ column.at = c /\ (~IsDead(column) => how = "transient")
    BY <1>3 DEF Text, IsDead
  <2>2. text \in IF mem[c] = Free THEN Contents \ {Free} ELSE {mem[c]}
    BY <2>1 DEF ColumnText
  <2>3. how = "transient" => CellsOf(column) = {c}
    BY <1>3, Columns
  <2>4. how = "transient" => mem[c] = TextOfRow
    BY <1>0, <1>3, <2>3, Columns DEF Readable, TextOfRow
  <2>. QED  BY <1>0, <2>1, <2>2, <2>4
<1>. QED  BY <1>0, <1>1, <1>2, <1>3 DEF Column

\* Every step leaves every cell with one owner at most, and the cells in
\* use with one.
LEMMA NextOwners == IInv /\ [Next]_vars => Owners'
<1> SUFFICES ASSUME IInv, [Next]_vars
             PROVE  Owners'
  OBVIOUS
<1>0. Owners /\ Argument /\ TypeOK
  BY DEF IInv
<1>. USE Places, Columns
<1>1. CASE UNCHANGED <<mem, x, fx, word, kept>>
  BY <1>0, <1>1 DEF Owners, BufferCells, KeptCells, CellsOf
<1>2. CASE Step
  <2>1. /\ CellsOf(fx)' = {} /\ BufferCells' = BufferCells /\ KeptCells' = KeptCells /\ kept' = kept
        /\ row + 1 # Free
    BY <1>0, <1>2 DEF Step, BufferCells, KeptCells, TypeOK, Free
  <2>2. ASSUME NEW c \in Cells, Released(CellsOf(x) \cup CellsOf(fx))[c] = Free,
               x' = Text(c, "transient"),
               mem' = [Released(CellsOf(x) \cup CellsOf(fx)) EXCEPT ![c] = row + 1]
        PROVE  Owners'
    <3>1. CellsOf(x)' = {c} /\ c \notin BufferCells \cup KeptCells
      BY <1>0, <2>2 DEF Owners, Released, CellsOf
    <3>2. \A d \in Cells : mem'[d] # Free <=> d = c \/ d \in BufferCells \cup KeptCells
      BY <1>0, <2>1, <2>2 DEF Owners, Released
    <3>. QED  BY <1>0, <2>1, <3>1, <3>2 DEF Owners
  <2>3. CASE x' = Null /\ mem' = Released(CellsOf(x) \cup CellsOf(fx))
    <3>1. CellsOf(x)' = {}
      BY <2>3 DEF CellsOf
    <3>2. \A d \in Cells : mem'[d] # Free <=> d \in BufferCells \cup KeptCells
      BY <1>0, <2>3 DEF Owners, Released
    <3>. QED  BY <1>0, <2>1, <3>1, <3>2 DEF Owners
  <2>. QED  BY <1>2, <2>2, <2>3 DEF Step
<1>3. CASE Finalize
  <2>1. /\ CellsOf(x)' = {} /\ CellsOf(fx)' = {}
        /\ BufferCells' = BufferCells /\ KeptCells' = KeptCells /\ kept' = kept
    BY <1>3 DEF Finalize, BufferCells, KeptCells, CellsOf
  <2>2. \A d \in Cells : mem'[d] # Free <=> d \in BufferCells \cup KeptCells
    BY <1>0, <1>3 DEF Finalize, Owners, Released
  <2>. QED  BY <1>0, <2>1, <2>2 DEF Owners
<1>4. CASE udf_argument
  <2>1. PICK c \in FreeCells :
          word' = c /\ mem' = [mem EXCEPT ![c] = IF x = Null THEN NullText ELSE mem[x.at]]
    BY <1>4 DEF udf_argument
  <2>2. c \in Cells /\ mem[c] = Free /\ c # Nothing
    BY <2>1, ValuesAssumption DEF FreeCells
  <2>3. /\ CellsOf(x)' = CellsOf(x) /\ CellsOf(fx)' = CellsOf(fx) /\ kept' = kept
        /\ KeptCells' = KeptCells /\ BufferCells = {} /\ BufferCells' = {c}
    BY <1>4, <2>1, <2>2 DEF udf_argument, BufferCells, KeptCells, CellsOf
  <2>4. mem'[c] # Free
    <3>1. NullText # Free
      BY ValuesAssumption DEF NullText, Free
    <3>2. x # Null => mem[x.at] # Free
      BY <1>0 DEF Owners
    <3>. QED  BY <2>1, <2>2, <3>1, <3>2
  <2>5. \A d \in Cells : d # c => mem'[d] = mem[d]
    BY <2>1, <2>2
  <2>. QED  BY <1>0, <2>2, <2>3, <2>4, <2>5 DEF Owners
<1>5. CASE udf_retval_number \/ udf_retval_text
  <2>1. CellsOf(fx)' = {} /\ CellsOf(fx) = {}
    <3>1. fx = Null
      BY <1>0, <1>5 DEF udf_retval_number, udf_retval_text, Argument
    <3>2. CASE udf_retval_number
      BY <3>1, <3>2 DEF udf_retval_number, CellsOf, Integer, Null
    <3>3. CASE udf_retval_text
      BY <3>1, <3>3 DEF udf_retval_text, CellsOf, Text, Null
    <3>. QED  BY <1>5, <3>2, <3>3
  <2>2. /\ CellsOf(x)' = CellsOf(x) /\ kept' = kept /\ KeptCells' = KeptCells
        /\ BufferCells = {word} /\ BufferCells' = {}
    BY <1>5 DEF udf_retval_number, udf_retval_text, BufferCells, KeptCells, CellsOf
  <2>3. \A d \in Cells : mem'[d] # Free <=> mem[d] # Free /\ d # word
    BY <1>5 DEF udf_retval_number, udf_retval_text, Released
  <2>. QED  BY <1>0, <2>1, <2>2, <2>3 DEF Owners
<1>6. CASE return_error
  <2>1. /\ CellsOf(x)' = {} /\ CellsOf(fx)' = CellsOf(fx) /\ kept' = kept
        /\ KeptCells' = KeptCells /\ BufferCells = {word} /\ BufferCells' = {}
    BY <1>6 DEF return_error, BufferCells, KeptCells, CellsOf
  <2>2. \A d \in Cells : mem'[d] # Free <=> mem[d] # Free /\ d # word /\ d \notin CellsOf(x)
    BY <1>6 DEF return_error, Released
  <2>. QED  BY <1>0, <2>1, <2>2 DEF Owners
<1>7. CASE native_udf
  <2>1. CASE UNCHANGED <<fx, mem>>
    BY <1>1, <1>7, <2>1 DEF native_udf
  <2>2. ASSUME NEW c \in FreeCells, x # Null,
               fx' = Text(c, "transient"), mem' = [mem EXCEPT ![c] = mem[x.at]]
        PROVE  Owners'
    <3>1. c \in Cells /\ mem[c] = Free
      BY DEF FreeCells
    <3>2. CellsOf(fx)' = {c} /\ CellsOf(fx) = {}
      BY <1>0, <1>7, <2>2 DEF native_udf, Argument, CellsOf
    <3>3. /\ CellsOf(x)' = CellsOf(x) /\ kept' = kept /\ KeptCells' = KeptCells
          /\ BufferCells' = BufferCells
      BY <1>7 DEF native_udf, BufferCells, KeptCells, CellsOf
    <3>4. mem'[c] # Free /\ \A d \in Cells : d # c => mem'[d] = mem[d]
      BY <1>0, <2>2, <3>1 DEF Owners
    <3>. QED  BY <1>0, <3>1, <3>2, <3>3, <3>4 DEF Owners
  <2>. QED  BY <1>7, <2>1, <2>2 DEF native_udf
<1>8. ASSUME NEW column \in {x, fx}, NEW force \in BOOLEAN, to_text(column, force)
      PROVE  Owners'
  <2>1. PICK c \in FreeCells, text \in ColumnText(column) :
          /\ mem' = [mem EXCEPT ![c] = text]
          /\ kept' = kept \cup {[at |-> c, says |-> TextOfRow, dead |-> IsDead(column)]}
    BY <1>8 DEF to_text
  <2>2. c \in Cells /\ mem[c] = Free
    BY DEF FreeCells
  <2>3. /\ CellsOf(x)' = CellsOf(x) /\ CellsOf(fx)' = CellsOf(fx) /\ BufferCells' = BufferCells
        /\ KeptCells' = KeptCells \cup {c}
    <3>1. CellsOf(x)' = CellsOf(x) /\ CellsOf(fx)' = CellsOf(fx) /\ BufferCells' = BufferCells
      BY <1>8 DEF to_text, BufferCells, CellsOf
    <3>2. \A d : (\E k \in kept' : k.at = d) <=> (\E k \in kept : k.at = d) \/ d = c
      <4> DEFINE new == [at |-> c, says |-> TextOfRow, dead |-> IsDead(column)]
      <4>1. new.at = c /\ kept' = kept \cup {new}
        BY <2>1
      <4> HIDE DEF new
      <4>. QED  BY <4>1
    <3>3. KeptCells' = KeptCells \cup {c}
      BY <3>2 DEF KeptCells
    <3>. QED  BY <3>1, <3>3
  <2>4. \A j, k \in kept' : j.at = k.at => j = k
    BY <1>0, <2>1, <2>2 DEF Owners, KeptCells
  <2>5. text # Free
    BY <1>8, <2>1, Reads DEF to_text
  <2>6. mem'[c] # Free /\ \A d \in Cells : d # c => mem'[d] = mem[d]
    BY <2>1, <2>2, <2>5
  <2>. QED  BY <1>0, <2>2, <2>3, <2>4, <2>6 DEF Owners
<1>9. CASE Forget
  <2>1. PICK k \in kept : kept' = kept \ {k} /\ mem' = Released({k.at})
    BY <1>9 DEF Forget
  <2>2. k.at \in KeptCells /\ KeptCells' = KeptCells \ {k.at}
    BY <1>0, <2>1 DEF Owners, KeptCells
  <2>3. /\ CellsOf(x)' = CellsOf(x) /\ CellsOf(fx)' = CellsOf(fx) /\ BufferCells' = BufferCells
    BY <1>9 DEF Forget, BufferCells, CellsOf
  <2>4. \A d \in Cells : mem'[d] # Free <=> mem[d] # Free /\ d # k.at
    BY <2>1 DEF Released
  <2>5. \A j, i \in kept' : j.at = i.at => j = i
    BY <1>0, <2>1 DEF Owners
  <2>. QED  BY <1>0, <2>2, <2>3, <2>4, <2>5 DEF Owners
<1>. QED
  BY <1>1, <1>2, <1>3, <1>4, <1>5, <1>6, <1>7, <1>8, <1>9
     DEF Next, Refused, Query, CallbackReturns, vars

\* Every step leaves what may be read, and what is kept, of the right row.
LEMMA NextReadable == IInv /\ [Next]_vars => (Readable /\ KeptIsOfItsRow)'
<1> SUFFICES ASSUME IInv, [Next]_vars
             PROVE  (Readable /\ KeptIsOfItsRow)'
  OBVIOUS
<1>0. Owners /\ Argument /\ TypeOK /\ Readable /\ KeptIsOfItsRow
  BY DEF IInv
<1>. USE Places, Columns
<1>1. \A k \in kept : k.at \in KeptCells
  BY DEF KeptCells
<1>2. CASE Refused \/ UNCHANGED vars
  BY <1>0, <1>2 DEF Refused, vars, Readable, KeptIsOfItsRow, BufferCells, CellsOf, TextOfRow
<1>3. CASE Query
  <2>1. BufferCells = {} /\ BufferCells' = {} /\ pc' = "step"
    BY <1>0, <1>3 DEF Query, Argument, BufferCells
  <2>. QED  BY <1>0, <1>3, <2>1 DEF Query, Readable, KeptIsOfItsRow
<1>4. CASE CallbackReturns
  <2>1. BufferCells = {} /\ BufferCells' = {} /\ pc' = "step"
    BY <1>0, <1>4 DEF CallbackReturns, Argument, BufferCells
  <2>. QED  BY <1>0, <1>4, <2>1 DEF CallbackReturns, Readable, KeptIsOfItsRow
<1>5. CASE Step
  <2>1. /\ pc' = "udf" /\ row' = row + 1 /\ row' > 0 /\ kept' = kept
        /\ BufferCells' = {}
    BY <1>0, <1>5 DEF Step, Argument, BufferCells, TypeOK
  <2>2. \A c \in CellsOf(x)' : mem'[c] = row'
    BY <1>0, <1>5, <2>1 DEF Step, CellsOf, Released, Text, Null
  <2>3. \A k \in kept : mem'[k.at] = mem[k.at]
    <3>1. \A c \in KeptCells : Released(CellsOf(x) \cup CellsOf(fx))[c] = mem[c] /\ mem[c] # Free
      BY <1>0 DEF Owners, Released
    <3>2. \A c \in KeptCells : mem'[c] = mem[c]
      <4>1. ASSUME NEW b \in Cells, Released(CellsOf(x) \cup CellsOf(fx))[b] = Free,
                   mem' = [Released(CellsOf(x) \cup CellsOf(fx)) EXCEPT ![b] = row + 1]
            PROVE  \A c \in KeptCells : mem'[c] = mem[c]
        <5>1. b \notin KeptCells
          BY <3>1, <4>1
        <5>. QED  BY <3>1, <4>1, <5>1 DEF Released
      <4>. QED  BY <1>5, <3>1, <4>1 DEF Step
    <3>. QED  BY <1>1, <3>2
  <2>. QED  BY <1>0, <2>1, <2>2, <2>3 DEF Readable, KeptIsOfItsRow
<1>6. CASE Finalize \/ return_error
  <2>1. pc' = "idle" /\ BufferCells' = {} /\ kept' = kept
    BY <1>0, <1>6 DEF Finalize, return_error, Argument, BufferCells
  <2>2. \A c \in KeptCells : mem'[c] = mem[c]
    BY <1>0, <1>6 DEF Finalize, return_error, Owners, Released
  <2>. QED  BY <1>0, <1>1, <2>1, <2>2 DEF Readable, KeptIsOfItsRow
<1>7. CASE udf_argument
  <2>1. PICK c \in FreeCells :
          word' = c /\ mem' = [mem EXCEPT ![c] = IF x = Null THEN NullText ELSE mem[x.at]]
    BY <1>7 DEF udf_argument
  <2>2. c \in Cells /\ mem[c] = Free
    BY <2>1 DEF FreeCells
  <2>3. \A d \in CellsOf(x) \cup KeptCells : mem'[d] = mem[d]
    BY <1>0, <2>1, <2>2 DEF Owners
  <2>4. mem'[c] = TextOfRow
    BY <1>0, <1>7, <2>1, <2>2 DEF udf_argument, Readable, TextOfRow
  <2>5. BufferCells' \subseteq {c} /\ TextOfRow' = TextOfRow /\ CellsOf(x)' = CellsOf(x)
    BY <1>7, <2>1 DEF udf_argument, BufferCells, TextOfRow, CellsOf
  <2>. QED
    BY <1>0, <1>1, <1>7, <2>3, <2>4, <2>5 DEF udf_argument, Readable, KeptIsOfItsRow
<1>8. CASE udf_retval_number \/ udf_retval_text
  <2>1. /\ pc' = "callback" /\ BufferCells' = {} /\ kept' = kept /\ row' = row /\ row > 0
        /\ CellsOf(x)' = CellsOf(x) /\ TextOfRow' = TextOfRow
    BY <1>0, <1>8 DEF udf_retval_number, udf_retval_text, BufferCells, CellsOf, TextOfRow, Readable
  <2>2. \A d \in CellsOf(x) \cup KeptCells : mem'[d] = mem[d]
    BY <1>0, <1>8 DEF udf_retval_number, udf_retval_text, Owners, Released
  <2>3. mem[word] = TextOfRow
    BY <1>0, <1>8 DEF udf_retval_number, udf_retval_text, Readable
  <2>4. /\ fx' # Null /\ CellsOf(fx)' = {}
        /\ fx'.type = "integer" => fx'.value = TextOfRow
    <3>1. CASE udf_retval_number
      BY <2>3, <3>1 DEF udf_retval_number, Integer, Null, CellsOf
    <3>2. CASE udf_retval_text
      BY <3>2 DEF udf_retval_text, Text, CellsOf
    <3>. QED  BY <1>8, <3>1, <3>2
  <2>. QED
    BY <1>0, <1>1, <1>8, <2>1, <2>2, <2>4
       DEF udf_retval_number, udf_retval_text, Readable, KeptIsOfItsRow
<1>9. CASE native_udf
  <2>1. /\ pc' = "callback" /\ BufferCells = {} /\ BufferCells' = {} /\ kept' = kept
        /\ row' = row /\ row > 0 /\ x' = x /\ fx = Null
        /\ CellsOf(x)' = CellsOf(x) /\ TextOfRow' = TextOfRow
    BY <1>0, <1>9 DEF native_udf, BufferCells, CellsOf, TextOfRow, Readable, Argument
  <2>2. CASE x = Null /\ UNCHANGED <<fx, mem>>
    <3>1. fx' = Null /\ fx'.type = "null" /\ CellsOf(fx)' = {}
      BY <2>1, <2>2 DEF Null, CellsOf
    <3>. QED  BY <1>0, <1>9, <2>1, <2>2, <3>1 DEF native_udf, Readable, KeptIsOfItsRow
  <2>3. ASSUME NEW c \in FreeCells, x # Null,
               fx' = Text(c, "transient"), mem' = [mem EXCEPT ![c] = mem[x.at]]
        PROVE  (Readable /\ KeptIsOfItsRow)'
    <3>1. c \in Cells /\ mem[c] = Free
      BY DEF FreeCells
    <3>2. \A d \in CellsOf(x) \cup KeptCells : mem'[d] = mem[d]
      BY <1>0, <2>3, <3>1 DEF Owners
    <3>3. mem'[c] = TextOfRow
      BY <1>0, <1>9, <2>3, <3>1 DEF native_udf, Readable, TextOfRow
    <3>4. fx' # Null /\ fx'.type = "text" /\ CellsOf(fx)' = {c}
      BY <2>3 DEF Text, CellsOf
    <3>. QED
      BY <1>0, <1>1, <1>9, <2>1, <3>2, <3>3, <3>4 DEF native_udf, Readable, KeptIsOfItsRow
  <2>. QED  BY <1>9, <2>2, <2>3 DEF native_udf
<1>10. ASSUME NEW column \in {x, fx}, NEW force \in BOOLEAN, to_text(column, force)
       PROVE  (Readable /\ KeptIsOfItsRow)'
  <2>1. PICK c \in FreeCells, text \in ColumnText(column) :
          /\ mem' = [mem EXCEPT ![c] = text]
          /\ kept' = kept \cup {[at |-> c, says |-> TextOfRow, dead |-> IsDead(column)]}
    BY <1>10 DEF to_text
  <2>2. c \in Cells /\ mem[c] = Free
    BY DEF FreeCells
  <2>3. ~IsDead(column) => text = TextOfRow
    BY <1>10, <2>1, Reads DEF to_text
  <2>4. \A d \in CellsOf(x) \cup CellsOf(fx) \cup KeptCells : mem'[d] = mem[d]
    BY <1>0, <2>1, <2>2 DEF Owners
  <2>5. /\ UNCHANGED <<pc, row, x, fx, word>> /\ BufferCells' = {}
        /\ CellsOf(x)' = CellsOf(x) /\ CellsOf(fx)' = CellsOf(fx) /\ TextOfRow' = TextOfRow
    BY <1>0, <1>10 DEF to_text, BufferCells, CellsOf, TextOfRow, Argument
  <2>6. Readable'
    BY <1>0, <1>10, <2>4, <2>5 DEF to_text, Readable
  <2>7. KeptIsOfItsRow'
    BY <1>0, <1>1, <2>1, <2>2, <2>3, <2>4 DEF KeptIsOfItsRow
  <2>. QED  BY <2>6, <2>7
<1>11. CASE Forget
  <2>1. PICK k \in kept : kept' = kept \ {k} /\ mem' = Released({k.at})
    BY <1>11 DEF Forget
  <2>2. /\ UNCHANGED <<pc, row, x, fx, word>> /\ BufferCells' = {}
        /\ CellsOf(x)' = CellsOf(x) /\ CellsOf(fx)' = CellsOf(fx) /\ TextOfRow' = TextOfRow
    BY <1>0, <1>11 DEF Forget, BufferCells, CellsOf, TextOfRow, Argument
  <2>3. \A d \in CellsOf(x) \cup CellsOf(fx) : mem'[d] = mem[d]
    BY <1>0, <1>1, <2>1 DEF Owners, Released
  <2>4. \A j \in kept' : mem'[j.at] = mem[j.at]
    <3>1. \A j \in kept' : j \in kept /\ j.at # k.at /\ j.at \in Cells
      BY <1>0, <1>1, <2>1 DEF Owners
    <3>. QED  BY <2>1, <3>1 DEF Released
  <2>. QED
    BY <1>0, <2>1, <2>2, <2>3, <2>4 DEF Readable, KeptIsOfItsRow
<1>. QED
  BY <1>2, <1>3, <1>4, <1>5, <1>6, <1>7, <1>8, <1>9, <1>10, <1>11 DEF Next

LEMMA NextIInv == IInv /\ [Next]_vars => IInv'
  BY NextTypes, NextOwners, NextReadable DEF IInv

\* The inductive invariant holds in every reachable state.
THEOREM Invariance == Spec => []IInv
  BY InitIInv, NextIInv, PTL DEF Spec

\* Disjoint sets count separately.
LEMMA DisjointUnion ==
  ASSUME NEW S, NEW T, IsFiniteSet(S), IsFiniteSet(T), S \cap T = {}
  PROVE  Cardinality(S \cup T) = Cardinality(S) + Cardinality(T)
<1>1. /\ Cardinality(S \cup T) = Cardinality(S) + Cardinality(T) - Cardinality(S \cap T)
      /\ Cardinality(S) \in Nat /\ Cardinality(T) \in Nat /\ Cardinality(S \cap T) = 0
  BY FS_Union, FS_CardinalityType, FS_EmptySet
<1>. QED  BY <1>1

\* Owners that have no cell in common have as many cells as the memory in use.
LEMMA OwnersCount == IInv => OneOwnerEach
<1> SUFFICES ASSUME IInv
             PROVE  OneOwnerEach
  OBVIOUS
<1> DEFINE used == {c \in Cells : mem[c] # Free}
           row_ == CellsOf(x) \cup CellsOf(fx)
<1>0. Owners /\ TypeOK
  BY DEF IInv
<1>1. used = row_ \cup BufferCells \cup KeptCells
  BY <1>0, Places DEF Owners
<1>2. /\ IsFiniteSet(CellsOf(x)) /\ IsFiniteSet(CellsOf(fx)) /\ IsFiniteSet(BufferCells)
      /\ IsFiniteSet(KeptCells) /\ IsFiniteSet(row_) /\ IsFiniteSet(row_ \cup BufferCells)
  BY Places, ValuesAssumption, FS_Subset
<1>3. Cardinality(KeptCells) = Cardinality(kept)
  <2> DEFINE f == [c \in KeptCells |-> CHOOSE k \in kept : k.at = c]
  <2>1. \A c \in KeptCells : f[c] \in kept /\ f[c].at = c
    BY DEF KeptCells
  <2>2. f \in [KeptCells -> kept]
    BY <2>1
  <2>3. \A c, d \in KeptCells : f[c] = f[d] => c = d
    BY <2>1
  <2>4. \A k \in kept : \E c \in KeptCells : f[c] = k
    <3> TAKE k \in kept
    <3>1. k.at \in KeptCells
      BY DEF KeptCells
    <3>2. f[k.at] = k
      BY <1>0, <2>1, <3>1 DEF Owners
    <3>. QED  BY <3>1, <3>2
  <2> HIDE DEF f
  <2>5. f \in Bijection(KeptCells, kept)
    BY <2>2, <2>3, <2>4 DEF Bijection, Injection, Surjection, IsInjective
  <2>6. ExistsBijection(KeptCells, kept)
    BY <2>5 DEF ExistsBijection
  <2>. QED  BY <1>2, <2>6, FS_Bijection
<1>4. Cardinality(BufferCells) = IF word = Nothing THEN 0 ELSE 1
  BY Places, FS_EmptySet, FS_Singleton
<1>5. /\ CellsOf(x) \cap CellsOf(fx) = {} /\ row_ \cap BufferCells = {}
      /\ (row_ \cup BufferCells) \cap KeptCells = {}
  BY <1>0 DEF Owners
<1>6. Cardinality(row_) = Cardinality(CellsOf(x)) + Cardinality(CellsOf(fx))
  BY <1>2, <1>5, DisjointUnion
<1>7. Cardinality(row_ \cup BufferCells) = Cardinality(row_) + Cardinality(BufferCells)
  BY <1>2, <1>5, DisjointUnion
<1>8. Cardinality(used) = Cardinality(row_ \cup BufferCells) + Cardinality(KeptCells)
  BY <1>1, <1>2, <1>5, DisjointUnion
<1>9. /\ Cardinality(CellsOf(x)) \in Nat /\ Cardinality(CellsOf(fx)) \in Nat
      /\ Cardinality(kept) \in Nat
  BY <1>2, <1>3, FS_CardinalityType
<1>10. Cardinality(used) = Cardinality(CellsOf(x)) + Cardinality(CellsOf(fx))
                             + Cardinality(kept) + (IF word = Nothing THEN 0 ELSE 1)
  BY <1>3, <1>4, <1>6, <1>7, <1>8, <1>9
<1>. QED  BY <1>1, <1>10 DEF OneOwnerEach, BufferCells, KeptCells

(* Texts in memory, columns, buffers and what callbacks keep are what they *)
(* are declared as, for any memory and any number of rows.                 *)
THEOREM ValueTypes == Spec => []TypeOK
<1>1. IInv => TypeOK
  BY DEF IInv
<1>. QED  BY <1>1, Invariance, PTL

(* What a callback keeps of a row is the text of that row for as long as   *)
(* it keeps it, unless it was read behind a dead pointer.                  *)
THEOREM KeptTexts == Spec => []KeptIsOfItsRow
<1>1. IInv => KeptIsOfItsRow
  BY DEF IInv
<1>. QED  BY <1>1, Invariance, PTL

(* Every cell in use has one owner: no text is freed twice, none is lost.  *)
THEOREM CellOwners == Spec => []OneOwnerEach
  BY Invariance, OwnersCount, PTL
=============================================================================
