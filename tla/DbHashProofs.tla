---------------------------- MODULE DbHashProofs ----------------------------
(***************************************************************************)
(* The hashing tool, for command lines of any length, databases with any   *)
(* number of tables and any writers: what main() makes of its command      *)
(* line, and what a line of its output depends on.                         *)
(***************************************************************************)
EXTENDS DbHash, FiniteSetTheorems, SequenceTheorems,
        WellFoundedInduction, TLAPS

USE ArgsAssumption, DbHashAssumption

(* Induction on the naturals, from the least element of a set of them.     *)
LEMMA Smallest ==
  ASSUME NEW T, T \subseteq Nat, T # {}
  PROVE  \E m \in T : \A n \in T : m <= n
<1>1. PICK m \in T : \A n \in T : ~(<<n, m>> \in OpToRel(<, Nat))
  BY NatLessThanWellFounded, WFMin
<1>2. \A n \in T : ~(n < m)
  BY <1>1 DEF OpToRel
<1>. QED  BY <1>2

LEMMA Induction ==
  ASSUME NEW S, 0 \in S, \A n \in Nat : n \in S => n + 1 \in S
  PROVE  Nat \subseteq S
<1> SUFFICES ASSUME Nat \ S # {} PROVE FALSE
  OBVIOUS
<1>1. PICK m \in Nat \ S : \A n \in Nat \ S : m <= n
  BY Smallest
<1>2. m # 0 /\ m - 1 \in Nat /\ m - 1 \in S
  BY <1>1
<1>. QED  BY <1>1, <1>2

(* The reference is well defined: whether an argument is a value depends   *)
(* on the one before it.                                                   *)
LEMMA ConsumedDef ==
  \A k \in 1..MaxArgs :
    Consumed[k] <=> k > 1 /\ given[k - 1] \in TakesValue /\ ~Consumed[k - 1]
<1> DEFINE Step(f, k) == k > 1 /\ given[k - 1] \in TakesValue /\ ~f[k - 1]
           S == {n \in Nat : \E f : f = [k \in 1..n |-> Step(f, k)]}
<1>1. 0 \in S
  <2>1. [k \in 1..0 |-> TRUE] = [k \in 1..0 |-> Step([j \in 1..0 |-> TRUE], k)]
    OBVIOUS
  <2>. QED  BY <2>1
<1>2. ASSUME NEW n \in Nat, n \in S
      PROVE  n + 1 \in S
  <2>1. PICK f : f = [k \in 1..n |-> Step(f, k)]
    BY <1>2
  <2> DEFINE g == [k \in 1..(n + 1) |-> IF k = n + 1 THEN Step(f, k) ELSE f[k]]
  <2>2. \A k \in 1..(n + 1) : g[k] = Step(g, k)
    <3> TAKE k \in 1..(n + 1)
    <3>1. k > 1 => k - 1 \in 1..n /\ g[k - 1] = f[k - 1]
      OBVIOUS
    <3>2. k # n + 1 => f[k] = Step(f, k)
      BY <2>1
    <3>. QED  BY <3>1, <3>2
  <2> HIDE DEF g
  <2>3. g = [k \in 1..(n + 1) |-> Step(g, k)]
    <3>1. g = [k \in 1..(n + 1) |-> g[k]]
      BY DEF g
    <3>. QED  BY <2>2, <3>1
  <2>4. \E h : h = [k \in 1..(n + 1) |-> Step(h, k)]
    BY <2>3
  <2>5. n + 1 \in Nat
    OBVIOUS
  <2>. QED  BY <2>4, <2>5
<1> HIDE DEF S
<1>3. MaxArgs \in S
  BY <1>1, <1>2, Induction
<1>4. \E f : f = [k \in 1..MaxArgs |-> Step(f, k)]
  BY <1>3 DEF S
<1>5. Consumed = [k \in 1..MaxArgs |-> Step(Consumed, k)]
  BY <1>4 DEF Consumed
<1>. QED  BY <1>5

\* The reference depends on the command line only.
LEMMA SameReference ==
  ASSUME given' = given
  PROVE  /\ Consumed' = Consumed /\ Args' = Args
         /\ \A kind : Has(kind)' = Has(kind)
         /\ Fatal' = Fatal /\ First' = First
<1>1. Consumed' = Consumed
  BY DEF Consumed
<1>. QED  BY <1>1 DEF Args, Has, Fatal, First
-----------------------------------------------------------------------------
(* The inductive invariant.  While the command line is read, the reference *)
(* is followed argument by argument; the files that are read later are in  *)
(* front of argv.                                                          *)
Arguments == Files \cup Options
Before(kind) == {k \in Has(kind) : k < i}
Place(k) == Cardinality({m \in Before(Files) : m <= k})

Array ==
  /\ given \in Seq(Arguments) /\ Len(given) <= MaxArgs
  /\ argv \in Seq(Arguments) /\ Len(argv) = Len(given)
  /\ i \in 1..Len(given) + 1
  /\ i <= Len(given) => ~Consumed[i]

Moved ==
  /\ nFile \in Nat /\ nFile = Cardinality(Before(Files)) /\ nFile < i
  /\ \A p \in 1..nFile : argv[p] \in Files
  /\ \A k \in Before(Files) : argv[Place(k)] = given[k]
  /\ \A k \in Args : k >= i => argv[k] = given[k]

Asked ==
  /\ zLike \in {0, 1} /\ (zLike # 0 <=> Before({"like"}) # {})
  /\ omit \subseteq {"schema", "content"}
  /\ "content" \in omit <=> Before({"schema-only"}) # {}
  /\ "schema" \in omit <=> Before({"without-schema"}) # {}

FirstIsRead == i \in Fatal /\ \A k \in Fatal : i <= k

Outcome ==
  /\ pc = "parse" => \A k \in Fatal : i <= k
  /\ pc = "help" => FirstIsRead /\ given[i] = "help"
  /\ pc = "error" => Fatal = {} \/ (FirstIsRead /\ given[i] # "help")
  /\ pc = "run" => /\ i = Len(given) + 1 /\ Fatal = {} /\ nFile # 0
                   /\ omit # {"schema", "content"}

Fresh ==
  /\ open = {} /\ live = {} /\ snapshot = 0 /\ next = 1
  /\ cx = <<>> /\ printed = <<>>

LineRead == Array /\ Moved /\ Asked /\ Outcome /\ Fresh

(* While the files are hashed: what is in the context at each step of a    *)
(* file, and what a line that was printed holds.                           *)
TablesOf(pieces, file, n, seen) ==
  \A k \in 1..n : /\ pieces[k].file = file /\ pieces[k].name = Table(k)
                  /\ pieces[k].version = seen

Complete(pieces, file) ==
  \E n \in 0..MaxTables, seen \in 1..MaxVersion :
    /\ "content" \in omit => n = 0
    /\ Len(pieces) = IF "schema" \in omit THEN n ELSE n + 1
    /\ TablesOf(pieces, file, n, seen)
    /\ "schema" \notin omit =>
         /\ pieces[n + 1].file = file /\ pieces[n + 1].name = Schema
         /\ seen <= pieces[n + 1].version

Shape ==
  /\ argv \in Seq(Files) /\ nFile = Len(argv) /\ i \in 1..nFile + 1
  /\ zLike = 0 /\ omit \subseteq {"schema", "content"} /\ omit # {"schema", "content"}
  /\ open \subseteq 1..nFile
  /\ cx \in Seq(Pieces) /\ Len(cx) <= MaxTables + 1
  /\ printed \in Seq([file : 1..nFile, pieces : Seq(Pieces)]) /\ Len(printed) < i
  /\ next \in 1..MaxTables + 1
  /\ snapshot \in 0..MaxVersion /\ live \subseteq {"tables"}
  /\ snapshot # 0 <=> live # {}

Context ==
  /\ pc \in {"list", "table", "schema", "finish"} => i <= nFile
  /\ live # {} => pc \in {"table", "failed"}
  /\ pc = "list" => "content" \notin omit /\ cx = <<>> /\ next = 1
  /\ pc = "table" =>
       /\ "content" \notin omit /\ Len(cx) = next - 1
       /\ live = {"tables"} /\ snapshot <= version[zDb]
       /\ TablesOf(cx, zDb, next - 1, snapshot)
  /\ pc = "schema" =>
       /\ "schema" \notin omit /\ Len(cx) <= MaxTables
       /\ "content" \in omit => cx = <<>>
       /\ \E seen \in 1..version[zDb] : TablesOf(cx, zDb, Len(cx), seen)
  /\ pc = "finish" => Complete(cx, zDb)

Output ==
  \A k \in 1..Len(printed) :
    /\ printed[k].file < i /\ printed[k].file \notin open
    /\ Complete(printed[k].pieces, argv[printed[k].file])

Hashing == Shape /\ Context /\ Output

\* After the command line was read.
Past == pc \in {"open", "list", "table", "schema", "finish", "exit", "failed"}

IInv ==
  /\ version \in [Files -> 1..MaxVersion]
  /\ \/ Reads /\ LineRead
     \/ Past /\ Hashing
-----------------------------------------------------------------------------
(* One step of the reference.                                              *)
LEMMA AtArgument ==
  ASSUME Array, Moved, i <= Len(argv)
  PROVE  /\ i \in Args /\ argv[i] = given[i] /\ given[i] \in Arguments
         /\ ~Consumed[i]
         /\ i + 1 \in Args => (Consumed[i + 1] <=> given[i] \in TakesValue)
         /\ i + 2 \in Args /\ given[i] \in TakesValue => ~Consumed[i + 2]
<1>1. i \in Args /\ i \in Int /\ Args \subseteq 1..MaxArgs
  BY DEF Array, Args
<1>2. argv[i] = given[i] /\ given[i] \in Arguments /\ ~Consumed[i]
  BY <1>1 DEF Array, Moved, Args
<1>3. i + 1 \in Args => (Consumed[i + 1] <=> given[i] \in TakesValue)
  BY <1>1, <1>2, ConsumedDef
<1>4. i + 2 \in Args => i + 1 \in Args
  BY <1>1 DEF Args
<1>5. i + 2 \in Args /\ given[i] \in TakesValue => ~Consumed[i + 2]
  <2> SUFFICES ASSUME i + 2 \in Args, given[i] \in TakesValue PROVE ~Consumed[i + 2]
    OBVIOUS
  <2>1. Consumed[i + 1]
    BY <1>3, <1>4
  <2>2. Consumed[i + 2] <=> (i + 2 > 1 /\ given[(i + 2) - 1] \in TakesValue /\ ~Consumed[(i + 2) - 1])
    BY <1>1, ConsumedDef
  <2>3. (i + 2) - 1 = i + 1
    BY <1>1
  <2>. QED  BY <2>1, <2>2, <2>3
<1>. QED  BY <1>1, <1>2, <1>3, <1>5

\* The argument read takes its value with it.
Advance ==
  /\ given' = given
  /\ \/ i' = i + 1 /\ given[i] \notin TakesValue
     \/ i' = i + 2 /\ given[i] \in TakesValue /\ i # Len(argv)

LEMMA Advances ==
  ASSUME Array, Moved, i <= Len(argv), Advance
  PROVE  /\ i' \in 1..Len(given) + 1 /\ i < i'
         /\ i' <= Len(given)' => ~Consumed'[i']
         /\ \A k \in Args : k >= i' => k > i
         /\ \A k \in Args : ~Consumed[k] => (k < i' <=> k <= i)
<1>1. i \in 1..Len(given) /\ i \in Int /\ Len(given) \in Nat /\ Len(argv) = Len(given) /\ Args = 1..Len(given)
  BY DEF Array, Args
<1>2. Consumed' = Consumed
  BY SameReference DEF Advance
<1>3. i' \in 1..Len(given) + 1 /\ i < i' /\ \A k \in Args : k >= i' => k > i
  BY <1>1 DEF Advance
<1>4. i' <= Len(given)' => ~Consumed'[i']
  <2> SUFFICES ASSUME i' <= Len(given) PROVE ~Consumed[i']
    BY <1>2 DEF Advance
  <2>1. CASE i' = i + 1 /\ given[i] \notin TakesValue
    BY <2>1, <1>1, AtArgument
  <2>2. CASE i' = i + 2 /\ given[i] \in TakesValue
    BY <2>2, <1>1, AtArgument
  <2>. QED  BY <2>1, <2>2 DEF Advance
<1>5. ASSUME NEW k \in Args, ~Consumed[k]
      PROVE  k < i' <=> k <= i
  <2>1. CASE i' = i + 1
    BY <2>1, <1>1
  <2>2. CASE i' = i + 2 /\ given[i] \in TakesValue
    <3>1. k # i + 1
      BY <2>2, <1>5, AtArgument
    <3>. QED  BY <2>2, <3>1, <1>1
  <2>. QED  BY <2>1, <2>2 DEF Advance
<1>. QED  BY <1>3, <1>4, <1>5

LEMMA BeforeMoves ==
  ASSUME Array, Moved, i <= Len(argv), Advance, NEW kind
  PROVE  Before(kind)' = IF given[i] \in kind THEN Before(kind) \cup {i} ELSE Before(kind)
<1>1. Has(kind)' = Has(kind)
  BY SameReference DEF Advance
<1>2. Before(kind)' = {k \in Has(kind) : k < i'}
  BY <1>1 DEF Before
<1>3. i \in Has(kind) <=> given[i] \in kind
  BY AtArgument DEF Has
<1>4. \A k \in Has(kind) : k \in Args /\ k \in Int /\ i \in Int /\ (k < i' <=> k <= i)
  BY Advances DEF Has, Args, Array
<1>. QED  BY <1>2, <1>3, <1>4 DEF Before

\* An argument that does not end the program.
LEMMA FatalMoves ==
  ASSUME Array, Moved, i <= Len(argv), Advance,
         given[i] \notin {"help", "unknown"},
         given[i] = "like" => Before({"like"}) = {},
         \A k \in Fatal : i <= k
  PROVE  (\A k \in Fatal : i <= k)'
<1>1. Fatal' = Fatal
  BY SameReference DEF Advance
<1>2. i \notin Fatal
  <2>1. i \notin Has({"help", "unknown"})
    BY DEF Has
  <2>2. ~(i \in Has(TakesValue) /\ i = Len(given))
    BY DEF Has, Advance, Array
  <2>3. ~(i \in Has({"like"}) /\ \E m \in Has({"like"}) : m < i)
    BY DEF Has, Before
  <2>. QED  BY <2>1, <2>2, <2>3 DEF Fatal
<1>3. ASSUME NEW k \in Fatal PROVE i' <= k
  <2>1. k \in Args /\ ~Consumed[k] /\ i <= k /\ k \in Int /\ i \in Int /\ i' \in Int
    BY Advances DEF Fatal, Has, Args, Array
  <2>2. k # i
    BY <1>2
  <2>3. ~(k < i')
    BY <2>1, <2>2, Advances
  <2>. QED  BY <2>1, <2>3
<1>. QED  BY <1>1, <1>3
-----------------------------------------------------------------------------
(* The command line is read.                                               *)
LEMMA Starts == Init => IInv
<1> SUFFICES ASSUME Init PROVE IInv
  OBVIOUS
<1>1. PICK n \in 0..MaxArgs : given \in [1..n -> Arguments]
  BY DEF Init, ArgsInit, Arguments
<1>2. given \in Seq(Arguments) /\ Len(given) = n
  BY <1>1
<1>3. Args = 1..n /\ \A kind : Before(kind) = {}
  BY <1>2 DEF Args, Before, Has, Init, ArgsInit
<1>4. Array
  <2>1. i <= Len(given) => ~Consumed[i]
    BY <1>2, ConsumedDef DEF Init, ArgsInit
  <2>. QED  BY <1>2, <2>1 DEF Array, Init, ArgsInit
<1>5. Moved
  <2>1. Before(Files) = {} /\ Cardinality(Before(Files)) = 0
    BY <1>3, FS_EmptySet
  <2>2. nFile = 0 /\ i = 1 /\ argv = given
    BY DEF Init, ArgsInit
  <2>. QED  BY <2>1, <2>2 DEF Moved
<1>6. Asked
  BY <1>3 DEF Asked, Init, ArgsInit
<1>7. Outcome
  <2>1. \A k \in Fatal : k \in Args
    BY DEF Fatal, Has
  <2>. QED  BY <1>3, <2>1 DEF Outcome, Init, ArgsInit
<1>8. Reads /\ Fresh /\ version \in [Files -> 1..MaxVersion]
  BY DEF Reads, Fresh, Init, ArgsInit
<1>. QED  BY <1>4, <1>5, <1>6, <1>7, <1>8 DEF IInv, LineRead

\* The places of the files that were found.
LEMMA Places ==
  ASSUME Array, Moved
  PROVE  /\ IsFiniteSet(Before(Files)) /\ Before(Files) \subseteq Args
         /\ \A k \in Before(Files) : Place(k) \in 1..nFile
<1>1. Before(Files) \subseteq 1..Len(given) /\ IsFiniteSet(1..Len(given))
  BY FS_Interval DEF Before, Has, Args, Array
<1>2. IsFiniteSet(Before(Files))
  BY <1>1, FS_Subset
<1>3. ASSUME NEW k \in Before(Files)
      PROVE  Place(k) \in 1..nFile
  <2> DEFINE P == {m \in Before(Files) : m <= k}
  <2>1. IsFiniteSet(P) /\ Cardinality(P) <= Cardinality(Before(Files))
    BY <1>2, FS_Subset
  <2>2. P # {}
    BY <1>1, <1>3 DEF Array
  <2>3. Cardinality(P) # 0 /\ Cardinality(P) \in Nat
    BY <2>1, <2>2, FS_EmptySet, FS_CardinalityType
  <2>. QED  BY <2>1, <2>3 DEF Place, Moved
<1>. QED  BY <1>1, <1>2, <1>3 DEF Args

\* What the actions of the command line leave alone.
LEMMA AsksOn ==
  ASSUME Array, Moved, i <= Len(argv), Advance, Asked,
         zLike' = IF given[i] = "like" THEN 1 ELSE zLike,
         omit' = omit \cup (IF given[i] = "schema-only" THEN {"content"} ELSE {})
                      \cup (IF given[i] = "without-schema" THEN {"schema"} ELSE {})
  PROVE  Asked'
<1>1. Before({"like"})' = IF given[i] = "like" THEN Before({"like"}) \cup {i} ELSE Before({"like"})
  BY BeforeMoves
<1>2. Before({"schema-only"})' = IF given[i] = "schema-only"
         THEN Before({"schema-only"}) \cup {i} ELSE Before({"schema-only"})
  BY BeforeMoves
<1>3. Before({"without-schema"})' = IF given[i] = "without-schema"
         THEN Before({"without-schema"}) \cup {i} ELSE Before({"without-schema"})
  BY BeforeMoves
<1>. QED  BY <1>1, <1>2, <1>3 DEF Asked

LEMMA MovesOn ==
  ASSUME Array, Moved, i <= Len(argv), Advance, given[i] \notin Files,
         argv' = argv, nFile' = nFile
  PROVE  Array' /\ Moved'
<1>1. Array'
  BY Advances DEF Array, Advance
<1>2. Before(Files)' = Before(Files) /\ Args' = Args
  BY BeforeMoves, SameReference DEF Advance
<1>3. \A k \in Args : k >= i' => argv'[k] = given'[k]
  BY Advances DEF Moved, Advance, Array, Args
<1>4. \A k \in Before(Files) : Place(k)' = Place(k)
  BY <1>2 DEF Place
<1>5. i < i' /\ i \in Int /\ i' \in Int
  BY Advances DEF Array
<1>. QED  BY <1>1, <1>2, <1>3, <1>4, <1>5 DEF Moved, Advance

LEMMA ReadFile ==
  ASSUME Array, Moved, Asked, Outcome, File
  PROVE  Array' /\ Moved' /\ Asked' /\ Outcome'
<1>1. i <= Len(argv) /\ given[i] \in Files /\ argv[i] = given[i] /\ i \in Args
  BY AtArgument DEF File, Reading
<1>2. given[i] \notin Options
  BY <1>1 DEF Arguments
<1>3. Advance
  BY <1>2 DEF Advance, File, TakesValue, Options
<1>4. i \in 1..Len(argv) /\ nFile + 1 <= i /\ nFile \in Nat /\ i \in Int /\ argv \in Seq(Arguments)
  BY <1>1 DEF Array, Moved
<1>5. argv' \in Seq(Arguments) /\ Len(argv') = Len(argv)
  BY <1>1, <1>4 DEF File, Arguments
<1>6. Array'
  BY <1>1, <1>3, <1>5, Advances DEF Array, Advance
<1>7. Before(Files)' = Before(Files) \cup {i} /\ i \notin Before(Files) /\ Args' = Args
  BY <1>1, <1>3, <1>4, BeforeMoves, SameReference DEF Advance, Before
<1>8. nFile' = Cardinality(Before(Files)') /\ nFile' \in Nat /\ nFile' < i'
  <2>1. Cardinality(Before(Files) \cup {i}) = Cardinality(Before(Files)) + 1
    BY <1>7, Places, FS_AddElement
  <2>2. nFile' = nFile + 1 /\ i' = i + 1
    BY DEF File
  <2>. QED  BY <1>4, <1>7, <2>1, <2>2 DEF Moved
<1>9. argv'[nFile + 1] = given[i] /\ \A p \in 1..nFile : argv'[p] = argv[p]
  BY <1>1, <1>4 DEF File
<1>10. \A p \in 1..nFile' : argv'[p] \in Files
  BY <1>1, <1>4, <1>9 DEF Moved, File
<1>11. \A k \in Before(Files) : k \in Int /\ k < i
  BY Places DEF Before, Args, Array
<1>12. ASSUME NEW k \in Before(Files)'
       PROVE  argv'[Place(k)'] = given'[k]
  <2>1. CASE k = i
    <3>1. {m \in Before(Files)' : m <= i} = Before(Files)'
      BY <1>4, <1>7, <1>11
    <3>. QED  BY <2>1, <3>1, <1>3, <1>8, <1>9 DEF Place, File, Advance
  <2>2. CASE k \in Before(Files)
    <3>1. {m \in Before(Files)' : m <= k} = {m \in Before(Files) : m <= k}
      BY <2>2, <1>4, <1>7, <1>11
    <3>2. Place(k)' = Place(k) /\ Place(k) \in 1..nFile
      BY <2>2, <3>1, Places DEF Place
    <3>. QED  BY <2>2, <3>2, <1>3, <1>9 DEF Moved, Advance
  <2>. QED  BY <1>7, <2>1, <2>2
<1>13. \A k \in Args : k >= i' => argv'[k] = given'[k]
  BY <1>3, <1>4 DEF Moved, Advance, Array, Args, File
<1>14. Moved'
  BY <1>7, <1>8, <1>10, <1>12, <1>13 DEF Moved
<1>15. Asked'
  <2>1. zLike' = zLike /\ omit' = omit
    BY DEF File
  <2>2. given[i] # "like" /\ given[i] # "schema-only" /\ given[i] # "without-schema"
    BY <1>2 DEF Options
  <2>. QED  BY <1>1, <1>3, <2>1, <2>2, AsksOn
<1>16. Outcome'
  <2>1. given[i] \notin {"help", "unknown"} /\ given[i] # "like"
    BY <1>2 DEF Options
  <2>2. pc = "parse" /\ pc' = "parse"
    BY DEF File, Reading
  <2>3. (\A k \in Fatal : i <= k)'
    BY <1>1, <1>3, <2>1, <2>2, FatalMoves DEF Outcome
  <2>. QED  BY <2>2, <2>3 DEF Outcome
<1>. QED  BY <1>6, <1>14, <1>15, <1>16
LEMMA ReadValue ==
  ASSUME Array, Moved, Asked, Outcome, Value
  PROVE  Array' /\ Moved' /\ Asked' /\ Outcome'
<1>1. i <= Len(argv) /\ given[i] \in TakesValue /\ argv[i] = given[i] /\ i \in Args
  BY AtArgument DEF Value, Reading
<1>2. given[i] \in Options /\ given[i] \notin Files
  BY <1>1 DEF TakesValue, Options
<1>3. pc = "parse" /\ given' = given /\ argv' = argv /\ nFile' = nFile /\ omit' = omit
  BY DEF Value, Reading
<1>4. CASE i = Len(argv) \/ (argv[i] = "like" /\ zLike > 0)
  <2>1. pc' = "error" /\ i' = i /\ zLike' = zLike
    BY <1>4 DEF Value
  <2>2. Fatal' = Fatal /\ Consumed' = Consumed /\ Args' = Args
    BY <1>3, SameReference
  <2>3. \A kind : Has(kind)' = Has(kind)
    BY <1>3, SameReference
  <2>4. \A kind : Before(kind)' = Before(kind)
    BY <2>1, <2>3 DEF Before
  <2>5. Array' /\ Asked'
    BY <1>3, <2>1, <2>2, <2>4 DEF Array, Asked
  <2>6. Moved'
    <3>1. \A k \in Before(Files) : Place(k)' = Place(k)
      BY <2>4 DEF Place
    <3>. QED  BY <1>3, <2>1, <2>2, <2>4, <3>1 DEF Moved
  <2>7. i \in Has(TakesValue) /\ ~Consumed[i] /\ Len(argv) = Len(given)
    BY <1>1, AtArgument DEF Has, Array
  <2>8. i \in Fatal
    <3>1. CASE i = Len(argv)
      BY <2>7, <3>1 DEF Fatal
    <3>2. CASE argv[i] = "like" /\ zLike > 0
      <4>1. PICK m \in Has({"like"}) : m < i
        BY <3>2 DEF Asked, Before
      <4>2. i \in Has({"like"})
        BY <1>1, <2>7, <3>2 DEF Has
      <4>. QED  BY <4>1, <4>2 DEF Fatal
    <3>. QED  BY <1>4, <3>1, <3>2
  <2>9. Outcome'
    <3>1. given[i] # "help" /\ \A k \in Fatal : i <= k
      BY <1>1, <1>3 DEF TakesValue, Outcome
    <3>. QED  BY <1>3, <2>1, <2>2, <2>8, <3>1 DEF Outcome, FirstIsRead
  <2>. QED  BY <2>5, <2>6, <2>9
<1>5. CASE ~(i = Len(argv) \/ (argv[i] = "like" /\ zLike > 0))
  <2>1. Advance /\ pc' = "parse"
    BY <1>1, <1>3, <1>5 DEF Advance, Value
  <2>2. Array' /\ Moved'
    BY <1>1, <1>2, <1>3, <2>1, MovesOn
  <2>3. Asked'
    <3>1. zLike' = IF given[i] = "like" THEN 1 ELSE zLike
      BY <1>1, <1>5 DEF Value, Asked
    <3>2. given[i] # "schema-only" /\ given[i] # "without-schema"
      BY <1>1 DEF TakesValue
    <3>. QED  BY <1>1, <1>3, <2>1, <3>1, <3>2, AsksOn
  <2>4. Outcome'
    <3>1. given[i] \notin {"help", "unknown"}
      BY <1>1 DEF TakesValue
    <3>2. given[i] = "like" => Before({"like"}) = {}
      BY <1>1, <1>5 DEF Asked
    <3>3. (\A k \in Fatal : i <= k)'
      BY <1>1, <1>3, <2>1, <3>1, <3>2, FatalMoves DEF Outcome
    <3>. QED  BY <2>1, <3>3 DEF Outcome
  <2>. QED  BY <2>2, <2>3, <2>4
<1>. QED  BY <1>4, <1>5

LEMMA ReadFlag ==
  ASSUME Array, Moved, Asked, Outcome, Flag
  PROVE  Array' /\ Moved' /\ Asked' /\ Outcome'
<1>1. /\ i <= Len(argv) /\ given[i] \in {"schema-only", "without-schema"}
      /\ argv[i] = given[i] /\ i \in Args
  BY AtArgument DEF Flag, Reading
<1>2. given[i] \in Options /\ given[i] \notin Files /\ given[i] \notin TakesValue
  BY <1>1 DEF TakesValue, Options
<1>3. /\ pc = "parse" /\ pc' = "parse"
      /\ given' = given /\ argv' = argv /\ nFile' = nFile /\ zLike' = zLike
      /\ i' = i + 1
  BY DEF Flag, Reading
<1>4. Advance
  BY <1>2, <1>3 DEF Advance
<1>5. Array' /\ Moved'
  BY <1>1, <1>2, <1>3, <1>4, MovesOn
<1>6. given[i] # "like" /\ given[i] \notin {"help", "unknown"}
  BY <1>1
<1>7. Asked'
  <2>1. omit' = omit \cup (IF given[i] = "schema-only" THEN {"content"} ELSE {})
                     \cup (IF given[i] = "without-schema" THEN {"schema"} ELSE {})
    BY <1>1 DEF Flag
  <2>. QED  BY <1>1, <1>3, <1>4, <1>6, <2>1, AsksOn
<1>8. Outcome'
  <2>1. (\A k \in Fatal : i <= k)'
    BY <1>1, <1>3, <1>4, <1>6, FatalMoves DEF Outcome
  <2>. QED  BY <1>3, <2>1 DEF Outcome
<1>. QED  BY <1>5, <1>7, <1>8

\* The last steps of the pass change nothing but pc.
LEMMA StaysAsRead ==
  ASSUME Array, Moved, Asked, UNCHANGED <<given, argv, i, nFile, zLike, omit>>
  PROVE  Array' /\ Moved' /\ Asked'
<1>1. Consumed' = Consumed /\ Args' = Args
  BY SameReference
<1>2. \A kind : Has(kind)' = Has(kind)
  BY SameReference
<1>3. \A kind : Before(kind)' = Before(kind)
  BY <1>2 DEF Before
<1>4. \A k \in Before(Files) : Place(k)' = Place(k)
  BY <1>3 DEF Place
<1>. QED  BY <1>1, <1>3, <1>4 DEF Array, Moved, Asked

LEMMA ReadStop ==
  ASSUME Array, Moved, Asked, Outcome, Stop
  PROVE  Array' /\ Moved' /\ Asked' /\ Outcome'
<1>1. /\ i <= Len(argv) /\ given[i] \in {"help", "unknown"}
      /\ argv[i] = given[i] /\ i \in Args /\ ~Consumed[i]
  BY AtArgument DEF Stop, Reading
<1>2. Array' /\ Moved' /\ Asked'
  BY StaysAsRead DEF Stop
<1>3. i \in Fatal
  BY <1>1 DEF Fatal, Has
<1>4. \A k \in Fatal : i <= k
  BY DEF Stop, Reading, Outcome
<1>5. Fatal' = Fatal /\ i' = i /\ given' = given
  BY SameReference DEF Stop
<1>6. pc' = IF given[i] = "help" THEN "help" ELSE "error"
  BY <1>1 DEF Stop
<1>. QED  BY <1>1, <1>2, <1>3, <1>4, <1>5, <1>6 DEF Outcome, FirstIsRead

LEMMA ReadCheck ==
  ASSUME Array, Moved, Asked, Outcome, Check
  PROVE  Array' /\ Moved' /\ Asked' /\ Outcome'
<1>1. Array' /\ Moved' /\ Asked'
  BY StaysAsRead DEF Check
<1>2. i = Len(given) + 1 /\ pc = "parse"
  BY DEF Check, Array
<1>3. Fatal = {}
  <2> SUFFICES ASSUME NEW k \in Fatal PROVE FALSE
    OBVIOUS
  <2>1. k \in 1..Len(given)
    BY DEF Fatal, Has, Args
  <2>2. i <= k
    BY <1>2 DEF Outcome
  <2>. QED  BY <1>2, <2>1, <2>2 DEF Array
<1>4. Fatal' = Fatal
  BY SameReference DEF Check
<1>5. /\ i' = i /\ given' = given /\ nFile' = nFile /\ omit' = omit
      /\ pc' = IF nFile = 0 \/ omit = {"schema", "content"} THEN "error" ELSE "run"
  BY DEF Check
<1>. QED  BY <1>1, <1>2, <1>3, <1>4, <1>5 DEF Outcome

LEMMA ParseStep ==
  ASSUME IInv, Parse
  PROVE  IInv'
<1>1. pc = "parse"
  BY DEF Parse, ReadArgs, File, Value, Flag, Stop, Check, Reading
<1>2. Array /\ Moved /\ Asked /\ Outcome /\ Fresh
  BY <1>1 DEF IInv, Past, LineRead
<1>3. Array' /\ Moved' /\ Asked' /\ Outcome'
  BY <1>2, ReadFile, ReadValue, ReadFlag, ReadStop, ReadCheck DEF Parse, ReadArgs
<1>4. pc' \in {"parse", "run", "help", "error"}
  BY <1>1 DEF Parse, ReadArgs, File, Value, Flag, Stop, Check
<1>5. Fresh' /\ version' = version
  BY <1>2 DEF Parse, files, Fresh
<1>. QED  BY <1>3, <1>4, <1>5 DEF IInv, LineRead, Reads
-----------------------------------------------------------------------------
(* The files are hashed.                                                   *)
LEMMA BeginStep ==
  ASSUME IInv, Begin
  PROVE  IInv'
<1>1. pc = "run" /\ Array /\ Moved /\ Asked /\ Outcome /\ Fresh
  BY DEF IInv, Past, Begin, LineRead
<1>2. /\ argv \in Seq(Arguments) /\ nFile \in 1..Len(argv) /\ omit # {"schema", "content"}
      /\ \A p \in 1..nFile : argv[p] \in Files
  BY <1>1 DEF Array, Moved, Outcome
<1>3. argv' \in Seq(Files) /\ Len(argv') = nFile
  <2>1. /\ argv' \in Seq(Arguments) /\ Len(argv') = nFile
        /\ \A p \in 1..nFile : argv'[p] = argv[p]
    BY <1>2, SubSeqProperties DEF Begin
  <2>2. \A p \in 1..Len(argv') : argv'[p] \in Files
    BY <1>2, <2>1
  <2>. QED  BY <2>1, <2>2, SeqDef, LenProperties
<1>4. Shape'
  <2>1. cx' = <<>> /\ printed' = <<>> /\ open' = {} /\ live' = {} /\ snapshot' = 0 /\ next' = 1
    BY <1>1 DEF Begin, files, Fresh
  <2>2. nFile' = nFile /\ omit' = omit /\ i' = 1 /\ zLike' = 0
    BY DEF Begin
  <2>3. cx' \in Seq(Pieces)' /\ Len(cx') = 0 /\ Len(printed') = 0
    BY <2>1
  <2>4. printed' \in Seq([file : 1..nFile', pieces : Seq(Pieces)'])
    BY <2>1
  <2>. QED  BY <1>1, <1>2, <1>3, <2>1, <2>2, <2>3, <2>4 DEF Shape, Asked
<1>5. pc' = "open" /\ live' = {} /\ printed' = <<>> /\ version' = version
  BY <1>1 DEF Begin, files, Fresh
<1>6. Context' /\ Output'
  BY <1>5 DEF Context, Output
<1>. QED  BY <1>4, <1>5, <1>6 DEF IInv, Past, Hashing

LEMMA Unmoved ==
  ASSUME UNCHANGED <<argv, nFile, zLike, omit>>
  PROVE  \A pieces, file : Complete(pieces, file)' = Complete(pieces, file)
BY DEF Complete, TablesOf

\* What is printed stays right while the files after it are opened.
LEMMA OutputStays ==
  ASSUME Shape, Output, UNCHANGED <<args, printed>>,
         i' \in Int, i <= i', open' \subseteq open \cup {i}
  PROVE  Output'
<1>1. ASSUME NEW k \in 1..Len(printed)
      PROVE  /\ printed[k].file < i' /\ printed[k].file \notin open'
             /\ Complete(printed[k].pieces, argv[printed[k].file])'
  <2>1. /\ printed[k].file < i /\ printed[k].file \notin open
        /\ Complete(printed[k].pieces, argv[printed[k].file])
    BY DEF Output
  <2>2. printed[k].file \in Int /\ i \in Int
    <3>1. printed[k] \in [file : 1..nFile, pieces : Seq(Pieces)]
      BY ElementOfSeq DEF Shape
    <3>. QED  BY <3>1 DEF Shape
  <2>3. /\ printed' = printed /\ argv' = argv
        /\ \A pieces, file : Complete(pieces, file)' = Complete(pieces, file)
    BY Unmoved DEF args
  <2>4. Complete(printed[k].pieces, argv[printed[k].file])'
    BY <2>1, <2>3
  <2>. QED  BY <2>1, <2>2, <2>4
<1>. QED  BY <1>1 DEF Output, args

LEMMA HashingKnows ==
  ASSUME IInv, Past
  PROVE  /\ Shape /\ Context /\ Output /\ version \in [Files -> 1..MaxVersion]
         /\ i \in Nat /\ nFile \in Nat
         /\ i <= nFile => i \in 1..nFile /\ zDb \in Files /\ version[zDb] \in 1..MaxVersion
<1>1. Shape /\ Context /\ Output /\ version \in [Files -> 1..MaxVersion]
  BY DEF IInv, Past, Reads, Hashing
<1>2. i \in Nat /\ nFile \in Nat /\ nFile = Len(argv) /\ argv \in Seq(Files) /\ i >= 1
  BY <1>1 DEF Shape
<1>. QED  BY <1>1, <1>2 DEF zDb

LEMMA NextFileStep ==
  ASSUME IInv, OpenFails \/ NotValid
  PROVE  IInv'
<1>1. pc = "open" /\ pc' = "open" /\ i <= nFile /\ i' = i + 1
  BY DEF OpenFails, NotValid, NextFile
<1>2. /\ Shape /\ Context /\ Output /\ version \in [Files -> 1..MaxVersion]
      /\ i \in 1..nFile /\ i \in Int /\ nFile \in Nat
  BY <1>1, HashingKnows DEF Past
<1>3. /\ UNCHANGED <<args, version, live, snapshot, next, cx, printed>>
      /\ open' \subseteq open \cup {i}
  BY DEF OpenFails, NotValid
<1>4. Shape'
  <2>1. UNCHANGED <<argv, nFile, zLike, omit, live, snapshot, next, cx, printed>>
    BY <1>3 DEF args
  <2>. QED  BY <1>1, <1>2, <1>3, <2>1 DEF Shape, Pieces
<1>5. Output'
  BY <1>1, <1>2, <1>3, OutputStays
<1>6. Context'
  BY <1>1, <1>2, <1>3 DEF Context
<1>. QED  BY <1>1, <1>2, <1>3, <1>4, <1>5, <1>6 DEF IInv, Past, Hashing

LEMMA StartStep ==
  ASSUME IInv, StartHash
  PROVE  IInv'
<1>1. pc = "open" /\ i <= nFile /\ i' = i /\ cx' = <<>> /\ next' = 1 /\ open' = open \cup {i}
  BY DEF StartHash
<1>2. /\ Shape /\ Context /\ Output /\ version \in [Files -> 1..MaxVersion]
      /\ i \in 1..nFile /\ i \in Int /\ nFile \in Nat
      /\ zDb \in Files /\ version[zDb] \in 1..MaxVersion
  BY <1>1, HashingKnows DEF Past
<1>3. UNCHANGED <<args, version, live, snapshot, printed>>
  BY DEF StartHash
<1>4. UNCHANGED <<argv, nFile, zLike, omit>> /\ zDb' = zDb
  BY <1>1, <1>3 DEF args, zDb
<1>5. cx' \in Seq(Pieces) /\ Len(cx') = 0
  BY <1>1
<1>6. Shape'
  BY <1>1, <1>2, <1>3, <1>4, <1>5 DEF Shape, Pieces
<1>7. Output'
  BY <1>1, <1>2, <1>3, OutputStays
<1>8. pc' = IF "content" \in omit THEN "schema" ELSE "list"
  BY DEF StartHash
<1>9. live' = {} /\ i' <= nFile'
  BY <1>1, <1>2, <1>3, <1>4 DEF Context
<1>10. Context'
  <2>1. CASE "content" \in omit
    <3>1. pc' = "schema" /\ "schema" \notin omit'
      BY <1>2, <1>4, <1>8, <2>1 DEF Shape
    <3>2. \E seen \in 1..version'[zDb'] : TablesOf(cx', zDb', Len(cx'), seen)
      <4>1. 1 \in 1..version'[zDb'] /\ TablesOf(cx', zDb', Len(cx'), 1)
        BY <1>2, <1>3, <1>4, <1>5 DEF TablesOf
      <4>. QED  BY <4>1
    <3>3. \E seen \in 1..version[zDb]' : TablesOf(cx, zDb, Len(cx), seen)'
      BY <3>2 DEF TablesOf
    <3>. QED  BY <1>1, <1>5, <1>9, <3>1, <3>3 DEF Context
  <2>2. CASE "content" \notin omit
    <3>1. pc' = "list" /\ "content" \notin omit'
      BY <1>4, <1>8, <2>2
    <3>. QED  BY <1>1, <1>9, <3>1 DEF Context
  <2>. QED  BY <2>1, <2>2
<1>11. pc' \in {"schema", "list"} /\ version' = version
  BY <1>3, <1>8
<1>. QED  BY <1>2, <1>6, <1>7, <1>10, <1>11 DEF IInv, Past, Hashing
LEMMA StopStep ==
  ASSUME IInv, PrepareFails \/ Exit
  PROVE  IInv'
<1>1. /\ pc \in {"open", "list", "table", "schema"} /\ pc' \in {"failed", "exit"}
      /\ pc = "open" => pc' = "exit"
      /\ pc # "open" => pc' = "failed"
      /\ UNCHANGED <<args, version, i, open, live, snapshot, next, cx, printed>>
  BY DEF PrepareFails, Exit
<1>2. /\ Shape /\ Context /\ Output /\ version \in [Files -> 1..MaxVersion]
      /\ i \in Nat
  BY <1>1, HashingKnows DEF Past
<1>3. Shape'
  BY <1>1, <1>2 DEF Shape, Pieces, args
<1>4. Output'
  BY <1>1, <1>2, OutputStays
<1>5. Context'
  BY <1>1, <1>2 DEF Context
<1>. QED  BY <1>1, <1>2, <1>3, <1>4, <1>5 DEF IInv, Past, Hashing

LEMMA ListStep ==
  ASSUME IInv, ListTables
  PROVE  IInv'
<1>1. /\ pc = "list" /\ pc' = "table" /\ live' = {"tables"} /\ snapshot' = version[zDb]
      /\ UNCHANGED <<args, version, i, open, next, cx, printed>>
  BY DEF ListTables
<1>2. /\ Shape /\ Context /\ Output /\ version \in [Files -> 1..MaxVersion] /\ i \in Nat
      /\ i <= nFile => zDb \in Files /\ version[zDb] \in 1..MaxVersion
  BY <1>1, HashingKnows DEF Past
<1>3. /\ i <= nFile /\ "content" \notin omit /\ cx = <<>> /\ next = 1
      /\ version[zDb] \in 1..MaxVersion
  BY <1>1, <1>2 DEF Context
<1>4. UNCHANGED <<argv, nFile, zLike, omit>> /\ zDb' = zDb
  BY <1>1 DEF args, zDb
<1>5. Shape'
  BY <1>1, <1>2, <1>3, <1>4 DEF Shape, Pieces
<1>6. Output'
  BY <1>1, <1>2, OutputStays
<1>7. Context'
  <2>1. TablesOf(cx, zDb, next - 1, snapshot)'
    BY <1>1, <1>3 DEF TablesOf
  <2>2. Len(cx') = 0 /\ next' = 1 /\ snapshot' <= version[zDb]'
    BY <1>1, <1>3, <1>4
  <2>. QED  BY <1>1, <1>3, <1>4, <2>1, <2>2 DEF Context
<1>. QED  BY <1>1, <1>2, <1>5, <1>6, <1>7 DEF IInv, Past, Hashing

LEMMA TableStep ==
  ASSUME IInv, HashTable
  PROVE  IInv'
<1>1. /\ pc = "table" /\ pc' = "table" /\ next <= MaxTables /\ next' = next + 1
      /\ UNCHANGED <<args, version, i, open, live, snapshot, printed>>
  BY DEF HashTable
<1>2. /\ Shape /\ Context /\ Output /\ version \in [Files -> 1..MaxVersion] /\ i \in Nat
      /\ i <= nFile => zDb \in Files /\ version[zDb] \in 1..MaxVersion
  BY <1>1, HashingKnows DEF Past
<1>3. /\ i <= nFile /\ "content" \notin omit /\ Len(cx) = next - 1
      /\ live = {"tables"} /\ snapshot <= version[zDb]
      /\ TablesOf(cx, zDb, next - 1, snapshot)
  BY <1>1, <1>2 DEF Context
<1>4. UNCHANGED <<argv, nFile, zLike, omit>> /\ zDb' = zDb
  BY <1>1 DEF args, zDb
<1>5. PICK whole \in BOOLEAN : cx' = Append(cx, Piece(zDb, Table(next), snapshot, whole))
  BY <1>3 DEF HashTable, Seen
<1>6. next \in 1..MaxTables /\ snapshot \in 1..MaxVersion /\ cx \in Seq(Pieces)
  BY <1>1, <1>2, <1>3 DEF Shape
<1>7. Piece(zDb, Table(next), snapshot, whole) \in Pieces
  BY <1>2, <1>3, <1>6 DEF Piece, Pieces
<1>8. cx' \in Seq(Pieces) /\ Len(cx') = next
  BY <1>3, <1>5, <1>6, <1>7
<1>9. TablesOf(cx', zDb, next, snapshot)
  <2>1. \A k \in 1..(next - 1) : cx'[k] = cx[k]
    BY <1>3, <1>5, <1>6, <1>7
  <2>2. cx'[next] = Piece(zDb, Table(next), snapshot, whole)
    BY <1>3, <1>5, <1>6, <1>7
  <2>. QED  BY <1>3, <1>6, <2>1, <2>2 DEF TablesOf, Piece
<1>10. Shape'
  BY <1>1, <1>2, <1>4, <1>6, <1>8 DEF Shape, Pieces
<1>11. Output'
  BY <1>1, <1>2, OutputStays
<1>12. Context'
  <2>1. TablesOf(cx, zDb, next - 1, snapshot)'
    <3>1. next' - 1 = next
      BY <1>1, <1>6
    <3>. QED  BY <1>1, <1>4, <1>9, <3>1 DEF TablesOf
  <2>2. Len(cx') = next' - 1 /\ snapshot' <= version[zDb]' /\ i' <= nFile'
    BY <1>1, <1>3, <1>4, <1>6, <1>8
  <2>. QED  BY <1>1, <1>3, <1>4, <2>1, <2>2 DEF Context
<1>. QED  BY <1>1, <1>2, <1>10, <1>11, <1>12 DEF IInv, Past, Hashing

LEMMA TablesDoneStep ==
  ASSUME IInv, TablesDone
  PROVE  IInv'
<1>1. /\ pc = "table" /\ pc' = IF "schema" \in omit THEN "finish" ELSE "schema"
      /\ live' = {} /\ snapshot' = 0
      /\ UNCHANGED <<args, version, i, open, next, cx, printed>>
  BY DEF TablesDone
<1>2. /\ Shape /\ Context /\ Output /\ version \in [Files -> 1..MaxVersion] /\ i \in Nat
      /\ i <= nFile => zDb \in Files /\ version[zDb] \in 1..MaxVersion
  BY <1>1, HashingKnows DEF Past
<1>3. /\ i <= nFile /\ "content" \notin omit /\ Len(cx) = next - 1
      /\ live = {"tables"} /\ snapshot <= version[zDb]
      /\ TablesOf(cx, zDb, next - 1, snapshot)
  BY <1>1, <1>2 DEF Context
<1>4. UNCHANGED <<argv, nFile, zLike, omit>> /\ zDb' = zDb
  BY <1>1 DEF args, zDb
<1>5. /\ snapshot \in 1..version[zDb] /\ snapshot \in 1..MaxVersion
      /\ Len(cx) \in 0..MaxTables /\ version[zDb] \in 1..MaxVersion
  BY <1>2, <1>3 DEF Shape
<1>6. Shape'
  BY <1>1, <1>2, <1>4 DEF Shape, Pieces
<1>7. Output'
  BY <1>1, <1>2, OutputStays
<1>8. Context'
  <2>1. CASE "schema" \in omit
    <3>1. Complete(cx, zDb)
      BY <1>3, <1>5, <2>1 DEF Complete
    <3>2. Complete(cx, zDb)'
      BY <1>1, <1>4, <3>1, Unmoved
    <3>. QED  BY <1>1, <1>3, <1>4, <2>1, <3>2 DEF Context
  <2>2. CASE "schema" \notin omit
    <3>1. \E seen \in 1..version[zDb] : TablesOf(cx, zDb, Len(cx), seen)
      BY <1>3, <1>5
    <3>2. \E seen \in 1..version[zDb]' : TablesOf(cx, zDb, Len(cx), seen)'
      BY <1>1, <1>4, <3>1 DEF TablesOf
    <3>. QED  BY <1>1, <1>3, <1>4, <1>5, <2>2, <3>2 DEF Context
  <2>. QED  BY <2>1, <2>2
<1>. QED  BY <1>1, <1>2, <1>6, <1>7, <1>8 DEF IInv, Past, Hashing

LEMMA SchemaStep ==
  ASSUME IInv, HashSchema
  PROVE  IInv'
<1>1. /\ pc = "schema" /\ pc' = "finish"
      /\ UNCHANGED <<args, version, i, open, live, snapshot, next, printed>>
  BY DEF HashSchema
<1>2. /\ Shape /\ Context /\ Output /\ version \in [Files -> 1..MaxVersion] /\ i \in Nat
      /\ i <= nFile => zDb \in Files /\ version[zDb] \in 1..MaxVersion
  BY <1>1, HashingKnows DEF Past
<1>3. /\ i <= nFile /\ "schema" \notin omit /\ Len(cx) <= MaxTables /\ live = {}
      /\ "content" \in omit => cx = <<>>
      /\ version[zDb] \in 1..MaxVersion /\ zDb \in Files
  BY <1>1, <1>2 DEF Context
<1>4. PICK seen \in 1..version[zDb] : TablesOf(cx, zDb, Len(cx), seen)
  BY <1>1, <1>2 DEF Context
<1>5. UNCHANGED <<argv, nFile, zLike, omit>> /\ zDb' = zDb
  BY <1>1 DEF args, zDb
<1>6. PICK whole \in BOOLEAN : cx' = Append(cx, Piece(zDb, Schema, version[zDb], whole))
  BY <1>3 DEF HashSchema, Seen
<1>7. Piece(zDb, Schema, version[zDb], whole) \in Pieces /\ cx \in Seq(Pieces)
  BY <1>2, <1>3 DEF Piece, Pieces, Shape
<1>8. /\ cx' \in Seq(Pieces) /\ Len(cx') = Len(cx) + 1 /\ Len(cx) \in 0..MaxTables
      /\ \A k \in 1..Len(cx) : cx'[k] = cx[k]
      /\ cx'[Len(cx) + 1] = Piece(zDb, Schema, version[zDb], whole)
  BY <1>3, <1>6, <1>7
<1>9. Complete(cx', zDb)
  <2>1. TablesOf(cx', zDb, Len(cx), seen)
    BY <1>4, <1>8 DEF TablesOf
  <2>2. seen \in 1..MaxVersion /\ seen <= version[zDb]
    BY <1>3, <1>4
  <2>3. "content" \in omit => Len(cx) = 0
    BY <1>3
  <2>. QED  BY <1>3, <1>8, <2>1, <2>2, <2>3 DEF Complete, Piece
<1>10. Complete(cx, zDb)'
  BY <1>5, <1>9, Unmoved
<1>11. Shape'
  <2>1. Pieces' = Pieces /\ Len(cx') <= MaxTables + 1
    BY <1>3, <1>8 DEF Pieces
  <2>. QED  BY <1>1, <1>2, <1>5, <1>8, <2>1 DEF Shape
<1>12. Output'
  BY <1>1, <1>2, OutputStays
<1>13. Context'
  BY <1>1, <1>3, <1>5, <1>10 DEF Context
<1>. QED  BY <1>1, <1>2, <1>11, <1>12, <1>13 DEF IInv, Past, Hashing

LEMMA FinishStep ==
  ASSUME IInv, FinishFile
  PROVE  IInv'
<1>1. /\ pc = "finish" /\ pc' = "open" /\ i' = i + 1
      /\ printed' = Append(printed, [file |-> i, pieces |-> cx])
      /\ UNCHANGED <<args, version, live, snapshot, next, cx>>
  BY DEF FinishFile, NextFile
<1>2. /\ Shape /\ Context /\ Output /\ version \in [Files -> 1..MaxVersion]
      /\ i \in Nat /\ nFile \in Nat
      /\ i <= nFile => i \in 1..nFile
  BY <1>1, HashingKnows DEF Past
<1>3. i \in 1..nFile /\ live = {} /\ Complete(cx, zDb)
  BY <1>1, <1>2 DEF Context
<1>4. open' = open \ {i}
  BY <1>3 DEF FinishFile
<1>5. UNCHANGED <<argv, nFile, zLike, omit>>
  BY <1>1 DEF args
<1>6. [file |-> i, pieces |-> cx] \in [file : 1..nFile, pieces : Seq(Pieces)]
  BY <1>2, <1>3 DEF Shape
<1>7. /\ printed' \in Seq([file : 1..nFile, pieces : Seq(Pieces)])
      /\ Len(printed') = Len(printed) + 1 /\ Len(printed) \in Nat
      /\ \A k \in 1..Len(printed) : printed'[k] = printed[k]
      /\ printed'[Len(printed) + 1] = [file |-> i, pieces |-> cx]
  BY <1>1, <1>2, <1>6 DEF Shape
<1>8. Shape'
  <2>1. Pieces' = Pieces /\ Len(printed') < i'
    BY <1>1, <1>2, <1>7 DEF Pieces, Shape
  <2>2. i' \in 1..nFile' + 1 /\ open' \subseteq 1..nFile'
    BY <1>1, <1>2, <1>3, <1>4, <1>5 DEF Shape
  <2>. QED  BY <1>1, <1>2, <1>5, <1>7, <2>1, <2>2 DEF Shape
<1>9. ASSUME NEW k \in 1..Len(printed')
      PROVE  /\ printed'[k].file < i' /\ printed'[k].file \notin open'
             /\ Complete(printed'[k].pieces, argv[printed'[k].file])
  <2>1. CASE k = Len(printed) + 1
    BY <1>1, <1>2, <1>3, <1>4, <1>7, <2>1 DEF zDb
  <2>2. CASE k \in 1..Len(printed)
    <3>1. printed[k] \in [file : 1..nFile, pieces : Seq(Pieces)]
      BY <1>2, <2>2, ElementOfSeq DEF Shape
    <3>. QED  BY <1>1, <1>2, <1>4, <1>7, <2>2, <3>1 DEF Output
  <2>. QED  BY <1>7, <2>1, <2>2
<1>10. Output'
  BY <1>5, <1>9, Unmoved DEF Output
<1>11. Context'
  BY <1>1, <1>3 DEF Context
<1>. QED  BY <1>1, <1>2, <1>8, <1>10, <1>11 DEF IInv, Past, Hashing
\* Another process commits: what was hashed stays as it was.
LEMMA WriteStep ==
  ASSUME IInv, NEW f \in Files, Write(f)
  PROVE  IInv'
<1>1. /\ version' = [version EXCEPT ![f] = @ + 1] /\ version[f] < MaxVersion
      /\ version \in [Files -> 1..MaxVersion]
      /\ UNCHANGED <<args, i, pc, open, live, snapshot, next, cx, printed>>
  BY DEF Write, IInv
<1>2. /\ version' \in [Files -> 1..MaxVersion]
      /\ \A g \in Files : version[g] \in 1..MaxVersion /\ version[g] <= version'[g]
                          /\ version'[g] \in 1..MaxVersion
  BY <1>1
<1>3. UNCHANGED <<given, argv, nFile, zLike, omit>> /\ zDb' = zDb
  BY <1>1 DEF args, zDb
<1>4. CASE Reads /\ LineRead
  <2>1. Array' /\ Moved' /\ Asked'
    BY <1>1, <1>3, <1>4, StaysAsRead DEF LineRead
  <2>2. Fatal' = Fatal
    BY <1>3, SameReference
  <2>3. Outcome'
    BY <1>1, <1>3, <1>4, <2>2 DEF LineRead, Outcome, FirstIsRead
  <2>4. Fresh' /\ Reads'
    BY <1>1, <1>4 DEF LineRead, Fresh, Reads
  <2>. QED  BY <1>2, <2>1, <2>3, <2>4 DEF IInv, LineRead
<1>5. CASE Past /\ Hashing
  <2>1. /\ Shape /\ Context /\ Output /\ i \in Nat
        /\ i <= nFile => zDb \in Files
    BY <1>5, HashingKnows
  <2>2. Pieces' = Pieces
    BY DEF Pieces
  <2>3. Shape'
    BY <1>1, <1>3, <2>1, <2>2 DEF Shape
  <2>4. Output'
    BY <1>1, <2>1, OutputStays
  <2>5. i <= nFile => version[zDb] <= version[zDb]' /\ version[zDb] \in Int /\ version[zDb]' \in Int
    BY <1>2, <1>3, <2>1
  <2>6. \A file, n, seen : TablesOf(cx, file, n, seen)' = TablesOf(cx, file, n, seen)
    BY <1>1 DEF TablesOf
  <2>7. \A pieces, file : Complete(pieces, file)' = Complete(pieces, file)
    BY <1>3, Unmoved
  <2>8. pc = "table" => snapshot' <= version[zDb]'
    <3> HAVE pc = "table"
    <3>1. i <= nFile /\ snapshot <= version[zDb]
      BY <2>1, Zenon DEF Context
    <3>2. snapshot' = snapshot /\ snapshot \in Nat
      BY <1>1, <2>1 DEF Shape
    <3>3. PICK old \in Int, new \in Int : /\ old = version[zDb] /\ new = version[zDb]'
                                        /\ snapshot <= old /\ old <= new
      BY <2>5, <3>1, Zenon
    <3>4. snapshot <= new
      BY <3>2, <3>3
    <3>. QED  BY <3>2, <3>3, <3>4, Zenon
  <2>9. pc = "schema" => \E seen \in 1..version[zDb]' : TablesOf(cx, zDb, Len(cx), seen)'
    <3> SUFFICES ASSUME pc = "schema"
                 PROVE  \E seen \in 1..version[zDb]' : TablesOf(cx, zDb, Len(cx), seen)'
      OBVIOUS
    <3>1. PICK seen \in 1..version[zDb] : TablesOf(cx, zDb, Len(cx), seen)
      BY <2>1 DEF Context
    <3>2. seen \in 1..version[zDb]'
      BY <2>1, <2>5 DEF Context
    <3>3. TablesOf(cx', zDb', Len(cx'), seen)
      BY <1>1, <1>3, <3>1
    <3>. QED  BY <3>2, <3>3 DEF TablesOf
  <2>10. pc = "table" => TablesOf(cx, zDb, next - 1, snapshot)'
    BY <1>1, <1>3, <2>1 DEF Context, TablesOf
  <2>11. pc = "finish" => Complete(cx, zDb)'
    BY <1>1, <1>3, <2>1, <2>7 DEF Context
  <2>12. Context'
    BY <1>1, <1>3, <2>1, <2>8, <2>9, <2>10, <2>11 DEF Context
  <2>. QED  BY <1>1, <1>2, <1>5, <2>3, <2>4, <2>12 DEF IInv, Hashing, Past
<1>. QED  BY <1>4, <1>5 DEF IInv, Past

LEMMA Step == IInv /\ [Next]_vars => IInv'
<1> SUFFICES ASSUME IInv, [Next]_vars PROVE IInv'
  OBVIOUS
<1>1. CASE Main
  BY <1>1, ParseStep, BeginStep, NextFileStep, StartStep, StopStep, ListStep, TableStep,
     TablesDoneStep, SchemaStep, FinishStep DEF Main
<1>2. CASE \E f \in Files : Write(f)
  BY <1>2, WriteStep
<1>3. CASE UNCHANGED vars
  <2>1. UNCHANGED <<given, argv, nFile, zLike, omit, i, pc, version, open, live, snapshot,
                    next, cx, printed>>
    BY <1>3 DEF vars, args, files
  <2>2. CASE Reads /\ LineRead
    <3>1. Array' /\ Moved' /\ Asked'
      BY <2>1, <2>2, StaysAsRead DEF LineRead
    <3>2. Fatal' = Fatal
      BY <2>1, SameReference
    <3>3. Outcome'
      BY <2>1, <2>2, <3>2 DEF LineRead, Outcome, FirstIsRead
    <3>4. Fresh' /\ Reads'
      BY <2>1, <2>2 DEF LineRead, Fresh, Reads
    <3>. QED  BY <2>1, <3>1, <3>3, <3>4 DEF IInv, LineRead
  <2>3. CASE Past /\ Hashing
    <3>1. Shape' /\ zDb' = zDb
      BY <2>1, <2>3 DEF Hashing, Shape, Pieces, zDb
    <3>2. Output'
      BY <2>1, <2>3, OutputStays DEF Hashing, Shape, args
    <3>3. Context'
      BY <2>1, <2>3, <3>1, Unmoved DEF Hashing, Context, TablesOf
    <3>. QED  BY <2>1, <2>3, <3>1, <3>2, <3>3 DEF IInv, Hashing, Past
  <2>. QED  BY <2>2, <2>3 DEF IInv, Past
<1>. QED  BY <1>1, <1>2, <1>3 DEF Next

(* The inductive invariant holds: for command lines of any length, any     *)
(* number of files and tables, and whatever is written meanwhile.          *)
THEOREM Invariance == Spec => []IInv
BY Starts, Step, PTL DEF Spec

(* Every variable has its type; the array that is rewritten while it is    *)
(* read is never indexed behind its end (db_hashing.c:395).                *)
THEOREM ToolTypes == Spec => []TypeOK
<1>1. ASSUME IInv PROVE TypeOK
  <2>1. CASE Reads /\ LineRead
    <3>1. /\ argv \in Seq(Arguments) /\ nFile \in 0..Len(argv) /\ i \in 1..Len(argv) + 1
          /\ zLike \in {0, 1} /\ omit \subseteq {"schema", "content"} /\ Fresh
      BY <2>1 DEF LineRead, Array, Moved, Asked
    <3>2. \A k \in 1..Len(argv) : argv[k] \in Files \cup Options
      BY <3>1 DEF Arguments
    <3>3. Len(cx) = 0 /\ Len(printed) < i
      BY <3>1 DEF Fresh
    <3>. QED  BY <1>1, <2>1, <3>1, <3>2, <3>3 DEF TypeOK, IInv, Past, Fresh, Reads
  <2>2. CASE Past /\ Hashing
    <3>1. Shape
      BY <2>2 DEF Hashing
    <3>2. \A k \in 1..Len(argv) : argv[k] \in Files
      BY <3>1 DEF Shape
    <3>3. \A k \in 1..Len(cx) : cx[k] \in Pieces
      BY <3>1 DEF Shape
    <3>4. nFile \in 0..Len(argv)
      BY <3>1 DEF Shape
    <3>. QED  BY <1>1, <2>2, <3>1, <3>2, <3>3, <3>4 DEF TypeOK, IInv, Shape, Past
  <2>. QED  BY <1>1, <2>1, <2>2 DEF IInv, Past
<1>. QED  BY <1>1, Invariance, PTL

(* The pass over argv loses no file, keeps their order and overwrites      *)
(* nothing that is yet to be read (db_hashing.c:436).                      *)
THEOREM FilesMoved == Spec => []FilesKept
<1>1. ASSUME IInv PROVE FilesKept
  <2> SUFFICES ASSUME Reads PROVE FilesKept
    BY DEF FilesKept
  <2>1. Moved
    BY <1>1 DEF IInv, Past, Reads, LineRead
  <2>. QED  BY <2>1 DEF FilesKept, Moved, Before, Place
<1>. QED  BY <1>1, Invariance, PTL

(* The program ends as the first argument that ends it says, and otherwise *)
(* hashes what the options leave of the files (db_hashing.c:395-448).      *)
THEOREM AsAsked == Spec => []RunsAsAsked
<1>1. ASSUME IInv PROVE RunsAsAsked
  <2> SUFFICES ASSUME Reads PROVE RunsAsAsked
    BY DEF RunsAsAsked, Reads
  <2>1. Array /\ Moved /\ Asked /\ Outcome
    BY <1>1 DEF IInv, Past, Reads, LineRead
  <2>2. ASSUME FirstIsRead PROVE First = i
    <3>1. \A k \in Fatal : k \in Int
      BY DEF Fatal, Has, Args
    <3>. QED  BY <2>2, <3>1 DEF FirstIsRead, First
  <2>3. pc \in {"help", "error"} /\ Fatal # {} => (pc = "help" <=> given[First] = "help")
    BY <2>1, <2>2 DEF Outcome
  <2>4. pc = "help" => Fatal # {}
    BY <2>1 DEF Outcome, FirstIsRead
  <2>5. ASSUME pc = "run"
        PROVE  /\ Fatal = {} /\ Has(Files) # {}
               /\ "content" \in omit <=> Has({"schema-only"}) # {}
               /\ "schema" \in omit <=> Has({"without-schema"}) # {}
               /\ omit # {"schema", "content"}
    <3>1. i = Len(given) + 1 /\ Fatal = {} /\ nFile # 0 /\ omit # {"schema", "content"}
      BY <2>1, <2>5 DEF Outcome
    <3>2. \A kind : Before(kind) = Has(kind)
      BY <2>1, <3>1 DEF Before, Has, Args, Array
    <3>3. Has(Files) # {}
      BY <2>1, <3>1, <3>2, FS_EmptySet DEF Moved
    <3>. QED  BY <2>1, <3>1, <3>2, <3>3 DEF Asked
  <2>. QED  BY <2>3, <2>4, <2>5 DEF RunsAsAsked
<1>. QED  BY <1>1, Invariance, PTL

LEMMA PrintedComplete ==
  ASSUME IInv, NEW line \in Lines
  PROVE  /\ line.file < i /\ line.file \notin open
         /\ Complete(line.pieces, argv[line.file]) /\ line.pieces \in Seq(Pieces)
<1>1. PICK k \in 1..Len(printed) : line = printed[k]
  BY DEF Lines
<1>2. Past
  BY <1>1 DEF IInv, Past, LineRead, Fresh
<1>3. Shape /\ Output
  BY <1>2, HashingKnows
<1>4. line \in [file : 1..nFile, pieces : Seq(Pieces)]
  BY <1>1, <1>3, ElementOfSeq DEF Shape
<1>. QED  BY <1>1, <1>3, <1>4 DEF Output

(* A line of output is made of its own file and of nothing that came       *)
(* before it (db_hashing.c:449-505).                                       *)
THEOREM OfItsFile == Spec => []LineOfItsFile
<1>1. ASSUME IInv PROVE LineOfItsFile
  <2> SUFFICES ASSUME NEW line \in Lines
               PROVE  /\ \A piece \in PiecesOf(line) : piece.file = argv[line.file]
                      /\ \E n \in 0..MaxTables :
                           /\ "content" \in omit => n = 0
                           /\ [k \in 1..Len(line.pieces) |-> line.pieces[k].name] =
                                [k \in 1..n |-> Table(k)]
                                  \o (IF "schema" \in omit THEN <<>> ELSE <<Schema>>)
    BY DEF LineOfItsFile
  <2> DEFINE s == line.pieces
             Names(n) == [k \in 1..n |-> Table(k)]
             Last == IF "schema" \in omit THEN <<>> ELSE <<Schema>>
  <2>1. s \in Seq(Pieces) /\ Complete(s, argv[line.file])
    BY <1>1, PrintedComplete
  <2>2. PICK n \in 0..MaxTables, seen \in 1..MaxVersion :
          /\ "content" \in omit => n = 0
          /\ Len(s) = IF "schema" \in omit THEN n ELSE n + 1
          /\ TablesOf(s, argv[line.file], n, seen)
          /\ "schema" \notin omit =>
               /\ s[n + 1].file = argv[line.file] /\ s[n + 1].name = Schema
               /\ seen <= s[n + 1].version
    BY <2>1 DEF Complete
  <2>3. \A piece \in PiecesOf(line) : piece.file = argv[line.file]
    BY <2>2 DEF PiecesOf, TablesOf
  <2>4. \A k \in 1..Len(s) : s[k].name = IF k <= n THEN Table(k) ELSE Schema
    BY <2>2 DEF TablesOf
  <2> DEFINE N == {Schema} \cup {Table(t) : t \in 1..n}
  <2>5. Names(n) \in Seq(N) /\ Len(Names(n)) = n /\ \A k \in 1..n : Names(n)[k] = Table(k)
    <3>1. \A k \in 1..n : Table(k) \in N
      OBVIOUS
    <3> HIDE DEF N
    <3>. QED  BY <3>1
  <2>6. /\ Len(Names(n) \o Last) = Len(s)
        /\ \A k \in 1..Len(s) : (Names(n) \o Last)[k] = IF k <= n THEN Table(k) ELSE Schema
        /\ DOMAIN (Names(n) \o Last) = 1..Len(s)
    <3>0. Schema \in N
      OBVIOUS
    <3> HIDE DEF N, Names
    <3>1. Last \in Seq(N) /\ Len(Last) = IF "schema" \in omit THEN 0 ELSE 1
      BY <3>0
    <3>2. "schema" \notin omit => Last[1] = Schema
      OBVIOUS
    <3> HIDE DEF Last
    <3>3. Names(n) \o Last \in Seq(N) /\ Len(Names(n) \o Last) = Len(s)
      <4>1. /\ Names(n) \o Last \in Seq(N)
            /\ Len(Names(n) \o Last) = Len(Names(n)) + Len(Last)
        BY <2>5, <3>1, ConcatProperties
      <4>2. Len(s) = n + Len(Last)
        BY <2>2, <3>1
      <4>. QED  BY <2>5, <4>1, <4>2
    <3>4. \A k \in 1..Len(s) :
            (Names(n) \o Last)[k] = IF k <= n THEN Names(n)[k] ELSE Last[k - n]
      BY <2>2, <2>5, <3>1, <3>3, ConcatProperties
    <3>5. \A k \in 1..Len(s) : k <= n \/ (k = n + 1 /\ "schema" \notin omit)
      BY <2>2
    <3>. QED  BY <2>5, <3>2, <3>3, <3>4, <3>5, LenProperties
  <2>7. [k \in 1..Len(s) |-> s[k].name] = Names(n) \o Last
    <3> DEFINE t == Names(n) \o Last
    <3>1. t = [k \in 1..Len(s) |-> t[k]]
      BY <2>6
    <3>2. \A k \in 1..Len(s) : t[k] = s[k].name
      BY <2>4, <2>6
    <3> HIDE DEF t
    <3>3. [k \in 1..Len(s) |-> s[k].name] = t
      BY <3>1, <3>2
    <3>. QED  BY <3>3 DEF t
  <2>. QED  BY <2>2, <2>3, <2>7
<1>. QED  BY <1>1, Invariance, PTL

(* The tables of a line are of one moment, and its schema is not older     *)
(* (db_hashing.c:466-497).                                                 *)
THEOREM OfOneMoment == Spec => []TablesOfOneMoment
<1>1. ASSUME IInv PROVE TablesOfOneMoment
  <2> SUFFICES ASSUME NEW line \in Lines, NEW p \in PiecesOf(line), NEW q \in PiecesOf(line)
               PROVE  /\ p.name # Schema /\ q.name # Schema => p.version = q.version
                      /\ q.name = Schema => p.version <= q.version
    BY DEF TablesOfOneMoment
  <2> DEFINE s == line.pieces
  <2>1. s \in Seq(Pieces) /\ Complete(s, argv[line.file])
    BY <1>1, PrintedComplete
  <2>2. PICK n \in 0..MaxTables, seen \in 1..MaxVersion :
          /\ Len(s) = IF "schema" \in omit THEN n ELSE n + 1
          /\ TablesOf(s, argv[line.file], n, seen)
          /\ "schema" \notin omit => s[n + 1].name = Schema /\ seen <= s[n + 1].version
    BY <2>1 DEF Complete
  <2>3. PICK a \in 1..Len(s), b \in 1..Len(s) : p = s[a] /\ q = s[b]
    BY DEF PiecesOf
  <2>4. \A k \in 1..n : s[k].name # Schema /\ s[k].version = seen
    BY <2>2 DEF TablesOf, Table, Schema
  <2>5. s[a].version \in Nat /\ s[b].version \in Nat
    <3>1. s[a] \in Pieces /\ s[b] \in Pieces
      BY <2>1, <2>3, ElementOfSeq
    <3>. QED  BY <3>1 DEF Pieces
  <2>6. \A k \in 1..Len(s) : k \in 1..n \/ (k = n + 1 /\ "schema" \notin omit)
    BY <2>2
  <2>7. ASSUME p.name # Schema, q.name # Schema PROVE p.version = q.version
    BY <2>2, <2>3, <2>4, <2>6, <2>7
  <2>8. ASSUME q.name = Schema PROVE p.version <= q.version
    <3>1. b = n + 1 /\ seen <= s[n + 1].version
      BY <2>2, <2>3, <2>4, <2>6, <2>8
    <3>2. CASE a \in 1..n
      BY <2>3, <2>4, <3>1, <3>2
    <3>3. CASE a = n + 1
      <4>1. p = q
        BY <2>3, <3>1, <3>3
      <4>. QED  BY <2>3, <2>5, <4>1
    <3>. QED  BY <2>6, <3>2, <3>3
  <2>. QED  BY <2>7, <2>8
<1>. QED  BY <1>1, Invariance, PTL

(* The connection of a file that was hashed is closed (db_hashing.c:503).  *)
THEOREM ClosedWhenHashed == Spec => []HashedAreClosed
<1>1. IInv => HashedAreClosed
  BY PrintedComplete DEF HashedAreClosed
<1>. QED  BY <1>1, Invariance, PTL
=============================================================================
