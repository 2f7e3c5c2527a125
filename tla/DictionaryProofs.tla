-------------------------- MODULE DictionaryProofs --------------------------
(***************************************************************************)
(* The dictionary service, for files of any length, callbacks nested to    *)
(* any depth and any queries: the global FILE is the only one open, and    *)
(* what find_ finds, if nobody uses the service in the middle of it.       *)
(***************************************************************************)
EXTENDS Dictionary, SequenceTheorems, TLAPS

Frames ==
  [op : {"reset", "next", "find"}, query : Queries, word : Int,
   pc : {"opened", "read", "callback"}, quiet : BOOLEAN]

\* A callback that uses the service disturbs every call under way, so that
\* only the innermost call may be quiet.
OnlyTopQuiet ==
  /\ calls \in Seq(Frames)
  /\ \A d \in 1..Len(calls) : d < Len(calls) => ~calls[d].quiet

\* What find_ has done so far, as long as it is quiet.
QuietProgress ==
  (calls # <<>> /\ Top.quiet) =>
    /\ (Top.pc = "opened" /\ Top.op = "find") => file = 0 /\ retval = <<>>
    /\ Top.pc = "read" => /\ file # Closed /\ retval = Slots(file)
                          /\ 1..file \subseteq Top.query

IInv == TypeOK /\ HandleIsFile /\ OnlyTopQuiet /\ QuietProgress /\ QuietFind

USE DictionaryAssumption

\* The slots of find_ are a sequence, and a match makes it one longer.
LEMMA SlotsSeq ==
  ASSUME NEW n \in Nat
  PROVE  Len(Slots(n)) = n /\ Slots(n) \in Seq(Int)
<1>1. Slots(n) \in [1..n -> Int]
  BY DEF Slots, NoText
<1>2. Slots(n) \in Seq(Int)
  BY <1>1, SeqDef
<1>3. DOMAIN Slots(n) = 1..Len(Slots(n)) /\ Len(Slots(n)) \in Nat
  BY <1>2, LenProperties
<1>. QED  BY <1>1, <1>2, <1>3

LEMMA NoSlots == Slots(0) = <<>>
<1>1. Slots(0) \in Seq(Int) /\ Len(Slots(0)) = 0
  BY SlotsSeq
<1>. QED  BY <1>1, EmptySeq

LEMMA SlotsStep ==
  ASSUME NEW n \in Nat
  PROVE  Slots(n + 1) = [i \in 1..Len(Slots(n)) + 1 |->
                           IF i = Len(Slots(n)) + 1 THEN n + 1
                           ELSE IF i = 1 THEN NoText ELSE Slots(n)[i]]
<1>1. Len(Slots(n)) = n
  BY SlotsSeq
<1>2. ASSUME NEW i \in 1..(n + 1)
      PROVE  (IF i = 1 /\ n + 1 > 1 THEN NoText ELSE i)
               = IF i = n + 1 THEN n + 1 ELSE IF i = 1 THEN NoText ELSE Slots(n)[i]
  <2>1. CASE i = n + 1
    BY <2>1
  <2>2. CASE i # n + 1
    <3>1. i \in 1..n
      BY <2>2
    <3>2. Slots(n)[i] = IF i = 1 /\ n > 1 THEN NoText ELSE i
      BY <3>1 DEF Slots
    <3>. QED  BY <2>2, <3>1, <3>2
  <2>. QED  BY <2>1, <2>2
<1>. QED  BY <1>1, <1>2 DEF Slots

\* A word, or what realloc gave, in every slot.
LEMMA MatchSlots ==
  ASSUME NEW S, NEW r \in Seq(S), NEW word \in S, NoText \in S
  PROVE  [i \in 1..Len(r) + 1 |-> IF i = Len(r) + 1 THEN word
                                  ELSE IF i = 1 THEN NoText ELSE r[i]] \in Seq(S)
<1>1. Len(r) \in Nat /\ \A i \in 1..Len(r) : r[i] \in S
  BY LenProperties, ElementOfSeq
<1>2. [i \in 1..Len(r) + 1 |-> IF i = Len(r) + 1 THEN word
                               ELSE IF i = 1 THEN NoText ELSE r[i]]
        \in [1..(Len(r) + 1) -> S]
  BY <1>1
<1>. QED  BY <1>1, <1>2, SeqDef

\* The calls under way when user code uses the service: none stays quiet.
LEMMA DisturbedCalls ==
  ASSUME calls \in Seq(Frames)
  PROVE  /\ Disturbed \in Seq(Frames) /\ Len(Disturbed) = Len(calls)
         /\ \A d \in 1..Len(calls) : ~Disturbed[d].quiet
<1>1. \A d \in 1..Len(calls) : calls[d] \in Frames
  OBVIOUS
<1>2. \A d \in 1..Len(calls) : /\ [calls[d] EXCEPT !.quiet = FALSE] \in Frames
                               /\ [calls[d] EXCEPT !.quiet = FALSE].quiet = FALSE
  BY <1>1 DEF Frames
<1>3. Len(calls) \in Nat
  BY LenProperties
<1>4. /\ Disturbed \in [1..Len(calls) -> Frames]
      /\ \A d \in 1..Len(calls) : Disturbed[d] = [calls[d] EXCEPT !.quiet = FALSE]
  BY <1>2 DEF Disturbed
<1>5. Disturbed \in Seq(Frames)
  BY <1>3, <1>4, SeqDef
<1>6. Len(Disturbed) = Len(calls)
  <2>1. DOMAIN Disturbed = 1..Len(Disturbed) /\ Len(Disturbed) \in Nat
    BY <1>5, LenProperties
  <2>2. DOMAIN Disturbed = 1..Len(calls)
    BY <1>4
  <2>. QED  BY <1>3, <2>1, <2>2
<1>. QED  BY <1>2, <1>4, <1>5, <1>6

\* A call begins in the middle of them.
LEMMA Pushed ==
  ASSUME calls \in Seq(Frames), NEW f \in Frames, calls' = Append(Disturbed, f)
  PROVE  OnlyTopQuiet' /\ calls' # <<>> /\ Top' = f
<1>1. /\ calls' \in Seq(Frames) /\ Len(calls') = Len(calls) + 1 /\ Len(calls) \in Nat
      /\ calls'[Len(calls')] = f
      /\ \A d \in 1..Len(calls) : calls'[d] = Disturbed[d]
  BY DisturbedCalls
<1>2. OnlyTopQuiet'
  BY <1>1, DisturbedCalls DEF OnlyTopQuiet
<1>. QED  BY <1>1, <1>2 DEF Top

\* User code changes nothing but the file: no call stays quiet.
LEMMA OnlyDisturbed ==
  ASSUME calls \in Seq(Frames), calls' = Disturbed
  PROVE  OnlyTopQuiet' /\ QuietProgress' /\ QuietFind'
<1>1. OnlyTopQuiet'
  BY DisturbedCalls DEF OnlyTopQuiet
<1>2. calls' # <<>> => ~Top'.quiet
  BY DisturbedCalls DEF Top
<1>. QED  BY <1>1, <1>2 DEF QuietProgress, QuietFind, In

\* The calls under the innermost.
LEMMA UnderCalls ==
  ASSUME calls \in Seq(Frames), calls # <<>>
  PROVE  /\ Len(calls) \in Nat \ {0}
         /\ Under \in Seq(Frames) /\ Len(Under) = Len(calls) - 1
         /\ \A d \in 1..Len(calls) : d < Len(calls) => Under[d] = calls[d]
<1>1. Len(calls) \in Nat \ {0} /\ \A d \in 1..Len(calls) : calls[d] \in Frames
  BY EmptySeq, ElementOfSeq
<1>2. \A d \in 1..(Len(calls) - 1) : calls[d] \in Frames
  BY <1>1
<1>3. /\ SubSeq(calls, 1, Len(calls) - 1) \in Seq(Frames)
      /\ Len(SubSeq(calls, 1, Len(calls) - 1))
           = IF 1 <= Len(calls) - 1 THEN Len(calls) - 1 - 1 + 1 ELSE 0
      /\ \A d \in 1..(Len(calls) - 1 - 1 + 1) :
           SubSeq(calls, 1, Len(calls) - 1)[d] = calls[1 + d - 1]
  BY <1>1, <1>2, SubSeqProperties
<1>4. /\ Under \in Seq(Frames)
      /\ Len(Under) = IF 1 <= Len(calls) - 1 THEN Len(calls) - 1 - 1 + 1 ELSE 0
      /\ \A d \in 1..(Len(calls) - 1 - 1 + 1) : Under[d] = calls[1 + d - 1]
  BY <1>3 DEF Under
<1>5. Len(Under) = Len(calls) - 1
  <2>1. \A n \in Nat \ {0} : (IF 1 <= n - 1 THEN n - 1 - 1 + 1 ELSE 0) = n - 1
    OBVIOUS
  <2>. QED  BY <1>1, <1>4, <2>1
<1>6. ASSUME NEW d \in 1..Len(calls), d < Len(calls)
      PROVE  Under[d] = calls[d]
  <2>1. d \in 1..(Len(calls) - 1 - 1 + 1) /\ 1 + d - 1 = d
    BY <1>1, <1>6
  <2>. QED  BY <1>4, <2>1
<1>. QED  BY <1>1, <1>4, <1>5, <1>6

\* The innermost call moves on, or returns.
LEMMA Moved ==
  ASSUME OnlyTopQuiet, calls # <<>>, NEW f \in Frames, calls' = Append(Under, f)
  PROVE  OnlyTopQuiet' /\ calls' # <<>> /\ Top' = f
<1>1. /\ calls' \in Seq(Frames) /\ Len(calls') = Len(calls) /\ Len(calls) \in Nat
      /\ calls'[Len(calls')] = f
      /\ \A d \in 1..Len(calls) : d < Len(calls) => calls'[d] = calls[d]
  <2>1. /\ Under \in Seq(Frames) /\ Len(Under) = Len(calls) - 1 /\ Len(calls) \in Nat \ {0}
        /\ \A d \in 1..Len(calls) : d < Len(calls) => Under[d] = calls[d]
    BY UnderCalls DEF OnlyTopQuiet
  <2>2. /\ calls' \in Seq(Frames) /\ Len(calls') = Len(Under) + 1
        /\ \A d \in 1..Len(Under) : calls'[d] = Under[d]
        /\ calls'[Len(Under) + 1] = f
    BY <2>1, AppendProperties
  <2>. QED  BY <2>1, <2>2
<1>. QED  BY <1>1 DEF OnlyTopQuiet, Top

LEMMA Returned ==
  ASSUME OnlyTopQuiet, calls # <<>>, calls' = Under
  PROVE  OnlyTopQuiet' /\ QuietProgress' /\ QuietFind'
<1>1. /\ calls' \in Seq(Frames) /\ Len(calls') = Len(calls) - 1 /\ Len(calls) \in Nat \ {0}
      /\ \A d \in 1..Len(calls) : d < Len(calls) => calls'[d] = calls[d]
  BY UnderCalls DEF OnlyTopQuiet
<1>2. OnlyTopQuiet'
  BY <1>1 DEF OnlyTopQuiet
<1>3. calls' # <<>> => ~Top'.quiet
  BY <1>1 DEF OnlyTopQuiet, Top
<1>. QED  BY <1>2, <1>3 DEF QuietProgress, QuietFind, In

\* The frames that calls begin with.
LEMMA FrameTyped ==
  ASSUME NEW op \in {"reset", "next", "find"}, NEW query \in Queries, NEW word \in Int,
         NEW pc \in {"opened", "read", "callback"}
  PROVE  /\ Frame(op, query, word, pc) \in Frames
         /\ Frame(op, query, word, pc).op = op /\ Frame(op, query, word, pc).pc = pc
         /\ Frame(op, query, word, pc).query = query
  BY DEF Frame, Frames

LEMMA InitIInv == Init => IInv
<1> SUFFICES ASSUME Init PROVE IInv
  OBVIOUS
<1>1. TypeOK /\ HandleIsFile
  BY DEF Init, TypeOK, HandleIsFile, Closed
<1>2. OnlyTopQuiet /\ QuietProgress /\ QuietFind
  BY EmptySeq DEF Init, OnlyTopQuiet, QuietProgress, QuietFind, In
<1>. QED  BY <1>1, <1>2 DEF IInv

\* The innermost call.
LEMMA TopTyped ==
  ASSUME OnlyTopQuiet, calls # <<>>
  PROVE  Top \in Frames
  BY EmptySeq, ElementOfSeq DEF OnlyTopQuiet, Top

(* The calls under way, and what a quiet find_ has found so far.           *)
LEMMA NextCalls == IInv /\ [Next]_vars => (OnlyTopQuiet /\ QuietProgress /\ QuietFind)'
<1> SUFFICES ASSUME IInv, [Next]_vars
             PROVE  (OnlyTopQuiet /\ QuietProgress /\ QuietFind)'
  OBVIOUS
<1>0. /\ TypeOK /\ OnlyTopQuiet /\ QuietProgress /\ QuietFind /\ calls \in Seq(Frames)
      /\ Queries = SUBSET (1..Words) /\ {} \in Queries
  BY DEF IInv, OnlyTopQuiet, Queries
<1>1. ASSUME NEW op \in {"reset", "find"}, NEW query \in Queries, Reopens(op, query),
             op = "find" => retval' = <<>>
      PROVE  (OnlyTopQuiet /\ QuietProgress /\ QuietFind)'
  <2>1. CASE file' = 0 /\ calls' = Append(Disturbed, Frame(op, query, NoWord, "opened"))
    <3> DEFINE f == Frame(op, query, NoWord, "opened")
    <3>0. f \in Frames /\ f.pc = "opened" /\ f.op = op
      BY FrameTyped DEF NoWord
    <3>1. OnlyTopQuiet' /\ Top' = f
      BY <1>0, <2>1, <3>0, Pushed
    <3>2. Top'.pc = "opened" /\ Top'.op = op
      BY <3>0, <3>1
    <3>. QED  BY <1>1, <2>1, <3>1, <3>2 DEF QuietProgress, QuietFind, In
  <2>2. CASE calls' = Disturbed
    BY <1>0, <2>2, OnlyDisturbed
  <2>. QED  BY <1>1, <2>1, <2>2 DEF Reopens
<1>2. ASSUME NEW why, Crash(why)
      PROVE  (OnlyTopQuiet /\ QuietProgress /\ QuietFind)'
  <2>1. calls' = <<>>
    BY <1>2 DEF Crash
  <2>. QED  BY <2>1, EmptySeq DEF OnlyTopQuiet, QuietProgress, QuietFind, In
<1>3. CASE close
  BY <1>0, <1>3, OnlyDisturbed DEF close
<1>4. CASE reset
  BY <1>0, <1>1, <1>4 DEF reset
<1>5. ASSUME NEW query \in Queries, find(query)
      PROVE  (OnlyTopQuiet /\ QuietProgress /\ QuietFind)'
  BY <1>1, <1>2, <1>5 DEF find
<1>6. CASE next
  <2> DEFINE f == Frame("next", {}, NextWord, "callback")
  <2>1. NextWord \in Int
    BY <1>0 DEF NextWord, NoWord, TypeOK, Closed
  <2>2. f \in Frames /\ f.pc = "callback" /\ f.op = "next"
    BY <1>0, <2>1, FrameTyped
  <2>3. OnlyTopQuiet' /\ Top' = f
    BY <1>0, <1>6, <2>2, Pushed DEF next
  <2>. QED  BY <2>2, <2>3 DEF QuietProgress, QuietFind
<1>7. CASE next_refused \/ UNCHANGED vars
  BY <1>0, <1>7 DEF next_refused, vars, OnlyTopQuiet, QuietProgress, QuietFind, In, Top
<1>8. CASE OpenedReturns
  <2>1. calls # <<>> /\ Top.pc = "opened" /\ Top \in Frames
    BY <1>0, <1>8, TopTyped DEF OpenedReturns, In
  <2>2. CASE Top.op = "find"
    <3> DEFINE f == [Top EXCEPT !.pc = "read"]
    <3>1. /\ f \in Frames /\ f.pc = "read" /\ f.quiet = Top.quiet /\ f.query = Top.query
          /\ f.query \in Queries
      BY <2>1 DEF Frames
    <3>2. OnlyTopQuiet' /\ Top' = f
      BY <1>0, <1>8, <2>1, <2>2, <3>1, Moved DEF OpenedReturns
    <3>3. Top.quiet => file = 0 /\ retval = <<>>
      BY <1>0, <2>1, <2>2 DEF QuietProgress
    <3>4. UNCHANGED <<file, retval>>
      BY <1>8 DEF OpenedReturns
    <3> HIDE DEF f
    <3>5. Top'.quiet => file' = 0 /\ retval' = Slots(0)
      BY <3>1, <3>2, <3>3, <3>4, NoSlots
    <3>6. 1..0 = {} /\ 0 # Closed
      BY DEF Closed
    <3>7. QuietProgress' /\ QuietFind'
      BY <3>1, <3>2, <3>5, <3>6 DEF QuietProgress, QuietFind, In
    <3>. QED  BY <3>2, <3>7
  <2>3. CASE Top.op # "find"
    BY <1>0, <1>8, <2>1, <2>3, Returned DEF OpenedReturns
  <2>. QED  BY <2>2, <2>3
<1>9. CASE Match
  <2>1. /\ calls # <<>> /\ Top.pc = "read" /\ Top \in Frames /\ calls' = calls
        /\ file # Closed /\ NextWord \in Top.query /\ Top.query \subseteq 1..Words
        /\ file' = NextWord
        /\ retval' = [i \in 1..Len(retval) + 1 |->
                       IF i = Len(retval) + 1 THEN NextWord
                       ELSE IF i = 1 THEN NoText ELSE retval[i]]
    BY <1>0, <1>9, TopTyped DEF Match, Matches, In, Frames, Queries
  <2>2. file \in 0..Words /\ NextWord = file + 1 /\ Words \in Nat
    BY <1>0, <2>1 DEF NextWord, NoWord, TypeOK
  <2>3. Top.quiet => retval = Slots(file) /\ 1..file \subseteq Top.query
    BY <1>0, <2>1 DEF QuietProgress
  <2>4. Top.quiet => retval' = Slots(file') /\ 1..file' \subseteq Top.query
    <3>1. 1..file' = (1..file) \cup {NextWord} /\ file \in Nat
      BY <2>1, <2>2
    <3>2. Top.quiet => retval' = Slots(file + 1)
      BY <2>1, <2>2, <2>3, <3>1, SlotsStep
    <3>. QED  BY <2>1, <2>2, <2>3, <3>1, <3>2
  <2>5. OnlyTopQuiet' /\ Top' = Top /\ file' # Closed
    BY <1>0, <2>1, <2>2 DEF OnlyTopQuiet, Top, Closed
  <2>. QED  BY <2>1, <2>4, <2>5 DEF QuietProgress, QuietFind, In
<1>10. CASE NoMatch
  <2>1. /\ calls # <<>> /\ Top.pc = "read" /\ Top \in Frames
        /\ file # Closed /\ NextWord \notin Top.query /\ Top.query \subseteq 1..Words
        /\ file' = Closed /\ retval' = retval
    BY <1>0, <1>10, TopTyped DEF NoMatch, Closes, In, Frames, Queries
  <2> DEFINE f == [Top EXCEPT !.pc = "callback"]
  <2>2. /\ f \in Frames /\ f.pc = "callback" /\ f.quiet = Top.quiet /\ f.query = Top.query
    BY <2>1 DEF Frames
  <2>3. OnlyTopQuiet' /\ Top' = f
    BY <1>0, <1>10, <2>1, <2>2, Moved DEF NoMatch
  <2>4. file \in 0..Words /\ file + 1 \notin Top.query
    BY <1>0, <2>1 DEF NextWord, TypeOK
  <2>5. Top.quiet => retval = Slots(file) /\ 1..file \subseteq Top.query
    BY <1>0, <2>1 DEF QuietProgress
  <2> HIDE DEF f
  <2>6. Top'.quiet => /\ retval' = Slots(file) /\ 1..file \subseteq Top'.query
                      /\ file + 1 \notin Top'.query
    BY <2>1, <2>2, <2>3, <2>4, <2>5
  <2>7. QuietFind'
    BY <2>1, <2>4, <2>6 DEF QuietFind
  <2>8. QuietProgress'
    <3>1. Top'.pc = "callback"
      BY <2>2, <2>3
    <3>. QED  BY <3>1 DEF QuietProgress
  <2>. QED  BY <2>3, <2>7, <2>8
<1>11. CASE CallbackReturns
  BY <1>0, <1>11, Returned DEF CallbackReturns, In
<1>. QED
  BY <1>2, <1>3, <1>4, <1>5, <1>6, <1>7, <1>8, <1>9, <1>10, <1>11
     DEF Next, Read, ReadClosed, MatchCrashes

\* No step loses a FILE, and what the state is made of keeps its type.
LEMMA NextFile == IInv /\ [Next]_vars => (TypeOK /\ HandleIsFile)'
<1> SUFFICES ASSUME IInv, [Next]_vars
             PROVE  (TypeOK /\ HandleIsFile)'
  OBVIOUS
<1>0. /\ file \in {Closed} \cup 0..Words /\ opens = (IF file = Closed THEN 0 ELSE 1)
      /\ retval \in Seq((1..Words) \cup {NoText}) /\ crashed \in {"no", "realloc", "fscanf"}
      /\ Closed # 0 /\ Closed = -1
  BY DEF IInv, TypeOK, HandleIsFile, Closed
<1>1. OnlyTopQuiet'
  BY NextCalls DEF IInv
<1>2. ASSUME Closes
      PROVE  file' = Closed /\ opens' = 0
  BY <1>0, <1>2 DEF Closes
<1>3. ASSUME NEW op, NEW query, Reopens(op, query)
      PROVE  \/ file' = Closed /\ opens' = 0
             \/ file' = 0 /\ opens' = 1
  BY <1>0, <1>2, <1>3 DEF Reopens
<1>4. \/ UNCHANGED <<file, opens>>
      \/ file' = Closed /\ opens' = 0
      \/ file' = 0 /\ opens' = 1
      \/ file # Closed /\ file' \in 1..Words /\ opens' = opens
  <2>1. CASE next
    BY <1>0, <2>1 DEF next, NextWord, NoWord
  <2>2. CASE Match
    <3>1. Top.query \subseteq 1..Words
      BY <2>2, TopTyped DEF IInv, Match, Matches, In, Frames, Queries
    <3>. QED  BY <2>2, <3>1 DEF Match, Matches
  <2>3. CASE next_refused \/ OpenedReturns \/ ReadClosed \/ MatchCrashes \/ CallbackReturns \/ UNCHANGED vars
    BY <2>3 DEF next_refused, OpenedReturns, ReadClosed, MatchCrashes, CallbackReturns, Crash, vars
  <2>4. CASE close \/ NoMatch
    BY <1>2, <2>4 DEF close, NoMatch
  <2>5. ASSUME NEW query \in Queries, find(query)
        PROVE  \/ UNCHANGED <<file, opens>>
               \/ file' = Closed /\ opens' = 0
               \/ file' = 0 /\ opens' = 1
    BY <1>3, <2>5 DEF find, Crash
  <2>6. CASE reset
    BY <1>3, <2>6 DEF reset
  <2>. QED  BY <2>1, <2>2, <2>3, <2>4, <2>5, <2>6 DEF Next, Read
<1>5. retval' \in Seq((1..Words) \cup {NoText})
  <2>1. CASE Match
    <3>1. Top.query \subseteq 1..Words
      BY <2>1, TopTyped DEF IInv, Match, Matches, In, Frames, Queries
    <3>2. NextWord \in (1..Words) \cup {NoText}
      BY <2>1, <3>1 DEF Match, Matches
    <3>. QED  BY <1>0, <2>1, <3>2, MatchSlots DEF Match
  <2>2. retval' = retval \/ retval' = <<>> \/ Match
    BY DEF Next, Read, close, reset, next, next_refused, find, Crash, OpenedReturns, NoMatch,
           ReadClosed, MatchCrashes, CallbackReturns, vars
  <2>. QED  BY <1>0, <2>1, <2>2, EmptySeq
<1>6. crashed' \in {"no", "realloc", "fscanf"}
  BY <1>0 DEF Next, Read, close, reset, Reopens, next, next_refused, find, Crash, OpenedReturns,
          Match, NoMatch, ReadClosed, MatchCrashes, CallbackReturns, vars
<1>7. file' \in {Closed} \cup 0..Words /\ opens' \in Nat /\ HandleIsFile'
  BY <1>0, <1>4 DEF HandleIsFile
<1>8. (\A d \in DOMAIN calls :
         /\ calls[d].op \in {"reset", "next", "find"} /\ calls[d].query \in Queries
         /\ calls[d].pc \in {"opened", "read", "callback"})'
  <2>1. calls' \in Seq(Frames)
    BY <1>1 DEF OnlyTopQuiet
  <2>2. \A d \in DOMAIN calls' : calls'[d] \in Frames
    BY <2>1, LenProperties
  <2>. QED  BY <2>2 DEF Frames
<1>. QED  BY <1>5, <1>6, <1>7, <1>8 DEF TypeOK

LEMMA NextIInv == IInv /\ [Next]_vars => IInv'
  BY NextFile, NextCalls DEF IInv

\* The inductive invariant holds in every reachable state.
THEOREM Invariance == Spec => []IInv
  BY InitIInv, NextIInv, PTL DEF Spec

(* The state of the dictionary service is well typed.                      *)
THEOREM DictionaryTypes == Spec => []TypeOK
<1>1. IInv => TypeOK
  BY DEF IInv
<1>. QED  BY <1>1, Invariance, PTL

(* No FILE is ever lost, whatever callbacks do in the middle of find_.     *)
THEOREM OneFile == Spec => []HandleIsFile
<1>1. IInv => HandleIsFile
  BY DEF IInv
<1>. QED  BY <1>1, Invariance, PTL

(* What an undisturbed find_ gives its last callback: the words of the     *)
(* matching head of the file but, of several, the first, which the realloc *)
(* into slot 0 loses; and the file is closed by then.                      *)
THEOREM FindsHead == Spec => []QuietFind
<1>1. IInv => QuietFind
  BY DEF IInv
<1>. QED  BY <1>1, Invariance, PTL

(* Reading from no file takes a callback that uses the service.            *)
THEOREM ReentryCrashes == Spec => []CrashNeedsReentry
<1>1. IInv => CrashNeedsReentry
  BY DEF IInv, QuietProgress, CrashNeedsReentry, In
<1>. QED  BY <1>1, Invariance, PTL
=============================================================================
