----------------------------- MODULE Dictionary -----------------------------
(***************************************************************************)
(* The dictionary service, dbj_en_dictionary.c: find, reset, next and      *)
(* close over one global FILE, the words of a sorted file.  Each of them   *)
(* takes a callback, which is code of the user: it may call the service    *)
(* again before it returns.                                                *)
(*                                                                         *)
(* A word is its place in the file.  A query is the set of words that      *)
(* contain it; it is never empty (the documented minimum is two letters),  *)
(* so the empty word contains none.                                        *)
(***************************************************************************)
EXTENDS Integers, Sequences

CONSTANTS
  Words,     \* how many words the file has
  MaxDepth   \* bound: calls nested through callbacks

ASSUME DictionaryAssumption == Words \in Nat /\ MaxDepth \in Nat \ {0}

VARIABLES
  file,      \* dictionary_file: how many words were read, or Closed
  opens,     \* how many FILEs fopen gave that were not closed
  retval,    \* the static retval of find_: the words_found slots in use
  calls,     \* the calls under way, the innermost last
  outcome,   \* what the last call to return was, and its status
  crashed    \* what ended the program

vars == <<file, opens, retval, calls, outcome, crashed>>

Closed  == -1
NoWord  == 0
NoText  == -1    \* in a slot: what realloc gave, no word
Queries == SUBSET (1..Words)

\* quiet: the callbacks of this call did not use the service so far.
Frame(op, query, word, pc) ==
  [op |-> op, query |-> query, word |-> word, pc |-> pc, quiet |-> TRUE]
Outcome(op, word, status) == [op |-> op, word |-> word, status |-> status]

Init ==
  /\ file = Closed /\ opens = 0 /\ retval = <<>> /\ calls = <<>>
  /\ outcome = Outcome("none", NoWord, "OK") /\ crashed = "no"
-----------------------------------------------------------------------------
Top == calls[Len(calls)]
Under == SubSeq(calls, 1, Len(calls) - 1)
In(pc) == calls # <<>> /\ Top.pc = pc

\* User code runs outside all calls and in their callbacks.
UserTurn ==
  /\ crashed = "no" /\ Len(calls) < MaxDepth
  /\ calls = <<>> \/ In("opened") \/ In("callback")

Disturbed == [d \in 1..Len(calls) |-> [calls[d] EXCEPT !.quiet = FALSE]]

Crash(why) ==
  /\ crashed' = why /\ calls' = <<>>
  /\ UNCHANGED <<file, opens, retval, outcome>>

\* fclose, if there is something to close.
Closes ==
  /\ file' = Closed
  /\ opens' = IF file = Closed THEN opens ELSE opens - 1

(* close_ *)
close ==
  /\ UserTurn /\ Closes
  /\ calls' = Disturbed /\ outcome' = Outcome("close", NoWord, "OK")
  /\ UNCHANGED <<retval, crashed>>

(* Two mutants of Reopens: the open file is forgotten; the result of fopen *)
(* is not looked at.                                                       *)
ReopensOver(op, query) ==
  /\ UNCHANGED crashed
  /\ \/ /\ file' = 0 /\ opens' = opens + 1
        /\ calls' = Append(Disturbed, Frame(op, query, NoWord, "opened"))
        /\ UNCHANGED outcome
     \/ /\ file' = Closed /\ UNCHANGED opens
        /\ calls' = Disturbed /\ outcome' = Outcome(op, NoWord, "ERR")

ReopensUnchecked(op, query) ==
  /\ UNCHANGED <<crashed, outcome>>
  /\ \/ file' = 0 /\ opens' = (IF file = Closed THEN opens ELSE opens - 1) + 1
     \/ Closes
  /\ calls' = Append(Disturbed, Frame(op, query, NoWord, "opened"))

(* The body of reset_: the file is closed and opened again, then the       *)
(* callback is called; if it cannot be opened the caller is told.          *)
Reopens(op, query) ==
  /\ UNCHANGED crashed
  /\ \/ /\ file' = 0 /\ opens' = (IF file = Closed THEN opens ELSE opens - 1) + 1
        /\ calls' = Append(Disturbed, Frame(op, query, NoWord, "opened"))
        /\ UNCHANGED outcome
     \/ /\ Closes
        /\ calls' = Disturbed /\ outcome' = Outcome(op, NoWord, "ERR")

reset == UserTurn /\ Reopens("reset", {}) /\ UNCHANGED retval

(* What fscanf reads into the word: at the end of the file nothing.        *)
NextWord == IF file < Words THEN file + 1 ELSE NoWord

(* A mutant of next: the place is counted on at the end of the file. *)
next_past_end ==
  /\ UserTurn /\ file # Closed
  /\ file' = file + 1
  /\ calls' = Append(Disturbed, Frame("next", {}, NextWord, "callback"))
  /\ UNCHANGED <<opens, retval, outcome, crashed>>

(* next_: the callback is called with null_cb_argument, whatever was read. *)
next ==
  /\ UserTurn /\ file # Closed
  /\ file' = IF NextWord = NoWord THEN file ELSE NextWord
  /\ calls' = Append(Disturbed, Frame("next", {}, NextWord, "callback"))
  /\ UNCHANGED <<opens, retval, outcome, crashed>>

next_refused ==
  /\ UserTurn /\ file = Closed
  /\ outcome' = Outcome("next", NoWord, "ERR")
  /\ UNCHANGED <<file, opens, retval, calls, crashed>>

(* A mutant of find: words_found is not set to 0. *)
find_keeps(query) ==
  /\ UserTurn
  /\ Reopens("find", query) /\ UNCHANGED retval

(* find_: frees what is in the slots, then calls realloc with a static     *)
(* array, either of which may end the program, then reset_.                *)
find(query) ==
  /\ UserTurn
  /\ \/ Reopens("find", query) /\ retval' = <<>>
     \/ Crash("realloc")

(* The callback of reset_ returns, to the caller or into find_.            *)
OpenedReturns ==
  /\ In("opened")
  /\ IF Top.op = "find"
     THEN calls' = Append(Under, [Top EXCEPT !.pc = "read"]) /\ UNCHANGED outcome
     ELSE calls' = Under /\ outcome' = Outcome("reset", NoWord, "OK")
  /\ UNCHANGED <<file, opens, retval, crashed>>

(* The loop of find_: a word that contains the query gets a slot of its    *)
(* own.  Before that, slot 0 is given what another realloc returns, which  *)
(* may end the program as well: the word in it, if any, is lost.  ...      *)
Matches == In("read") /\ file # Closed /\ NextWord \in Top.query

Match ==
  /\ Matches
  /\ file' = NextWord
  /\ retval' = [i \in 1..Len(retval) + 1 |->
                 IF i = Len(retval) + 1 THEN NextWord
                 ELSE IF i = 1 THEN NoText ELSE retval[i]]
  /\ UNCHANGED <<opens, calls, outcome, crashed>>

MatchCrashes == Matches /\ Crash("realloc")

(* A mutant of NoMatch: the loop goes on to the next word, as one would    *)
(* that does not need a sorted file.                                       *)
NoMatchGoesOn ==
  /\ In("read") /\ file # Closed /\ NextWord \notin Top.query
  /\ file' = IF NextWord = NoWord THEN file ELSE NextWord
  /\ UNCHANGED <<opens, retval, calls, outcome, crashed>>

(* ... the first that does not, or the end of the file, ends it. *)
NoMatch ==
  /\ In("read") /\ file # Closed /\ NextWord \notin Top.query
  /\ Closes
  /\ calls' = Append(Under, [Top EXCEPT !.pc = "callback"])
  /\ UNCHANGED <<retval, outcome, crashed>>

(* fscanf from no file. *)
ReadClosed == In("read") /\ file = Closed /\ Crash("fscanf")

(* The callback of next_ or the last one of find_ returns. *)
CallbackReturns ==
  /\ In("callback")
  /\ calls' = Under /\ outcome' = Outcome(Top.op, Top.word, "OK")
  /\ UNCHANGED <<file, opens, retval, crashed>>

Read == Match \/ NoMatch \/ ReadClosed

Next ==
  \/ close \/ reset \/ next \/ next_refused \/ \E query \in Queries : find(query)
  \/ OpenedReturns \/ Read \/ MatchCrashes \/ CallbackReturns

Spec == Init /\ [][Next]_vars
FairSpec == Spec /\ WF_vars(Read)
-----------------------------------------------------------------------------
TypeOK ==
  /\ file \in {Closed} \cup 0..Words /\ opens \in Nat
  /\ retval \in Seq((1..Words) \cup {NoText})
  /\ \A d \in DOMAIN calls :
       /\ calls[d].op \in {"reset", "next", "find"} /\ calls[d].query \in Queries
       /\ calls[d].pc \in {"opened", "read", "callback"}
  /\ crashed \in {"no", "realloc", "fscanf"}

(* The global is the only open FILE, or null: none is lost when it is      *)
(* opened again, cannot be opened, or callbacks open and close it in the   *)
(* middle of find_.                                                        *)
HandleIsFile == opens = (IF file = Closed THEN 0 ELSE 1)

\* The slots after n matches: the first of several is lost.
Slots(n) == [i \in 1..n |-> IF i = 1 /\ n > 1 THEN NoText ELSE i]

(* What the last callback of find_ gets: the words from the first of the   *)
(* file on that match, up to the first that does not, each in its slot,    *)
(* but slot 0 without its word if a second matched; and "this function     *)
(* leaves the dictionary in a closed state!" (dbj_en_dictionary.c:35).     *)
QuietFind ==
  (In("callback") /\ Top.op = "find" /\ Top.quiet) =>
    /\ file = Closed
    /\ \E n \in 0..Words : /\ 1..n \subseteq Top.query /\ n + 1 \notin Top.query
                          /\ retval = Slots(n)

(* find_ reads from a file it has not: only after its own callback closed  *)
(* it.                                                                     *)
CrashNeedsReentry == (In("read") /\ file = Closed) => ~Top.quiet

(* The loop of find_ ends, at the end of the file at the latest. *)
FindEnds == In("read") ~> ~In("read")

(* "arg is populated with all the words found" (dbj_en_dictionary.c:27):   *)
(* every word that got a slot is in the array the last callback is given.  *)
FoundAreDelivered ==
  (In("callback") /\ Top.op = "find" /\ Top.quiet) =>
    \A word \in 1..Len(retval) : \E i \in DOMAIN retval : retval[i] = word

(* The same, of all the words of the file that contain the query.          *)
FindComplete ==
  (In("callback") /\ Top.op = "find" /\ Top.quiet) =>
    \A word \in Top.query : \E i \in DOMAIN retval : retval[i] = word

(* "on file end, dbj_en_dictionary_status.EOF is returned"                 *)
(* (dbj_en_dictionary.c:94).                                               *)
EndIsTold ==
  (outcome.op = "next" /\ outcome.word = NoWord) => outcome.status # "OK"
=============================================================================
