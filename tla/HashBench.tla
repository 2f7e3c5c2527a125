----------------------------- MODULE HashBench -----------------------------
(***************************************************************************)
(* The benchmark that uses an in-memory SQLite table as a hash table       *)
(* (hash_db/benchmarking.c).  ubench calls the three benchmarks in the     *)
(* order the file registers them, those its --filter leaves, each at least *)
(* once.  A SQLite call in TRY exits the process on an error code, so an   *)
(* action ends where a TRY after a change of state begins.                 *)
(*                                                                         *)
(* Two pieces of state must agree although nothing but the order of calls  *)
(* makes them: the counters of GLOBALS_STRUCT, and the table, whose keys   *)
(* AUTOINCREMENT hands out and never hands out again.                      *)
(***************************************************************************)
EXTENDS Integers

CONSTANT MaxRuns    \* bound: the calls of one benchmark

ASSUME MaxRunsAssumption == MaxRuns \in Nat \ {0}

VARIABLES
  chosen,             \* the benchmarks --filter leaves
  pc,                 \* where main is
  runs,               \* the calls of the current benchmark so far
  rows,               \* hash_table
  seq,                \* the last key AUTOINCREMENT gave (sqlite_sequence)
  inserts_counter, deletions_counter,
  last,               \* the last key hash_db_select looked up, and whether it was there
  printed             \* the totals close_and_clean prints

counters == <<inserts_counter, deletions_counter>>
vars == <<chosen, pc, runs, rows, seq, counters, last, printed>>

Benchmarks == {"populate", "select", "delete"}
Row(key, value) == [key |-> key, value |-> value]

Init ==
  /\ chosen \in SUBSET Benchmarks
  /\ pc = "setup" /\ runs = 0
  /\ rows = {} /\ seq = 0
  /\ inserts_counter = 0 /\ deletions_counter = 0
  /\ last = [key |-> 0, hit |-> TRUE, of |-> 0]
  /\ printed = [inserts |-> 0, deletions |-> 0]
-----------------------------------------------------------------------------
Runs(benchmark) == pc = benchmark /\ benchmark \in chosen /\ runs < MaxRuns

(* TRY of a call that fails: in the set up, in a benchmark, after the row  *)
(* of an insertion is in the table, or before the totals are printed.      *)
Exit ==
  /\ pc \in {"setup", "inserted", "clean"} \cup chosen
  /\ pc' = "exited"
  /\ UNCHANGED <<chosen, runs, rows, seq, counters, last, printed>>

(* init_setup: open, create the table, prepare the statements. *)
init_setup ==
  /\ pc = "setup" /\ pc' = "populate"
  /\ UNCHANGED <<chosen, runs, rows, seq, counters, last, printed>>

(* A mutant of hash_db_populate: a failed insertion is counted. *)
PopulateCountsFailures ==
  /\ Runs("populate")
  /\ pc' = "inserted" /\ runs' = runs + 1
  /\ \/ seq' = seq + 1 /\ rows' = rows \cup {Row(seq + 1, inserts_counter + 1000)}
     \/ UNCHANGED <<seq, rows>>
  /\ UNCHANGED <<chosen, counters, last, printed>>

(* hash_db_populate: the text is made from the counter, and sqlite3_step   *)
(* inserts the row; ...                                                    *)
hash_db_populate ==
  /\ Runs("populate")
  /\ pc' = "inserted" /\ runs' = runs + 1
  /\ seq' = seq + 1
  /\ rows' = rows \cup {Row(seq + 1, inserts_counter + 1000)}
  /\ UNCHANGED <<chosen, counters, last, printed>>

(* ... when sqlite3_reset has answered OK too, the row is counted.         *)
populate_counts ==
  /\ pc = "inserted" /\ pc' = "populate"
  /\ inserts_counter' = inserts_counter + 1
  /\ UNCHANGED <<chosen, runs, rows, seq, deletions_counter, last, printed>>

(* Two mutants of hash_db_select: keys 0 to n + 1, and keys 0 to n - 2. *)
SelectTooFar ==
  /\ Runs("select")
  /\ runs' = runs + 1
  /\ \E key \in 0..inserts_counter + 1 :
       last' = [key |-> key, hit |-> \E r \in rows : r.key = key, of |-> seq]
  /\ UNCHANGED <<chosen, pc, rows, seq, counters, printed>>

SelectTooShort ==
  /\ Runs("select")
  /\ runs' = runs + 1
  /\ IF inserts_counter - 1 = 0 THEN pc' = "crashed" /\ UNCHANGED last
     ELSE /\ \E key \in 0..inserts_counter - 2 :
               last' = [key |-> key, hit |-> \E r \in rows : r.key = key, of |-> seq]
          /\ UNCHANGED pc
  /\ UNCHANGED <<chosen, rows, seq, counters, printed>>

(* rand() % inserts_counter is a division by zero on an empty table. *)
hash_db_select ==
  /\ Runs("select")
  /\ runs' = runs + 1
  /\ IF inserts_counter = 0 THEN pc' = "crashed" /\ UNCHANGED last
     ELSE /\ \E key \in 0..inserts_counter - 1 :
               last' = [key |-> key, hit |-> \E r \in rows : r.key = key, of |-> seq]
          /\ UNCHANGED pc
  /\ UNCHANGED <<chosen, rows, seq, counters, printed>>

(* A mutant of hash_db_delete: the last key is taken for the counter minus *)
(* one.                                                                    *)
DeleteBeforeLast ==
  /\ Runs("delete")
  /\ runs' = runs + 1
  /\ rows' = {r \in rows : r.key # inserts_counter - 1}
  /\ IF rows' # rows
     THEN /\ inserts_counter' = inserts_counter - 1
          /\ deletions_counter' = deletions_counter + 1
     ELSE UNCHANGED counters
  /\ UNCHANGED <<chosen, pc, seq, last, printed>>

(* "start from the end": the key is the counter; only a deletion that      *)
(* modified a row is counted, and no call that may exit comes in between.  *)
hash_db_delete ==
  /\ Runs("delete")
  /\ runs' = runs + 1
  /\ rows' = {r \in rows : r.key # inserts_counter}
  /\ IF rows' # rows
     THEN /\ inserts_counter' = inserts_counter - 1
          /\ deletions_counter' = deletions_counter + 1
     ELSE UNCHANGED counters
  /\ UNCHANGED <<chosen, pc, seq, last, printed>>

(* A mutant of ubench_main: it goes through the benchmarks twice. *)
UbenchAgain ==
  /\ pc \in Benchmarks
  /\ pc \in chosen => runs > 0
  /\ \/ pc' = CASE pc = "populate" -> "select" [] pc = "select" -> "delete" [] OTHER -> "clean"
     \/ pc = "delete" /\ pc' = "populate"
  /\ runs' = 0
  /\ UNCHANGED <<chosen, rows, seq, counters, last, printed>>

(* ubench goes on to the next benchmark, at last back to main. *)
ubench_main ==
  /\ pc \in Benchmarks
  /\ pc \in chosen => runs > 0
  /\ pc' = CASE pc = "populate" -> "select" [] pc = "select" -> "delete" [] OTHER -> "clean"
  /\ runs' = 0
  /\ UNCHANGED <<chosen, rows, seq, counters, last, printed>>

(* The delete statement is never finalized, so the connection stays open,  *)
(* unnoticed: the code of sqlite3_close is thrown away.                    *)
close_and_clean ==
  /\ pc = "clean" /\ pc' = "done"
  /\ printed' = [inserts   |-> inserts_counter + deletions_counter,
                 deletions |-> deletions_counter]
  /\ UNCHANGED <<chosen, runs, rows, seq, counters, last>>

Next ==
  \/ init_setup \/ Exit \/ ubench_main \/ close_and_clean
  \/ hash_db_populate \/ populate_counts \/ hash_db_select \/ hash_db_delete

Spec == Init /\ [][Next]_vars
-----------------------------------------------------------------------------
TypeOK ==
  /\ chosen \subseteq Benchmarks
  /\ pc \in {"setup", "inserted", "clean", "done", "exited", "crashed"} \cup Benchmarks
  /\ runs \in 0..MaxRuns
  /\ rows \subseteq [key : Nat \ {0}, value : Nat]
  /\ seq \in Nat /\ inserts_counter \in Nat /\ deletions_counter \in Nat
  /\ last \in [key : Nat, hit : BOOLEAN, of : Nat]
  /\ printed \in [inserts : Nat, deletions : Nat]

\* The keys 1 to n, each with the text it was given, its key + 999.
Dense(n) == {Row(key, key + 999) : key \in 1..n}

(* The table is what the counter says, Dense(inserts_counter), or has one  *)
(* row more: while that row waits to be counted, and after an exit between *)
(* the insertion and the count, which no later call can build on.  Were a  *)
(* row inserted after a deletion, or left uncounted by a call that         *)
(* returns, there would be a gap and hash_db_delete would never find its   *)
(* key again.                                                              *)
CounterIsTable ==
  \/ rows = Dense(inserts_counter)
  \/ rows = Dense(inserts_counter + 1) /\ pc \in {"inserted", "exited"}

(* The totals close_and_clean prints are those of the table: as many       *)
(* inserts as AUTOINCREMENT ever gave keys, and the rows that are left are *)
(* those not counted as deleted.  Before that, every row ever inserted is  *)
(* counted once, as there or as deleted, but for the one of an insertion   *)
(* under way; an exit may leave that one out for good.                     *)
TotalsExact ==
  /\ pc = "done" => /\ printed.inserts = seq
                    /\ rows = Dense(printed.inserts - printed.deletions)
  /\ seq - (inserts_counter + deletions_counter) \in
       CASE pc = "inserted" -> {1} [] pc = "exited" -> {0, 1} [] OTHER -> {0}

(* A lookup misses only with key 0: the "wrong" key of the comment in      *)
(* hash_db_select is always that one.                                      *)
OnlyKeyZeroMisses == last.hit \/ last.key = 0

(* What that comment says of the keys that are not in the table: "that is  *)
(* because of deleted rows" (benchmarking.c:170), so they were once.       *)
MissesAreDeletedRows == ~last.hit => last.key \in 1..last.of

(* A call of hash_db_delete on a table that is not empty deletes one row,  *)
(* the one inserted last ("start from the end").                           *)
DeletesFromTheEnd ==
  [][(pc = "delete" /\ runs' = runs + 1 /\ rows # {}) =>
       \E r \in rows : /\ rows' = rows \ {r}
                       /\ \A other \in rows' : other.key < r.key]_vars

(* The division by zero of hash_db_select happens only when --filter       *)
(* leaves out the benchmark that fills the table.                          *)
CrashNeedsFilter == pc = "crashed" => "populate" \notin chosen
=============================================================================
