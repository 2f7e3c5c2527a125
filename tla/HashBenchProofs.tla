-------------------------- MODULE HashBenchProofs --------------------------
(***************************************************************************)
(* The agreement of the counters with the table, for any number of calls   *)
(* of each benchmark, any filter and an exit at any call that can fail.    *)
(***************************************************************************)
EXTENDS HashBench, TLAPS

\* What the order of the benchmarks gives: nothing is deleted before the
\* last insertion, and a key is looked up only before the first deletion.
Order ==
  /\ pc \in {"setup", "populate", "inserted", "select"} => deletions_counter = 0
  /\ pc = "setup" => inserts_counter = 0 /\ runs = 0
  /\ (pc = "select" /\ "populate" \in chosen) => inserts_counter > 0
  /\ (pc = "populate" /\ runs > 0) => inserts_counter > 0
  /\ pc = "inserted" => rows = Dense(inserts_counter + 1) /\ runs > 0
  /\ pc # "done" => printed = [inserts |-> 0, deletions |-> 0]

IInv == /\ TypeOK /\ CounterIsTable /\ TotalsExact /\ OnlyKeyZeroMisses
        /\ CrashNeedsFilter /\ Order

USE MaxRunsAssumption

LEMMA InitIInv == Init => IInv
  BY DEF Init, IInv, TypeOK, CounterIsTable, TotalsExact, OnlyKeyZeroMisses,
         CrashNeedsFilter, Order, Dense, Benchmarks

\* One row more.
LEMMA DenseStep ==
  ASSUME NEW n \in Nat
  PROVE  Dense(n + 1) = Dense(n) \cup {Row(n + 1, n + 1000)}
<1>1. 1..(n + 1) = (1..n) \cup {n + 1} /\ (n + 1) + 999 = n + 1000
  OBVIOUS
<1>. QED  BY <1>1 DEF Dense

\* Deleting the key the counter names takes away the last row, if any.
LEMMA DeleteLast ==
  ASSUME TypeOK, rows = Dense(inserts_counter), hash_db_delete
  PROVE  /\ inserts_counter = 0 => UNCHANGED <<rows, counters>>
         /\ inserts_counter > 0 =>
              /\ Row(inserts_counter, inserts_counter + 999) \in rows
              /\ rows' = rows \ {Row(inserts_counter, inserts_counter + 999)}
              /\ rows' = Dense(inserts_counter - 1)
              /\ inserts_counter' = inserts_counter - 1
              /\ deletions_counter' = deletions_counter + 1
<1> DEFINE n == inserts_counter
           top == Row(n, n + 999)
<1>1. n \in Nat /\ rows' = {r \in rows : r.key # n}
  BY DEF TypeOK, hash_db_delete
<1>2. CASE n = 0
  <2>1. rows = {}
    BY <1>2 DEF Dense
  <2>. QED  BY <1>1, <1>2, <2>1 DEF hash_db_delete, counters
<1>3. CASE n > 0
  <2>1. top \in rows
    BY <1>1, <1>3 DEF Dense
  <2>2. rows' = rows \ {top}
    BY <1>1, <1>3 DEF Dense, Row
  <2>3. rows' = Dense(n - 1)
    BY <1>1, <1>3 DEF Dense, Row
  <2>4. rows' # rows
    BY <2>1, <2>2
  <2>. QED  BY <1>1, <1>3, <2>1, <2>2, <2>3, <2>4 DEF hash_db_delete
<1>. QED  BY <1>1, <1>2, <1>3

\* What the counters say of the keys given so far, before the totals are
\* printed: all but the key of an insertion under way is counted.
LEMMA Counted ==
  ASSUME TypeOK, pc \notin {"exited", "done"}
  PROVE  TotalsExact <=>
           seq = inserts_counter + deletions_counter + (IF pc = "inserted" THEN 1 ELSE 0)
<1> DEFINE left == seq - (inserts_counter + deletions_counter)
<1>1. left \in Int /\ \A n \in Int : left = n <=> seq = inserts_counter + deletions_counter + n
  BY DEF TypeOK
<1>2. TotalsExact <=> left \in (IF pc = "inserted" THEN {1} ELSE {0})
  BY DEF TotalsExact
<1>. QED  BY <1>1, <1>2

LEMMA NextIInv == IInv /\ [Next]_vars => IInv'
<1> SUFFICES ASSUME IInv, [Next]_vars
             PROVE  IInv'
  OBVIOUS
<1>. USE DEF IInv
<1>1. CASE init_setup \/ Exit
  BY <1>1 DEF init_setup, Exit, TypeOK, CounterIsTable, TotalsExact, OnlyKeyZeroMisses,
              CrashNeedsFilter, Order, Benchmarks, counters
<1>2. CASE hash_db_populate
  <2>1. /\ seq = inserts_counter /\ inserts_counter \in Nat /\ rows = Dense(inserts_counter)
        /\ UNCHANGED <<chosen, inserts_counter, deletions_counter, last, printed>>
        /\ pc = "populate" /\ pc' = "inserted" /\ seq' = seq + 1
        /\ runs' \in 0..MaxRuns /\ runs' > 0
    <3>1. pc = "populate" /\ seq = inserts_counter + deletions_counter
      BY <1>2, Counted DEF hash_db_populate, Runs, TypeOK
    <3>. QED
      BY <1>2, <3>1 DEF hash_db_populate, Runs, counters, TypeOK, CounterIsTable, Order
  <2>2. rows' = Dense(inserts_counter + 1)
    BY <1>2, <2>1, DenseStep DEF hash_db_populate
  <2>3. TypeOK'
    <3>1. Row(seq + 1, inserts_counter + 1000) \in [key : Nat \ {0}, value : Nat]
      BY <2>1 DEF Row
    <3>. QED  BY <1>2, <2>1, <3>1 DEF TypeOK, hash_db_populate
  <2>4. CounterIsTable'
    BY <2>1, <2>2 DEF CounterIsTable
  <2>5. (TotalsExact /\ OnlyKeyZeroMisses /\ CrashNeedsFilter /\ Order)'
    BY <2>1, <2>2 DEF TypeOK, TotalsExact, OnlyKeyZeroMisses, CrashNeedsFilter, Order, Dense
  <2>. QED  BY <2>3, <2>4, <2>5
<1>8. CASE populate_counts
  <2>1. /\ seq = inserts_counter + 1 /\ inserts_counter \in Nat
        /\ rows = Dense(inserts_counter + 1) /\ runs > 0
        /\ UNCHANGED <<chosen, runs, rows, seq, deletions_counter, last, printed>>
        /\ pc = "inserted" /\ pc' = "populate" /\ inserts_counter' = inserts_counter + 1
    <3>1. pc = "inserted" /\ seq = inserts_counter + deletions_counter + 1
      BY <1>8, Counted DEF populate_counts
    <3>. QED  BY <1>8, <3>1 DEF populate_counts, TypeOK, Order
  <2>2. TypeOK'
    BY <2>1 DEF TypeOK, Benchmarks
  <2>3. (CounterIsTable /\ OnlyKeyZeroMisses /\ CrashNeedsFilter /\ Order)'
    BY <2>1 DEF TypeOK, CounterIsTable, OnlyKeyZeroMisses, CrashNeedsFilter, Order
  <2>4. TotalsExact'
    BY <2>1 DEF TypeOK, TotalsExact, Order
  <2>. QED  BY <2>2, <2>3, <2>4
<1>3. CASE hash_db_select
  <2>1. /\ UNCHANGED <<chosen, rows, seq, inserts_counter, deletions_counter, printed>>
        /\ pc = "select" /\ runs' \in 0..MaxRuns
    BY <1>3 DEF hash_db_select, Runs, counters, TypeOK
  <2>2. CASE inserts_counter = 0
    BY <1>3, <2>1, <2>2 DEF hash_db_select, TypeOK, CounterIsTable, TotalsExact,
         OnlyKeyZeroMisses, CrashNeedsFilter, Order
  <2>3. CASE inserts_counter # 0
    <3>1. PICK key \in 0..inserts_counter - 1 :
            last' = [key |-> key, hit |-> \E r \in rows : r.key = key, of |-> seq]
      BY <1>3, <2>3 DEF hash_db_select
    <3>2. pc' = pc
      BY <1>3, <2>3 DEF hash_db_select
    <3>3. key # 0 => Row(key, key + 999) \in rows /\ Row(key, key + 999).key = key
      BY <2>1, <3>1 DEF CounterIsTable, TypeOK, Row, Dense
    <3>4. key \in Nat /\ last'.key = key /\ (key # 0 => last'.hit)
      BY <3>1, <3>3 DEF TypeOK
    <3>5. last' \in [key : Nat, hit : BOOLEAN, of : Nat]
      BY <3>1, <3>4 DEF TypeOK
    <3>. QED
      BY <2>1, <3>2, <3>4, <3>5 DEF TypeOK, CounterIsTable, TotalsExact,
         OnlyKeyZeroMisses, CrashNeedsFilter, Order
  <2>. QED  BY <2>2, <2>3
<1>4. CASE hash_db_delete
  <2>1. /\ UNCHANGED <<chosen, pc, seq, last, printed>> /\ pc = "delete"
        /\ runs' \in 0..MaxRuns /\ rows = Dense(inserts_counter)
    BY <1>4 DEF hash_db_delete, Runs, TypeOK, CounterIsTable
  <2>2. CASE inserts_counter = 0
    <3>1. UNCHANGED <<rows, inserts_counter, deletions_counter>>
      BY <1>4, <2>1, <2>2, DeleteLast DEF counters
    <3>2. TypeOK'
      BY <2>1, <3>1 DEF TypeOK
    <3>3. (CounterIsTable /\ OnlyKeyZeroMisses /\ CrashNeedsFilter /\ Order)'
      BY <2>1, <3>1 DEF CounterIsTable, OnlyKeyZeroMisses, CrashNeedsFilter, Order
    <3>4. TotalsExact'
      BY <2>1, <3>1 DEF TotalsExact
    <3>. QED  BY <3>2, <3>3, <3>4
  <2>3. CASE inserts_counter > 0
    <3>1. /\ rows' = Dense(inserts_counter - 1) /\ rows' \subseteq rows
          /\ inserts_counter' = inserts_counter - 1
          /\ deletions_counter' = deletions_counter + 1
      BY <1>4, <2>1, <2>3, DeleteLast
    <3>2. inserts_counter \in Nat /\ deletions_counter \in Nat
      BY DEF TypeOK
    <3>3. TypeOK'
      BY <2>1, <2>3, <3>1, <3>2 DEF TypeOK
    <3>4. (CounterIsTable /\ OnlyKeyZeroMisses /\ CrashNeedsFilter /\ Order)'
      BY <2>1, <3>1 DEF CounterIsTable, OnlyKeyZeroMisses, CrashNeedsFilter, Order
    <3>5. TotalsExact'
      BY <2>1, <3>1, <3>2 DEF TotalsExact
    <3>. QED  BY <3>3, <3>4, <3>5
  <2>. QED  BY <2>2, <2>3 DEF TypeOK
<1>5. CASE ubench_main
  <2>1. /\ pc \in Benchmarks /\ pc' \in (Benchmarks \ {"populate"}) \cup {"clean"} /\ runs' = 0
        /\ pc' = "select" => pc = "populate"
        /\ pc \in chosen => runs > 0
        /\ UNCHANGED <<chosen, rows, seq, inserts_counter, deletions_counter, last, printed>>
    BY <1>5 DEF ubench_main, counters, Benchmarks
  <2>2. TypeOK'
    BY <2>1 DEF TypeOK
  <2>3. (CounterIsTable /\ OnlyKeyZeroMisses /\ CrashNeedsFilter)'
    BY <2>1 DEF CounterIsTable, OnlyKeyZeroMisses, CrashNeedsFilter, Benchmarks
  <2>4. Order'
    BY <2>1 DEF Order, Benchmarks
  <2>5. TotalsExact'
    BY <2>1 DEF TotalsExact, Benchmarks
  <2>. QED  BY <2>2, <2>3, <2>4, <2>5
<1>6. CASE close_and_clean
  BY <1>6 DEF close_and_clean, counters, TypeOK, CounterIsTable, TotalsExact,
              OnlyKeyZeroMisses, CrashNeedsFilter, Order, Benchmarks
<1>7. CASE UNCHANGED vars
  BY <1>7 DEF vars, counters, TypeOK, CounterIsTable, TotalsExact, OnlyKeyZeroMisses,
              CrashNeedsFilter, Order
<1>. QED
  BY <1>1, <1>2, <1>3, <1>4, <1>5, <1>6, <1>7, <1>8 DEF Next

\* The inductive invariant holds in every reachable state.
THEOREM Invariance == Spec => []IInv
  BY InitIInv, NextIInv, PTL DEF Spec

\* The types of the benchmark's state.
THEOREM BenchTypes == Spec => []TypeOK
<1>1. IInv => TypeOK
  BY DEF IInv
<1>. QED  BY <1>1, Invariance, PTL

\* The table holds exactly the keys 1 to inserts_counter, and one more only
\* from an insertion to its count, which an exit in between never makes.
THEOREM TableIsDense == Spec => []CounterIsTable
<1>1. IInv => CounterIsTable
  BY DEF IInv
<1>. QED  BY <1>1, Invariance, PTL

\* The totals printed are those of the table; no row is counted twice, and
\* only an exit between an insertion and its count leaves one out.
THEOREM Totals == Spec => []TotalsExact
<1>1. IInv => TotalsExact
  BY DEF IInv
<1>. QED  BY <1>1, Invariance, PTL

\* Every lookup but that of key 0 finds its row.
THEOREM LookupsHit == Spec => []OnlyKeyZeroMisses
<1>1. IInv => OnlyKeyZeroMisses
  BY DEF IInv
<1>. QED  BY <1>1, Invariance, PTL

\* The process divides by zero only if the table was never to be filled.
THEOREM CrashOnlyFiltered == Spec => []CrashNeedsFilter
<1>1. IInv => CrashNeedsFilter
  BY DEF IInv
<1>. QED  BY <1>1, Invariance, PTL

\* Every deletion on a table that is not empty pops its last row.
THEOREM DeletionsPop == Spec => DeletesFromTheEnd
<1> DEFINE A == (pc = "delete" /\ runs' = runs + 1 /\ rows # {}) =>
                  \E r \in rows : /\ rows' = rows \ {r}
                                  /\ \A other \in rows' : other.key < r.key
<1>1. ASSUME IInv, [Next]_vars
      PROVE  A
  <2> SUFFICES ASSUME pc = "delete", runs' = runs + 1, rows # {}
               PROVE  \E r \in rows : /\ rows' = rows \ {r}
                                      /\ \A other \in rows' : other.key < r.key
    OBVIOUS
  <2>1. hash_db_delete
    BY <1>1 DEF Next, vars, counters, IInv, TypeOK, Benchmarks, init_setup, Exit, ubench_main,
                close_and_clean, hash_db_populate, populate_counts, hash_db_select, Runs
  <2>2. rows = Dense(inserts_counter) /\ inserts_counter \in Nat /\ inserts_counter # 0
    BY <1>1 DEF IInv, TypeOK, CounterIsTable, Dense
  <2>3. /\ Row(inserts_counter, inserts_counter + 999) \in rows
        /\ rows' = rows \ {Row(inserts_counter, inserts_counter + 999)}
        /\ rows' = Dense(inserts_counter - 1)
    BY <1>1, <2>1, <2>2, DeleteLast DEF IInv
  <2>4. \A other \in rows' : other.key < Row(inserts_counter, inserts_counter + 999).key
    BY <2>2, <2>3 DEF Row, Dense
  <2>. QED  BY <2>3, <2>4
<1>2. IInv /\ [Next]_vars => [A]_vars
  BY <1>1
<1>. QED
  BY <1>2, Invariance, PTL DEF Spec, DeletesFromTheEnd
=============================================================================
