# A verification project for dbj--sql

dbj--sql is a thin C++17 library over the SQLite C API, with a handful of
programs that use it: unit tests, a benchmark that uses SQLite as a hash table,
a tool that hashes databases, and a dictionary service over a text file.
This directory holds TLA+ modules that model those parts, TLC configurations
that check them on small instances, and TLAPS proofs of what holds for every
value of the constants.

* [1. The system](#1-the-system)
* [2. The modules and the code](#2-the-modules-and-the-code)
* [3. What the runs check](#3-what-the-runs-check)
* [4. Fairness and deadlock](#4-fairness-and-deadlock)
* [5. What is proved](#5-what-is-proved)
* [6. Where the code and its documentation disagree](#6-where-the-code-and-its-documentation-disagree)
* [7. What is not modelled](#7-what-is-not-modelled)
* [8. The plan](#8-the-plan)

To check a module: `tlc -config X.cfg M` (the runs and their modules are in
`PROJECT.json`); to check its proofs: `tlapm MProofs.tla`.

## 1. The system

Nothing here starts a thread. What makes the code hard is SQLite on the other
side of every call, which may fail at any of them, *callbacks* in the middle of
a call, *statics* that outlive the call that made them, *other processes* on
the same database, and arithmetic at its limits.

| Component | Source | State it keeps | Operations | Correct when |
|---|---|---|---|---|
| valstat and status codes | `dbj--sqlite/sqlite_valstat.h` | none | `DBJ_SQL_VALSTAT_OK/ERR`, `is_sqlite_error`, `is_error_valstat`, `print_on_sql_error` | an error is never taken for a success |
| `unique_handle` | `dbj++sql.h:25-180` | one raw pointer per object | construct, `reset`, `release`, `get_address_of`, destroy | each native object is closed once, by its only owner, and never used after |
| `database` | `dbj++sql.h:345-561` | a connection handle, the storage name | two constructors, `query`, `exec`, `register_user_defined_function`, `the_db`, destructor | statements never outlive their call, cursors stand on the row they are said to, no row of a statement it runs is dropped silently, a connection outlives the calls on it |
| `cursor_iterator`, `universal_callback` | `dbj++sql.h:186-342, 776-796` | a statement and a column | typed access to the cells of a row | the row is the current one, and what is read outlives it |
| `db_initor`, demo databases | `dbj++sql.h:798-853`, `tests/test_db.h` | function-local statics: a database, and the answer | `demo_db()`, `rezults_db()` | every caller gets the same, usable, answer |
| easy UDF layer | `dbj++sql.h:563-728`, `tests/easy_udf_sample.h` | buffers local to a function | `udf_argument`, `udf_retval`, `udf_holder` | each text has one owner, and a reader finds it as it was written |
| hash table benchmark | `hash_db/benchmarking.c` | two counters, a table, three statements | `populate`, `select`, `delete`, set up, clean up | the counters say what is in the table |
| SHA1 engine | `hash_db/sha1.c:40-233`, copied in `db_hashing.c` | bit count, block buffer, digest | `hash_init`, `hash_step`, `hash_finish` | the digest is that of FIPS 180 |
| SHA1 SQL functions | `hash_db/sha1.c:235-402` | none between calls | `sha1(X)`, `sha1_query(Y)` | different results are told apart |
| database hashing tool | `hash_db/db_hashing.c` | argv, one global context, one global connection | command line, loop over files and tables | each line is the hash of its own file, at one moment |
| dictionary service | `dictionary_db/` | one global `FILE*` | `find`, `reset`, `next`, `close`, each with a callback | the global is the only open file, whatever callbacks do; `find` ends, and what it delivers is its own |
| unit tests, `main` | `dbjsqluser/` | what they do to the shared demo database | the tests of `tests/*.h`, in order | a test leaves the database as it found it |

How they interact:

* `database` holds a `unique_handle` for its connection. Each call of `query`
  and `exec` makes another for its statement and destroys it on return. The
  order matters: `sqlite3_close` refuses while a statement exists.
* `query` and `exec` call the *row callback of the user* for each row. The
  callback is user code: it may call `query` and `exec` again, on the same
  database or another, open databases, destroy them (also the one whose `query`
  called it), prepare statements through `the_db()`, and stop the traversal. So may a *user defined function*, which SQLite calls in
  the middle of a step. These are the interleavings of this system.
* Texts pass from SQLite to a function, back as its result, and to the row
  callback, through pointers SQLite owns for a while and buffers that die with
  their scope.
* The callbacks of the dictionary service may use the service, which keeps one
  global file for all calls.
* The unit tests run one after the other on the same static database.
* `demo_db()` calls `db_initor`, which asks a holder for the static database
  object and runs the creation script through `exec` with no callback.
* `sha1_query` runs inside a statement of SQLite and runs further statements of
  the same connection. It feeds the SHA1 engine, as the hashing tool does,
  which keeps one engine and one connection for all its files.

`PROJECT.json` lists the hazards one by one, with the line where each bites and
the properties that would notice it.

## 2. The modules and the code

```
SqliteStatus  <-- EXTENDS --  DbjSql  -- INSTANCE (connections, statements) -->  UniqueHandle
      ^                         ^
      |                         +-- EXTENDS -- MCDbjSql
      +---- EXTENDS -- DbInitor  <-- EXTENDS --  DbTests
Values        <-- EXTENDS --  MCValues
Sha1          <-- EXTENDS --  Sha1Functions
DbHashArgs    <-- EXTENDS --  DbHash          (what it hashes with: Sha1)
HashBench
Dictionary
```

Common abstractions: SQL text is how many statements and rows it has. A SQLite
call that may fail is a disjunct for success and one that picks any error code.
A message text is the code it was made from. `DBJ_ASSERT` is nothing, as in the
release build. Definitions named after mutations (`ReleaseKeeps`, `QueryStepLate`,
...) are not used by any specification: each is a plausible bug in the definition
next to it, and shows that a property would notice that bug.

**SqliteStatus** is `sqlite_valstat.h`: the codes that are no errors, the
value/status pair, `is_error_valstat`, and `print_on_sql_error`, which looks at
one half only.

**UniqueHandle** is the ownership protocol of `unique_handle`, abstract in what
it owns. `m_value` is the pointer of each handle. `raw` holds the pointers that
callers own; `unclosed` the connections whose close was refused. `Construct`,
`Receive` (`get_address_of` given to SQLite), `Release`, `Reset` and `Destroy`
are the members. `Close` and `TraitClose` are their common helper and the two
traits, told apart by `CloseMayFail`.

**DbjSql** is `class database`. `object` and `conn` are the life of the C++
object and of its connection, which differ after an open that failed ("sick") and
after a close that was refused (`unclosed`). `stmt` holds the native statements
with the row each stands on; `user` those that the caller prepared himself.
`call[1..depth]` is the stack of calls under way: which function, which
`statement_` (`cursor`; none for an `exec` without callback), for `exec` the statement
`sqlite3_exec` runs (`run`) and the rest of its script (`left`), the rows sent to the
callback, and where it is. `left` of a `query` is what comes after the first statement
of its SQL: it is never compiled. `Destroy` has no guard against calls under way,
because the destructor has none: SQLite refuses the close while their statements
exist, and the connection is left in `unclosed`.

| Code | Action |
|---|---|
| constructors, destructor | `DefaultConstruct`, `Construct`, `Destroy` |
| refusal without a handle | `Refuse` |
| UDF registration, SQL that does not compile, calls on a connection that failed to open | `OneCall` |
| `query`: prepare; `sqlite3_step`; callback; return | `query`, `QueryStep`, `QueryCallback`, `Return` |
| `exec`: prepare, if there is a callback; `sqlite3_exec` inside; callback; return | `exec`, `ExecNext`, `ExecStep`, `ExecCallback`, `Return` |
| a caller using `the_db()` | `UserPrepare`, `UserFinalize` |
| `udf_holder::function`, called by a step; its return into the step | `UdfCall`; `QueryStep("udf")`, `ExecStep("udf")` |

`UserTurn` is what makes calls nest: user code acts when no call is under way,
when the innermost call is in its callback, and when its statement calls a
user defined function. All functions of one step are one turn: the user may do
anything any number of times in it. `ConnHandles` and `StmtHandles`
instantiate UniqueHandle twice, once with the connections and once with the
statements of this state; `ConnectionOwnership` and `StatementOwnership` say that
every behaviour of DbjSql is one of the ownership protocol.

**DbInitor** is one holder, `db_initor` and its callers. The two demo databases
are the same code with scripts of different length. **DbTests** adds the unit tests,
which run in order on the database of DbInitor: `extra` is what they insert into
its table, `registered` the functions they leave on its connection. Their calls of
`demo_db()` are the steps of DbInitor (`Creation`).

**Values** is the way of a text through a query with a user defined function.
Memory is a set of cells (`mem`); `x` and `fx` are the columns of the row, `word`
the local buffer of the function, `kept` what callbacks copied, `status` the
`string_view` of the last status. `udf_argument`, `udf_retval_number`,
`udf_retval_text`, `return_error` are `udf_argument` and the members of `udf_retval`
as the sample functions use them, `native_udf` is `firstchar_udf`, and `to_text` is
`cursor_iterator::to_text`, forced as `universal_callback` does or not.

**HashBench** is the benchmark: `rows` is the table, `seq` the AUTOINCREMENT
sequence, `inserts_counter` and `deletions_counter` the globals. `ubench_main`
calls the three benchmarks in registration order, as often as it likes. `populate` is
two actions, `hash_db_populate` up to the inserted row and `populate_counts`, because
the `TRY` of `sqlite3_reset` between them may exit; `Exit` is such a `TRY`.

**Sha1** is the engine with a word of `Word` values, blocks of `Block` bytes and a
length field of `LenField` bytes instead of 2^32, 64 and 8. `cx` is the context;
bytes are named by where they come from, and `SHA1Transform` appends the block to
`cx.state`, so that any byte lost, doubled or moved is visible there. `Stepped`
is `hash_step`, with its copies and the carry of `count`, as a function of the
context and the bytes. `HashFinish`, `PadZero` and `PadLength` are `hash_finish`.

**Sha1Functions** composes the engine with its users: `sha1(X)`, `sha1_query(Y)`,
and a caller that cuts messages into pieces as it likes (`Pieces`, as the hashing tool
does). `left` and `nCol` are where `sha1QueryFunc` is, `hashed` the statements,
rows and values it hashed; the bytes are the `message` of the engine. A statement
that only reads may have no columns (`BEGIN`): it is hashed, and has no rows.

**DbHashArgs** and **DbHash** are `main` of the hashing tool. `argv` is compacted in
place while it is read; `given` is a ghost that remembers it. The loop over the
files keeps `open` (connections), `live` and `snapshot` (the read transaction the
list of tables holds open), `cx` (what was hashed) and `printed`. `Write` is
another process that commits.

**Dictionary** is the service: `file` is how many words were read from the open
file, `opens` how many files `fopen` gave that are still open, `retval` the static array of
`find_`, whose slot 0 each match first gives the result of `realloc`. `calls` is the stack of calls, each in a callback except the innermost. A
query is the set of words that contain it. `realloc` of a static array may end the
program, so `find` and `Match` have an outcome that does.

## 3. What the runs check

| Run | Bounds | Distinct states | Shows |
|---|---|---|---|
| `unique_handle` | 3 handles, 4 resources | 1.7 k | `SingleOwner`, `NoDangling`, `NothingLost` |
| `sql` | 2 databases, 3 statements, 2 rows, scripts of 1 statement (2 for `query`), depth 2 | 949 k (up to symmetry) | `StatementsAccounted`, `QueryCursorOnRow`, `NoSilentTruncation`, `CallsOnOpenConnections`, `CloseFailsOnlyInUse`, and the refinements `ConnectionOwnership`, `StatementOwnership` |
| `sql_live` | 1 database, 3 statements, 1 row, depth 2 | 110 k | `CallsReturn` |
| `hash_bench` | 4 calls per benchmark, all filters | 608 | `CounterIsTable`, `TotalsExact`, `OnlyKeyZeroMisses`, `CrashNeedsFilter`, `DeletesFromTheEnd` |
| `db_initor` | the 11 statements of `demo_db`, the 4 tests that use databases, each run or left out | 1.2 k | `StatusWhenNoValue`, `ValueIsOpen`, `CallersAgree`, `EntriesAsCreated`, `TestsEnd` |
| `sha1` | blocks of 4 bytes, 128-valued words, messages to 40 bytes in pieces to 15; 2 statements, 2 columns, 2 values, texts to 2 characters | 135 k | `NothingMisplaced`, `DigestIsSha1`, `FinishEnds`, `Unambiguous` |
| `hash_tool` | 4 arguments, 2 of them files, 2 tables, 2 versions | 133 k | `FilesKept`, `RunsAsAsked`, `LineOfItsFile`, `TablesOfOneMoment`, `HashedAreClosed`, `Terminates` |
| `dictionary` | 3 words, every query, calls 3 deep | 423 k | `HandleIsFile`, `QuietFind`, `CrashNeedsReentry`, `FindEnds` |
| `values` | 5 cells, 3 rows, 3 texts kept | 190 k (up to symmetry) | `KeptIsOfItsRow`, `OneOwnerEach` |

`sha1`, `hash_tool` and `dictionary` also check the type invariant of their module.
Those of all modules are proved (section 5). The other three runs are the
counterexamples of section 6.

Why the bounds are enough:

* `sql`: depth 2 has a call inside a callback, or a function, of a call. A deeper one
  adds frames that only the innermost can change. Three statements allow an `exec` with
  its idle `statement_` and the one that `sqlite3_exec` runs, and a `query` in it; or
  two queries, one in the other, and a statement of the user. An `exec` without
  a callback needs only the one that `sqlite3_exec` runs. A callback may destroy its own
  database or the second one, or use the second after its own is gone. Two `exec` with
  callbacks, one in the other, need four statements and are left to the proofs. Two rows
  tell the first from the last. Databases and statements are interchangeable, so the run uses symmetry; `sql_live` has a liveness property
  and does not.
* `db_initor` has the script of `demo_db` as it is, and the tests as they are.
* `sha1`: 40 bytes are 320 bits, so a word of 128 values wraps twice. A piece of
  15 bytes spans more than three blocks, and stays below the word's number of bits (a
  longer one is section 6). A length field of 2 in a block of 4 makes the padding
  both fit in a block and run over. `HashInit` starts another message in the
  same context. The texts of `sha1_query` are made of a letter that is the mark of a
  row and a digit that may pass for a length, so a value can look like any piece of
  the encoding; two statements, columns and values have a first and a next one.
* `hash_tool`: four arguments are needed for `--like x --like y`; two files for one
  to be moved, skipped, or named twice; two tables and two versions for a commit
  between them.
* `hash_bench`: an exit may come at every call that may fail; four of each leave more deletions than rows and the other way round.
* `dictionary`: three words have one before, one in and one behind what a query finds.
  Depth 3 is a call in a callback of a call in a callback: a `find` whose callbacks
  run a `find` whose callbacks close the file.
* `values`: the five cells are what lives at once (the two columns, the buffer of the
  function, and texts kept from another row), so cells are reused as soon as anything
  dies. Three rows have a text kept through a step, a function and a callback.

## 4. Fairness and deadlock

* `DbjSql!FairSpec`: weak fairness of `Library`, the steps of the library and of
  SQLite, because one thread runs on through them. Strong fairness
  of `Callback \/ UdfReturn` at each depth: a callback, or a function, that calls the
  library over and over is at last done. This is an assumption on the user's code,
  and `CallsReturn` says no more than "if the callbacks and the functions return, so
  do the calls". Weak fairness is not enough: a callback that starts a nested call
  disables its own return for a while.
* `Sha1Functions!FairSpec`: weak fairness of the padding loop, which nothing interrupts.
* `DbHash!FairSpec`: weak fairness of the program (`Main`), none of the writers.
* `Dictionary!FairSpec`: weak fairness of `Read`, the loop of `find_`, which calls
  nothing of the user. Callbacks need not return.
* `DbTests!TestsSpec`: weak fairness of the one thread of the test program.

`CHECK_DEADLOCK FALSE` is set where the system may really stop: DbjSql when all
databases are destroyed, HashBench and DbHash when the process has exited, DbTests
when all tests are done or one crashed, Sha1Functions and Dictionary after a crash.
Where the system goes on for ever (UniqueHandle, Values) deadlock is checked.

## 5. What is proved

TLAPS checks every theorem for all values of the constants that satisfy
the named assumptions of their modules: any number of databases,
statements, rows, nested calls, creation statements or benchmark calls. The
assumptions say that sentinels are not elements, that bounds are natural
numbers, and that callbacks answer codes of SQLite.

Each proof has an inductive invariant (`IInv`, unless another name is given), shown
to hold initially, to be preserved by each action and to imply the property. Where a
proof needs induction on a number (how many words, arguments or items there are), it
is by the least element of a set of numbers (`Smallest`, from `WFMin` of
WellFoundedInduction), which is a theorem about sets and takes no operator.

* **UniqueHandleProofs** (`HandleTypes`, `OneOwner`, `NeverDangling`, `NeverLost`).
  The four properties need one another: without `NoDangling`, a new native object
  could get the identity of one a handle still points to, and break `SingleOwner`.
  `IInv` adds that a resource whose close failed is still open. `CloseEffect` says
  what a close may do, and `Replace` serves `Reset` and `Destroy` alike.
* **DbjSqlProofs** (`DatabaseTypes`, `StatementOwners`, `RowsOfCallbacks`,
  `Completeness`, `OpenUnderCalls`, `CloseFailures`). `OpenUnderCalls` is why
  a callback may destroy its own database: `CallsHaveStatements` shows that a call whose
  callback or function runs has a statement, its own or that of `sqlite3_exec`, so that the close is
  refused and the connection stays open under the call. `CloseFailures` says that
  nothing else makes a close fail but a statement of the caller. `IInv` adds `Stack` (frames
  above `depth` are idle, those below the top are in a callback or a function, `sqlite3_exec` has a
  statement exactly while it steps it), `Progress` (a statement of a call stands on the
  row that was sent last) and `Unborn` (a database that was not opened has no connection). `Stack` is
  what makes nesting provable: only the top frame steps, and a statement that
  is finalized is owned by nobody else. The steps of the library all go through
  the lemma `TopStep`, about replacing the top frame.
  `ConnectionsOwned` and `StatementsOwned` are the two refinements: DbjSql implements
  UniqueHandle with its connections, and with its statements. The same `IInv` is
  enough. A call that begins is a `Receive` and one that returns a `Destroy`; a
  statement of `sqlite3_exec`, or of the caller, comes from `CallerOpens` and goes with
  `CallerCloses` (`StmtOpened`, `StmtClosed`). `RunsApart` is what keeps the two kinds
  from being mixed up: the statement that `sqlite3_exec` runs belongs to no
  `statement_`, at any depth.
* **HashBenchProofs** (`BenchTypes`, `TableIsDense`, `Totals`, `LookupsHit`,
  `CrashOnlyFiltered`, `DeletionsPop`). `IInv` adds `Order`: nothing is deleted
  before the last benchmark starts, so `seq` equals the counter as long as rows are
  inserted, and there is a row before the second benchmark unless the filter says
  otherwise; and a row that waits to be counted is the last of a table that is dense.
  An exit before the count leaves that row, and nothing else, uncounted. The table is dense because ubench keeps the order of the file.
* **DbInitorProofs** (`InitorTypes`, `AlwaysAnswered`, `ReturnedOpen`, `SameAnswer`). `IInv` adds
  `Once`: the holder is called only while there is no database, so it never leaves the
  status empty; after it there is a status to return or an open database; and what is
  returned is `instance_`, which is written once.
  `TestsUseInitor` shows that the tests add nothing to what `db_initor` does, so
  its invariant holds under them, and `KeptAsCreated` that they leave the entries as
  they were. It needs a script of six statements (`TestsAssumption`; that of `demo_db`
  has eleven), one of which then creates an entry that the insert of
  `test_wrong_insert` collides with. `Untouched` says that an insert that goes
  through found a creation that had stopped half way.
* **ValuesProofs** (`ValueTypes`, `KeptTexts`, `CellOwners`). `IInv` adds `Argument`
  (what a function is called with is a text or NULL, never a number, and its buffer
  is a cell), `Owners` (the row, its second column, the buffer and the texts kept
  share no cell, and a cell in use is one of theirs) and `Readable` (while a function or a
  callback runs, what it may read is of the row). `KeptTexts` needs both: a text that is kept
  stays right because nobody else owns its cell, and is right at first because what it
  was copied from was.
* **DictionaryProofs** (`DictionaryTypes`, `OneFile`, `FindsHead`, `ReentryCrashes`).
  `IInv` adds `OnlyTopQuiet` (a call is undisturbed only while it is the innermost one)
  and `QuietProgress` (the slots of an undisturbed `find` are those of all words it has
  read: `SlotsStep` is one match, which loses the word of slot 0).
* **DbHashProofs** (`ToolTypes`, `FilesMoved`, `AsAsked`, `OfItsFile`, `OfOneMoment`,
  `ClosedWhenHashed`). While the command line is read, `LineRead` says that the part of `argv` not
  read yet is as it was given, that each file read so far is at the place that
  counts the files before it, and that the options seen agree with the reference, whose
  recursion is followed one argument at a time (`AtArgument`, `SameReference`). While
  the files are hashed, `Hashing` says what is in the context at each step: the pieces
  of the tables listed, in their order, of the version the snapshot holds; and
  that a line that was printed was such a context when it was complete.
* **Sha1Proofs** (`AnyCut`, `FunctionTypes`, `NothingLost`, `RightDigest`, `ReadBack`), for every size of
  word, block, length field and piece. `EngineInv` says at every point
  of `hash_finish` too that what the engine was given (blocks and buffer together)
  is a known sequence of bytes: the message, then the message with its mark and so many
  zeros, then with the length. It implies `NothingMisplaced` and the types whatever the
  count of bits does, because the place in the buffer depends on the count only modulo
  a block, which no lost carry changes. `ExactInv` adds that the count is exact. It
  needs `StepsFit`: the bits of one step are fewer than the values of a word, for longer
  ones the code miscounts (`Sha1LongStep`, section 6); so `RightDigest` has it as its hypothesis, and
  `Fits`, the longest message the padding of SHA1 can tell the length of. With the
  code's numbers these are steps under 512 MiB and messages under 2^64 bits. `AnyCut` is the same of the
  engine alone, with the bounds of its constants. Proving `FlatIs` showed that the
  `CASE` of `Encoded` had two branches for an empty value of a type without length; it
  is an `IF` now.
  `ReadBack` is `Unambiguous`, for any alphabet, any number of statements, rows,
  columns and values. `QueryInv` says that the message `Spells` the items hashed:
  there is a place for each of them, where the reader finds it (`Reads`). It stays so
  when more is hashed, because the reader of an item never looks behind it
  (`StillReads`), and a new item is found at its place whatever is before it
  (`EveryItemAdds`). From the last place down to the first, the reader then finds
  all of them (`ReadsBack`). The model writes a length as one digit, so texts have at
  most nine characters (`Sha1FunctionsAssumption`); the code writes decimal numbers, which
  end at their colon.

Every invariant and action property of the passing runs is so proved, `DigestIsSha1`
under the two hypotheses above. Only model-checked are the liveness properties `CallsReturn`, `FinishEnds`, `Terminates`,
`FindEnds` and `TestsEnd`, which are beyond the prover: it has no rules for fairness
and ENABLED. The runs are also what shows that the proved invariants are about
states that are reached, and that plausible bugs break them (the mutants).

## 6. Where the code and its documentation disagree

Three runs are expected to end with a counterexample:

| Run | The code | The text |
|---|---|---|
| `exec_cursor` | the callback of `exec` gets a cursor over `statement_`, which is never stepped (`dbj++sql.h:532`) | a cursor is over "the *current* row" (188); `naked_udf.h:53-57` reads a column of it |
| `created_on_success` | `db_initor` tests for a missing value, which `exec` without a callback never lacks (845) | "at last success" (847) |
| `dangling_status` | a status is a `string_view` of a buffer that is gone when the macro has returned (`sqlite_valstat.h:26`) | "thus be carefull not to have it as dangling" (`sqlite_valstat.h:20-21`) |

These are in the models too, and are not part of the runs. Each has its configuration:

| Command | The code |
|---|---|
| `tlc -config DbjSqlNotified.cfg DbjSql` | an error code comes back as a value with an empty status (`dbj++sql.h:544`), which `print_on_sql_error` does not print: "thus the caller will be notified" (`basic_tests.h:26`) |
| `tlc -config DbjSqlScript.cfg DbjSql` | `query` compiles the first statement of its SQL only; the others are dropped and it answers `SQLITE_DONE` (`dbj++sql.h:390-395`). No text says that it takes more, and none that it does not |
| `tlc -config Sha1LongStep.cfg Sha1` | the high bits of the length of a single piece of 2^29 bytes or more are added only if the low word wrapped to less (`sha1.c:167`). The configuration scales the word down to 64 values, so that 8 bytes have as many bits; with the code's own word that is 512 MiB, and SQLite values may have 10^9 bytes |
| `tlc -config UniqueHandleDestructor.cfg UniqueHandle` | the destructor discards the code of a close that was refused, though its comment says it "is already logged" (`dbj++sql.h:58-61`) |
| `tlc -config HashBenchMisses.cfg HashBench` | the key that is not found is always 0, which never existed, and not one of the "deleted rows" (`benchmarking.c:166-170`) |
| `tlc -config DbHashRows.cfg DbHash` | a step that fails ends the rows like the last row does, and the hash is printed (`db_hashing.c:310`) |
| `tlc -config Sha1FunctionsRows.cfg Sha1Functions` | the same in `sha1_query` (`sha1.c:323`) |
| `tlc -config Sha1FunctionsBlank.cfg Sha1Functions` | SQL that ends in a blank or a comment compiles to no statement, and `strlen` is given a null pointer (`sha1.c:318`) |
| `tlc -config DictionaryFound.cfg Dictionary` | each match assigns the result of `realloc` to slot 0, so of several words found the first is lost, even where `realloc` of a static array returns (`dbj_en_dictionary.c:62`): not "all the words found" (27) |
| `tlc -config DictionaryComplete.cfg Dictionary` | `find` stops at the first word that does not match, so it rarely has "all the words found" (`dbj_en_dictionary.c:27, 67`) |
| `tlc -config DictionaryEnd.cfg Dictionary` | `next` at the end of the file answers OK and an empty word, not the EOF that `dbj_en_dictionary.h` promises (`dbj_en_dictionary.c:104-107`) |
| `tlc -config ValuesResult.cfg Values` | the text result of a function is given to SQLite as a constant and dies with the function (`dbj++sql.h:653-664`) |

A callback that destroys its own database finds its connection still open, but loses it
for good: the destructor's close is refused and nobody closes it later (`Destroy`,
`CloseFailsOnlyInUse`). One more is a step of DbTests: `DBJ_RETURN_ON_SQL_ERROR` returns whether there was an
error or not (`sqlite_valstat.h:156`), so `longer_test` ends after its first
registration (`easy_udf_sample.h:188`), and its query is never run.

## 7. What is not modelled

* Numbers and binaries of a row, which `cursor_iterator` reads by the same rule as
  texts (nothing unless the type is right, else a copy), and the narrowing of 64-bit
  integers to 32: one conversion each, with no state behind it.
* A raw pointer that is given to two handles. A caller hands over what it owns (`raw`), so
  UniqueHandle excludes this, it does not catch it: the class has no means to.
* The error that ends the list of tables of the hashing tool early is not told from its
  end, in the code as in the model: `LineOfItsFile` admits a line that has only the
  first tables of its file.
* Lengths of several digits in `Encoded`: texts have at most nine characters.
* Column names, the texts of messages and what is printed.
* The 80 rounds of `SHA1Transform`: a fixed function of a block, which is better
  tested against the standard's vectors.
* The bytes of the cells in `hash_one_query`; its encoding is the mutant
  `EncodedBare` of Sha1Functions, which is ambiguous. No text of the tool promises otherwise.
* What `realloc` of a static array and the writes behind it do, other than going
  well or ending the program (`dbj_en_dictionary.c:46-64`).
* The test of `rezults_db`, which only reads a database that no other test uses.
* SQLite itself: it is modelled by what the code relies on (statements, rows, read
  transactions, the refusal of `sqlite3_close`), marked external in the map.
* The test framework, build files and data.

## 8. The plan

Done, in the order of importance: ownership (UniqueHandle), the database class with
callbacks and functions that use it (DbjSql), the demo databases (DbInitor) and the
tests on them (DbTests), the life of texts (Values), the benchmark (HashBench), the
SHA1 engine and its SQL functions (Sha1, Sha1Functions), the hashing tool (DbHashArgs,
DbHash), the dictionary service (Dictionary). No component with state is left.

Proved: every safety property that the runs check, and the two refinements.

Left: what the liveness properties rest on and is a safety property, for instance that
each turn of the loop of `find_` or of the padding lowers a measure; lengths of
several digits in `Unambiguous`.
