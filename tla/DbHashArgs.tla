----------------------------- MODULE DbHashArgs -----------------------------
(***************************************************************************)
(* How main() of the hashing tool (hash_db/db_hashing.c) reads its command *)
(* line: one pass over argv, in which the files found are moved to the     *)
(* front of the very array that is being read.                             *)
(*                                                                         *)
(* argv here starts after the name of the program.  An argument is a file, *)
(* a pattern or number (which would be a file anywhere else), or an option.*)
(* DbHash goes on from here with the files found.                          *)
(***************************************************************************)
EXTENDS Integers, Sequences, FiniteSets

CONSTANTS
  Files,     \* arguments that do not start with '-'
  MaxArgs,   \* bound: the arguments on the command line
  MaxFiles   \* bound: how many of them do not start with '-'

Options == {"debug", "help", "like", "schema-only", "without-schema", "unknown"}
TakesValue == {"debug", "like"}

ASSUME ArgsAssumption ==
  Files \cap Options = {} /\ MaxArgs \in Nat /\ MaxFiles \in Nat

VARIABLES
  given,     \* the command line as the user gave it
  argv,      \* the same array, as main() changes it
  i,         \* the argument being read
  nFile,     \* the files found
  zLike,     \* how many --like patterns were taken
  omit,      \* omitSchema and omitContent
  pc         \* "parse", then "run", or how the program ended

ArgsInit ==
  /\ given \in UNION {[1..n -> Files \cup Options] : n \in 0..MaxArgs}
  /\ Cardinality({k \in DOMAIN given : given[k] \in Files}) <= MaxFiles
  /\ argv = given
  /\ i = 1 /\ nFile = 0 /\ zLike = 0 /\ omit = {} /\ pc = "parse"
-----------------------------------------------------------------------------
Reading(options) == pc = "parse" /\ i <= Len(argv) /\ argv[i] \in options

(* A mutant of File: the files are moved to the place after the one that   *)
(* is free.                                                                *)
FileMovedTooFar ==
  /\ Reading(Files)
  /\ nFile' = nFile + 1
  /\ argv' = IF nFile + 2 <= Len(argv) THEN [argv EXCEPT ![nFile + 2] = argv[i]] ELSE argv
  /\ i' = i + 1
  /\ UNCHANGED <<given, zLike, omit, pc>>

File ==
  /\ Reading(Files)
  /\ nFile' = nFile + 1
  /\ argv' = IF nFile + 1 < i THEN [argv EXCEPT ![nFile + 1] = argv[i]] ELSE argv
  /\ i' = i + 1
  /\ UNCHANGED <<given, zLike, omit, pc>>

(* --debug N and --like PATTERN take the next argument, whatever it is. *)
Value ==
  /\ Reading(TakesValue)
  /\ IF i = Len(argv) \/ (argv[i] = "like" /\ zLike > 0)
     THEN pc' = "error" /\ UNCHANGED <<i, zLike>>
     ELSE /\ i' = i + 2
          /\ zLike' = IF argv[i] = "like" THEN zLike + 1 ELSE zLike
          /\ UNCHANGED pc
  /\ UNCHANGED <<given, argv, nFile, omit>>

(* A mutant of Flag: the flag takes an argument with it. *)
FlagSkipsNext ==
  /\ Reading({"schema-only", "without-schema"})
  /\ omit' = omit \cup {IF argv[i] = "schema-only" THEN "content" ELSE "schema"}
  /\ i' = i + 2
  /\ UNCHANGED <<given, argv, nFile, zLike, pc>>

Flag ==
  /\ Reading({"schema-only", "without-schema"})
  /\ omit' = omit \cup {IF argv[i] = "schema-only" THEN "content" ELSE "schema"}
  /\ i' = i + 1
  /\ UNCHANGED <<given, argv, nFile, zLike, pc>>

(* A mutant of Stop: only the first argument may ask for help. *)
StopHelpsFirst ==
  /\ Reading({"help", "unknown"})
  /\ pc' = IF argv[i] = "help" /\ i = 1 THEN "help" ELSE "error"
  /\ UNCHANGED <<given, argv, i, nFile, zLike, omit>>

Stop ==
  /\ Reading({"help", "unknown"})
  /\ pc' = IF argv[i] = "help" THEN "help" ELSE "error"
  /\ UNCHANGED <<given, argv, i, nFile, zLike, omit>>

(* After the loop. *)
Check ==
  /\ pc = "parse" /\ i > Len(argv)
  /\ pc' = IF nFile = 0 \/ omit = {"schema", "content"} THEN "error" ELSE "run"
  /\ UNCHANGED <<given, argv, i, nFile, zLike, omit>>

ReadArgs == File \/ Value \/ Flag \/ Stop \/ Check
-----------------------------------------------------------------------------
(* The reference: what each argument of the command line is.  An argument  *)
(* is the value of the one before it if that is an option that takes one   *)
(* and is no value itself.                                                 *)
Consumed[k \in 1..MaxArgs] ==
  k > 1 /\ given[k - 1] \in TakesValue /\ ~Consumed[k - 1]

Args == 1..Len(given)
Has(kind) == {k \in Args : given[k] \in kind /\ ~Consumed[k]}

\* The arguments that end the program where they stand.
Fatal ==
  Has({"help", "unknown"})
    \cup {k \in Has(TakesValue) : k = Len(given)}
    \cup {k \in Has({"like"}) : \E m \in Has({"like"}) : m < k}

First == CHOOSE k \in Fatal : \A m \in Fatal : k <= m

\* Before the files are hashed.
Reads == pc \in {"parse", "run", "help", "error"}

(* Moving the files to the front of the array that is still being read     *)
(* loses none of them, keeps their order, and never overwrites an argument *)
(* that is yet to be read; a value of --like or --debug is never taken for *)
(* a file.                                                                 *)
FilesKept == Reads =>
  /\ LET files == {k \in Has(Files) : k < i}
         Place(k) == Cardinality({m \in files : m <= k})
     IN nFile = Cardinality(files) /\ \A k \in files : argv[Place(k)] = given[k]
  /\ \A k \in Args : k >= i => argv[k] = given[k]

(* The program ends as the first argument that ends it says, and hashes    *)
(* only when there was none, there are files to hash and something to hash *)
(* of them; it leaves out what the options say.                            *)
RunsAsAsked ==
  /\ pc \in {"help", "error"} /\ Fatal # {} => (pc = "help" <=> given[First] = "help")
  /\ pc = "help" => Fatal # {}
  /\ pc = "run" =>
    /\ Fatal = {} /\ Has(Files) # {}
    /\ "content" \in omit <=> Has({"schema-only"}) # {}
    /\ "schema" \in omit <=> Has({"without-schema"}) # {}
    /\ omit # {"schema", "content"}
=============================================================================
