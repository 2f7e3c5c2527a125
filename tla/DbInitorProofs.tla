--------------------------- MODULE DbInitorProofs ---------------------------
(***************************************************************************)
(* Callers of demo_db() never get nothing at all, whatever the creation    *)
(* script and whatever SQLite answers: an instance without a value has a   *)
(* status, because the holder is only ever called once.  The unit tests    *)
(* are such callers, and leave the database as it was made.                *)
(***************************************************************************)
EXTENDS DbTests, TLAPS

\* Once instance_ is set no call is under way in db_initor, and until then
\* each of its steps is taken once.
Once ==
  /\ instance_ # Unset <=> db # "unborn" /\ pc = "idle"
  /\ db = "unborn" => pc \in {"idle", "holder"}
  /\ pc = "holder" => db = "unborn"
  /\ pc = "refuse" => status.value = Nothing /\ status.status # Nothing
  /\ pc \in {"exec", "created"} => db = "open"
  /\ pc = "created" => vs.value # Nothing
  /\ result = Unset \/ result = instance_
  /\ instance_.value = Nothing => instance_.status # Nothing
  /\ instance_ = Dbref => db = "open"

IInv == TypeOK /\ Once

USE ScriptAssumption, ErrorCodesAssumption

LEMMA InitIInv == Init => IInv
  BY DEF Init, IInv, TypeOK, Once, Unset, Dbref, DbValstat, EmptyValstat, Valstat, Nothing, Codes

\* What db_initor returns.
LEMMA Answers ==
  /\ Unset.value # Nothing /\ Dbref.value # Nothing /\ Dbref # Unset
  /\ \A st \in Codes \cup {Nothing} :
       /\ NoDb(st) \in DbValstat /\ NoDb(st) # Unset /\ NoDb(st) # Dbref
       /\ NoDb(st).value = Nothing /\ NoDb(st).status = st
  BY DEF Unset, Dbref, NoDb, DbValstat, Nothing

\* The holder's answer.
LEMMA CodesTyped ==
  /\ "SQLITE_OK" \in Codes /\ ErrorCodes \subseteq Codes /\ Nothing \notin Codes
  /\ \A c \in Codes : /\ DBJ_SQL_VALSTAT_OK(c) \in Valstat /\ DBJ_SQL_VALSTAT_OK(c).value = c
                      /\ DBJ_SQL_VALSTAT_ERR(c) \in Valstat
                      /\ DBJ_SQL_VALSTAT_ERR(c).value = Nothing
                      /\ DBJ_SQL_VALSTAT_ERR(c).status = c
  BY DEF Codes, NonErrors, Nothing, Valstat, DBJ_SQL_VALSTAT_OK, DBJ_SQL_VALSTAT_ERR

LEMMA NextIInv == IInv /\ [Next]_vars => IInv'
<1> SUFFICES ASSUME IInv, [Next]_vars
             PROVE  IInv'
  OBVIOUS
<1>. USE Answers, CodesTyped DEF IInv, TypeOK, Once
<1>1. CASE demo_db
  <2>1. EmptyValstat \in Valstat
    BY DEF EmptyValstat, Valstat
  <2>. QED  BY <1>1, <2>1 DEF demo_db
<1>2. CASE db_holder
  <2>1. CASE db' = "open" /\ status' = DBJ_SQL_VALSTAT_OK("SQLITE_OK")
    BY <1>2, <2>1 DEF db_holder
  <2>2. ASSUME NEW e \in ErrorCodes, db' = "failed", status' = DBJ_SQL_VALSTAT_ERR(e)
        PROVE  IInv'
    BY <1>2, <2>2 DEF db_holder
  <2>. QED  BY <1>2, <2>1, <2>2 DEF db_holder
<1>3. CASE refuse
  <2>1. status.status \in Codes
    BY <1>3 DEF refuse, Valstat
  <2>. QED  BY <1>3, <2>1 DEF refuse
<1>4. CASE exec_statement
  BY <1>4 DEF exec_statement
<1>5. CASE exec_ends
  BY <1>5 DEF exec_ends
<1>6. CASE created
  <2>1. Dbref \in DbValstat /\ vs.value # Nothing
    BY <1>6 DEF DbValstat, created
  <2>. QED  BY <1>6, <2>1 DEF created
<1>7. CASE UNCHANGED vars
  BY <1>7 DEF vars
<1>. QED  BY <1>1, <1>2, <1>3, <1>4, <1>5, <1>6, <1>7 DEF Next

\* The inductive invariant holds in every reachable state.
THEOREM Invariance == Spec => []IInv
  BY InitIInv, NextIInv, PTL DEF Spec

\* The statics, the call under way and what it returned are well typed.
THEOREM InitorTypes == Spec => []TypeOK
<1>1. IInv => TypeOK
  BY DEF IInv
<1>. QED  BY <1>1, Invariance, PTL

\* No caller is left without both a database and a status.
THEOREM AlwaysAnswered == Spec => []StatusWhenNoValue
<1>1. IInv => StatusWhenNoValue
  BY DEF IInv, Once, StatusWhenNoValue
<1>. QED  BY <1>1, Invariance, PTL

\* A database that is returned is open.
THEOREM ReturnedOpen == Spec => []ValueIsOpen
<1>1. IInv => ValueIsOpen
  BY Answers DEF IInv, Once, ValueIsOpen
<1>. QED  BY <1>1, Invariance, PTL

\* Whoever asks, the answer is that of the first call.
THEOREM SameAnswer == Spec => CallersAgree
<1>1. ASSUME IInv, [Next]_vars, result # Unset
      PROVE  result' = result
  BY <1>1 DEF IInv, Once, Next, vars, demo_db, db_holder, refuse, exec_statement,
              exec_ends, created
<1>2. IInv /\ [Next]_vars => [result # Unset => result' = result]_vars
  BY <1>1
<1>. QED  BY <1>2, Invariance, PTL DEF Spec, CallersAgree
-----------------------------------------------------------------------------
(* Every step of a test is a step of the library or leaves it alone.       *)
LEMMA TestIsInitor ==
  ASSUME [TestsNext]_<<vars, testVars>>
  PROVE  [Next]_vars
<1>1. CASE Ask
  BY <1>1 DEF Ask, Next
<1>2. CASE Creation
  BY <1>2 DEF Creation, Next
<1>3. CASE Start \/ Done \/ simple_select \/ GivesUp \/ error_handling \/ longer_test \/ whatever
  BY <1>3 DEF Start, Done, simple_select, GivesUp, error_handling, longer_test, whatever
<1>4. CASE UNCHANGED <<vars, testVars>>
  BY <1>4
<1>. QED  BY <1>1, <1>2, <1>3, <1>4 DEF TestsNext, Test

(* The tests use the library as anybody may, whatever their order and      *)
(* whichever of them a filter leaves out: what is proved of demo_db()      *)
(* holds while they run (basic_tests.h, naked_udf.h, easy_udf_sample.h).   *)
THEOREM TestsUseInitor == TestsSpec => Spec
<1>1. TestsInit => Init
  BY DEF TestsInit
<1>2. [TestsNext]_<<vars, testVars>> => [Next]_vars
  BY TestIsInitor
<1>. QED  BY <1>1, <1>2, PTL DEF TestsSpec, Spec

(* A test that has been answered has the answer of the first call, and     *)
(* Ids are only inserted into a database whose script stopped early.       *)
Untouched ==
  /\ asked /\ pc = "idle" => result # Unset
  /\ test = "none" => ~asked
  /\ extra # {} => instance_ # Unset /\ applied # Script

TestsIInv == IInv /\ Untouched

LEMMA TestsStart == TestsInit => TestsIInv
<1> SUFFICES ASSUME TestsInit PROVE TestsIInv
  OBVIOUS
<1>1. IInv
  BY InitIInv DEF TestsInit
<1>. QED  BY <1>1 DEF TestsIInv, Untouched, TestsInit

LEMMA TestsStep == TestsIInv /\ [TestsNext]_<<vars, testVars>> => TestsIInv'
<1> SUFFICES ASSUME TestsIInv, [TestsNext]_<<vars, testVars>> PROVE TestsIInv'
  OBVIOUS
<1>1. IInv /\ IInv' /\ Untouched
  BY NextIInv, TestIsInitor DEF TestsIInv
<1>2. CASE Ask
  <2>1. /\ pc = "idle" /\ asked' = TRUE /\ extra' = extra /\ test' = test /\ test # "none"
        /\ instance_' = instance_ /\ applied' = applied
        /\ instance_ = Unset => pc' = "holder"
        /\ instance_ # Unset => result' = instance_
    BY <1>2 DEF Ask, demo_db
  <2>. QED  BY <1>1, <2>1 DEF TestsIInv, Untouched
<1>3. CASE Creation
  <2>1. pc # "idle" /\ UNCHANGED testVars
    BY <1>3 DEF Creation, db_holder, refuse, exec_statement, exec_ends, created
  <2>2. instance_ = Unset /\ extra = {}
    BY <1>1, <2>1 DEF IInv, Once, Untouched
  <2>3. pc' = "idle" => result' # Unset
    BY <1>1, <1>3, Answers, CodesTyped
    DEF IInv, TypeOK, Valstat, Creation, db_holder, refuse, exec_statement, exec_ends, created
  <2>. QED  BY <1>1, <2>1, <2>2, <2>3 DEF TestsIInv, Untouched, testVars
<1>4. CASE error_handling
  <2>1. /\ pc = "idle" /\ asked /\ test' = "none" /\ asked' = FALSE
        /\ UNCHANGED vars
    BY <1>4 DEF error_handling, Has, Answered, Ends
  <2>2. result # Unset /\ instance_ # Unset
    BY <1>1, <2>1 DEF Untouched, IInv, Once
  <2>3. applied = Script => extra' = extra
    <3>1. applied = Script => 4 \in Entries
      BY ScriptAssumption, TestsAssumption DEF Entries
    <3>2. 4 \in Entries => Conflict
      BY DEF Conflict, WrongIds
    <3>. QED  BY <1>4, <3>1, <3>2 DEF error_handling
  <2>. QED  BY <1>1, <2>1, <2>2, <2>3 DEF TestsIInv, Untouched, vars
<1>5. CASE Start \/ Done \/ simple_select \/ GivesUp \/ longer_test \/ whatever
  <2>1. UNCHANGED <<vars, extra>>
    BY <1>5 DEF Start, Done, simple_select, GivesUp, longer_test, whatever
  <2>2. asked' => asked
    BY <1>5 DEF Start, Done, simple_select, GivesUp, longer_test, whatever, Has, Ends
  <2>3. test' = "none" => ~asked'
    BY <1>1, <1>5 DEF Start, Done, simple_select, GivesUp, longer_test, whatever, Has, Ends,
                      Tests, Untouched
  <2>. QED  BY <1>1, <2>1, <2>2, <2>3 DEF TestsIInv, Untouched, vars
<1>6. CASE UNCHANGED <<vars, testVars>>
  BY <1>1, <1>6 DEF TestsIInv, Untouched, vars, testVars
<1>. QED  BY <1>2, <1>3, <1>4, <1>5, <1>6 DEF TestsNext, Test

(* What a test sees in the demo database does not depend on the tests      *)
(* before it, whichever of them run (basic_tests.h:25).                    *)
THEOREM KeptAsCreated == TestsSpec => []EntriesAsCreated
<1>1. TestsIInv => EntriesAsCreated
  BY DEF TestsIInv, Untouched, EntriesAsCreated
<1>. QED  BY <1>1, TestsStart, TestsStep, PTL DEF TestsSpec
=============================================================================
