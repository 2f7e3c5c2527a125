---------------------------- MODULE UniqueHandle ----------------------------
(***************************************************************************)
(* The ownership protocol of unique_handle<trait> (dbj++sql.h), the class  *)
(* that owns every sqlite3* and sqlite3_stmt* of the library.  A handle    *)
(* holds one raw pointer or nullptr.  It closes what it holds when it is   *)
(* reset to something else or destroyed, and never moves or copies.        *)
(*                                                                         *)
(* A resource is a connection or a statement.  Raw pointers that callers   *)
(* own (obtained from SQLite directly, or given up by release()) are in    *)
(* raw.  A handle that is not constructed yet, or already destroyed, holds *)
(* Null, so construction with the default argument is a stuttering step.   *)
(***************************************************************************)
CONSTANTS
  Handles,        \* the unique_handle objects
  Resources,      \* the native objects the pointers may point to
  Null,           \* handle_trait::invalid()
  CloseMayFail    \* TRUE for connections: sqlite3_close may answer BUSY and
                  \* leave the connection open; FALSE for statements, which
                  \* sqlite3_finalize always frees

ASSUME HandleAssumption == Null \notin Resources /\ CloseMayFail \in BOOLEAN

VARIABLES
  m_value,   \* the pointer each handle holds
  open,      \* the resources that exist
  raw,       \* the resources a caller owns through a raw pointer
  unclosed,  \* the resources whose close answered an error and that stay open
  reported   \* those of them whose error code reached a caller or a log

vars == <<m_value, open, raw, unclosed, reported>>

Init ==
  /\ m_value = [h \in Handles |-> Null]
  /\ open = {} /\ raw = {} /\ unclosed = {} /\ reported = {}
-----------------------------------------------------------------------------
(* explicit operator bool *)
Holds(h) == m_value[h] # Null

(* handle_trait::close(r), with told saying whether the code it answers is *)
(* handed on.                                                              *)
TraitClose(r, told) ==
  \/ /\ open' = open \ {r}
     /\ UNCHANGED <<unclosed, reported>>
  \/ /\ CloseMayFail
     /\ unclosed' = unclosed \cup {r}
     /\ reported' = IF told THEN reported \cup {r} ELSE reported
     /\ UNCHANGED open

(* unique_handle::close: closes only if something is held. *)
Close(h, told) ==
  IF Holds(h) THEN TraitClose(m_value[h], told)
              ELSE UNCHANGED <<open, unclosed, reported>>

(* The explicit constructor adopting a raw pointer. *)
Construct(h, r) ==
  /\ ~Holds(h)
  /\ r \in raw
  /\ m_value' = [m_value EXCEPT ![h] = r]
  /\ raw' = raw \ {r}
  /\ UNCHANGED <<open, unclosed, reported>>

(* get_address_of() given to sqlite3_open or sqlite3_prepare_v2, which     *)
(* stores a new pointer there.  Both callers pass a handle that holds      *)
(* nothing: dbj_sqlite_open resets it first, query and exec make a new one.*)
Receive(h, r) ==
  /\ ~Holds(h)
  /\ r \in Resources \ open
  /\ m_value' = [m_value EXCEPT ![h] = r]
  /\ open' = open \cup {r}
  /\ UNCHANGED <<raw, unclosed, reported>>

(* A mutant of Release: the handle keeps the pointer it gives away. *)
ReleaseKeeps(h) ==
  /\ Holds(h)
  /\ raw' = raw \cup {m_value[h]}
  /\ UNCHANGED <<m_value, open, unclosed, reported>>

Release(h) ==
  /\ Holds(h)
  /\ raw' = raw \cup {m_value[h]}
  /\ m_value' = [m_value EXCEPT ![h] = Null]
  /\ UNCHANGED <<open, unclosed, reported>>

(* Two mutants of Reset: the old pointer is forgotten instead of closed;   *)
(* a reset to the pointer already held is not recognised.                  *)
ResetForgets(h, v) ==
  /\ v \in raw \cup {Null, m_value[h]}
  /\ m_value' = [m_value EXCEPT ![h] = v]
  /\ raw' = raw \ {v}
  /\ UNCHANGED <<open, unclosed, reported>>

ResetUnguarded(h, v) ==
  /\ v \in raw \cup {Null, m_value[h]}
  /\ Close(h, TRUE)
  /\ m_value' = [m_value EXCEPT ![h] = v]
  /\ raw' = raw \ {v}

(* reset(sl_, value): a different value closes what is held, and sl_ tells *)
(* the caller how that went; the same value changes nothing.               *)
Reset(h, v) ==
  /\ v \in raw \cup {Null, m_value[h]}
  /\ IF m_value[h] # v
     THEN /\ Close(h, TRUE)
          /\ m_value' = [m_value EXCEPT ![h] = v]
          /\ raw' = raw \ {v}
     ELSE UNCHANGED vars

(* The destructor discards the code close() answers. *)
Destroy(h) ==
  /\ Holds(h)
  /\ Close(h, FALSE)
  /\ m_value' = [m_value EXCEPT ![h] = Null]
  /\ UNCHANGED raw

(* A caller opening, or closing, a native object itself. *)
CallerOpens(r) ==
  /\ r \in Resources \ open
  /\ open' = open \cup {r} /\ raw' = raw \cup {r}
  /\ UNCHANGED <<m_value, unclosed, reported>>

CallerCloses(r) ==
  /\ r \in raw
  /\ open' = open \ {r} /\ raw' = raw \ {r}
  /\ UNCHANGED <<m_value, unclosed, reported>>

Next ==
  \/ \E h \in Handles :
       \/ \E r \in Resources : Construct(h, r) \/ Receive(h, r)
       \/ \E v \in Resources \cup {Null} : Reset(h, v)
       \/ Release(h) \/ Destroy(h)
  \/ \E r \in Resources : CallerOpens(r) \/ CallerCloses(r)

Spec == Init /\ [][Next]_vars
-----------------------------------------------------------------------------
TypeOK ==
  /\ m_value \in [Handles -> Resources \cup {Null}]
  /\ open \subseteq Resources
  /\ raw \subseteq Resources
  /\ unclosed \subseteq Resources
  /\ reported \subseteq unclosed

(* Every resource has at most one owner: one handle, or one caller, or     *)
(* nobody at all after a close that failed.  Otherwise two owners would    *)
(* each close it (~unique_handle, reset).                                  *)
SingleOwner ==
  /\ \A h1, h2 \in Handles : Holds(h1) /\ m_value[h1] = m_value[h2] => h1 = h2
  /\ \A h \in Handles : m_value[h] \notin raw \cup unclosed
  /\ raw \cap unclosed = {}

(* Nobody holds a pointer to a resource that was closed, so no close and   *)
(* no use goes through a dangling pointer (reset to the pointer already    *)
(* held, release followed by destruction).                                 *)
NoDangling ==
  /\ \A h \in Handles : Holds(h) => m_value[h] \in open
  /\ raw \subseteq open

(* A resource that exists is owned by somebody, except where its close     *)
(* answered an error: reset and the destructor drop the pointer then, and  *)
(* the connection can never be closed again.                               *)
NothingLost ==
  \A r \in open : r \in raw \cup unclosed \/ \E h \in Handles : m_value[h] = r

(* What the destructor's comment says, "if error all is already logged"    *)
(* (dbj++sql.h:58): an error a close answered reached a log or a caller.   *)
CloseErrorsKnown == unclosed \subseteq reported
=============================================================================
