-------------------------- MODULE UniqueHandleProofs --------------------------
(***************************************************************************)
(* For any set of handles and resources, and whether or not a close may    *)
(* fail: a resource has one owner, no owner dangles, and only a failed     *)
(* close loses one.  The three together with TypeOK are inductive; each is *)
(* needed by the others, because a close is safe only for a single owner.  *)
(***************************************************************************)
EXTENDS UniqueHandle, TLAPS

IInv == TypeOK /\ SingleOwner /\ NoDangling /\ NothingLost /\ unclosed \subseteq open

\* No handle holds anything at first, so every conjunct holds vacuously.
LEMMA InitIInv == Init => IInv
  BY HandleAssumption
  DEF Init, IInv, TypeOK, SingleOwner, NoDangling, NothingLost, Holds

\* close() on a handle: what it leaves open is what was open before, or
\* that minus the resource the handle held.
LEMMA CloseEffect ==
  ASSUME TypeOK, NEW h \in Handles, NEW told \in BOOLEAN, Close(h, told)
  PROVE  /\ reported' \subseteq unclosed'
         /\ \/ UNCHANGED <<open, unclosed>> /\ ~Holds(h)
            \/ /\ Holds(h)
               /\ open' = open \ {m_value[h]} /\ unclosed' = unclosed
            \/ /\ Holds(h)
               /\ open' = open /\ unclosed' = unclosed \cup {m_value[h]}
<1>1. CASE ~Holds(h)
  BY <1>1 DEF Close, TypeOK
<1>2. CASE Holds(h)
  BY <1>2 DEF Close, TraitClose, TypeOK
<1>. QED  BY <1>1, <1>2

\* Closing what a handle holds and storing another pointer in it, taken
\* over from its owner: the common part of reset() and of the destructor.
LEMMA Replace ==
  ASSUME IInv, NEW h \in Handles, NEW v \in raw \cup {Null}, NEW told \in BOOLEAN,
         m_value[h] # v, Close(h, told),
         m_value' = [m_value EXCEPT ![h] = v], raw' = raw \ {v}
  PROVE  IInv'
<1>. USE HandleAssumption
<1>1. TypeOK /\ Null \notin Resources
  BY DEF IInv
<1>2. /\ reported' \subseteq unclosed'
      /\ \/ UNCHANGED <<open, unclosed>> /\ ~Holds(h)
         \/ /\ Holds(h)
            /\ open' = open \ {m_value[h]} /\ unclosed' = unclosed
         \/ /\ Holds(h)
            /\ open' = open /\ unclosed' = unclosed \cup {m_value[h]}
  BY <1>1, CloseEffect
<1>3. /\ m_value'[h] = v
      /\ \A g \in Handles : g # h => m_value'[g] = m_value[g]
      /\ m_value[h] \in Resources \cup {Null}
  BY <1>1 DEF TypeOK
<1>4. TypeOK' /\ (unclosed \subseteq open)'
  <2>1. m_value[h] \notin unclosed
    BY DEF IInv, SingleOwner
  <2>2. Holds(h) => m_value[h] \in open
    BY DEF IInv, NoDangling
  <2>3. (unclosed \subseteq open)'
    BY <1>2, <2>1, <2>2 DEF IInv
  <2>4. m_value' \in [Handles -> Resources \cup {Null}] /\ raw' \subseteq Resources
    BY <1>1 DEF TypeOK
  <2>5. open' \subseteq Resources
    BY <1>1, <1>2 DEF TypeOK
  <2>. QED  BY <1>2, <2>3, <2>4, <2>5 DEF TypeOK
<1>5. SingleOwner'
  <2>1. m_value[h] # Null => m_value[h] \notin raw \cup unclosed
    BY DEF IInv, SingleOwner
  <2>2. v # Null => \A g \in Handles : m_value[g] # v
    BY DEF IInv, SingleOwner
  <2>3. unclosed' \subseteq unclosed \cup ({m_value[h]} \ {Null})
    BY <1>2 DEF Holds
  <2>4. ASSUME NEW g \in Handles
        PROVE  m_value'[g] \notin raw' \cup unclosed'
    <3>1. CASE g = h
      BY <3>1, <1>1, <1>3, <2>3 DEF IInv, TypeOK, SingleOwner
    <3>2. CASE g # h
      BY <3>2, <1>1, <1>3, <2>3 DEF IInv, TypeOK, SingleOwner, Holds
    <3>. QED  BY <3>1, <3>2
  <2>5. ASSUME NEW g1 \in Handles, NEW g2 \in Handles, m_value'[g1] # Null,
               m_value'[g1] = m_value'[g2]
        PROVE  g1 = g2
    BY <2>5, <2>2, <1>3 DEF IInv, SingleOwner, Holds
  <2>6. raw' \cap unclosed' = {}
    BY <2>1, <2>3 DEF IInv, SingleOwner
  <2>. QED  BY <2>4, <2>5, <2>6 DEF SingleOwner, Holds
<1>6. NoDangling'
  <2>1. \A r \in open : r # m_value[h] => r \in open'
    BY <1>2
  <2>2. raw' \subseteq open'
    <3>1. \A r \in raw : r # m_value[h]
      BY DEF IInv, SingleOwner
    <3>. QED  BY <2>1, <3>1 DEF IInv, NoDangling
  <2>3. ASSUME NEW g \in Handles, m_value'[g] # Null
        PROVE  m_value'[g] \in open'
    <3>1. CASE g = h
      <4>1. v \in raw
        BY <3>1, <2>3, <1>3
      <4>. QED  BY <4>1, <3>1, <1>3, <2>1 DEF IInv, NoDangling
    <3>2. CASE g # h
      <4>1. m_value[g] # Null /\ m_value'[g] = m_value[g]
        BY <3>2, <2>3, <1>3
      <4>2. m_value[g] # m_value[h] /\ m_value[g] \in open
        BY <4>1, <3>2 DEF IInv, SingleOwner, NoDangling, Holds
      <4>. QED  BY <4>1, <4>2, <2>1
    <3>. QED  BY <3>1, <3>2
  <2>. QED  BY <2>2, <2>3 DEF NoDangling, Holds
<1>7. NothingLost'
  <2>1. ASSUME NEW r \in open'
        PROVE  r \in raw' \cup unclosed' \/ \E g \in Handles : m_value'[g] = r
    <3>1. r \in open /\ (r = m_value[h] => r \in unclosed')
      BY <1>1, <1>2 DEF Holds, TypeOK
    <3>2. unclosed \subseteq unclosed'
      BY <1>2
    <3>3. CASE \E g \in Handles : m_value[g] = r /\ r # m_value[h]
      BY <3>3, <1>3
    <3>4. CASE r \in raw
      BY <3>4, <1>3
    <3>. QED  BY <3>1, <3>2, <3>3, <3>4 DEF IInv, NothingLost
  <2>. QED  BY <2>1 DEF NothingLost
<1>. QED  BY <1>4, <1>5, <1>6, <1>7 DEF IInv

\* Every operation of the class, and every step a caller takes with a raw
\* pointer, keeps the ownership invariant.
LEMMA NextIInv == IInv /\ [Next]_vars => IInv'
<1> SUFFICES ASSUME IInv, [Next]_vars
             PROVE  IInv'
  OBVIOUS
<1>1. ASSUME NEW h \in Handles, NEW r \in Resources, Construct(h, r)
      PROVE  IInv'
  BY <1>1, HandleAssumption
  DEF Construct, IInv, TypeOK, SingleOwner, NoDangling, NothingLost, Holds
<1>2. ASSUME NEW h \in Handles, NEW r \in Resources, Receive(h, r)
      PROVE  IInv'
  BY <1>2, HandleAssumption
  DEF Receive, IInv, TypeOK, SingleOwner, NoDangling, NothingLost, Holds
<1>3. ASSUME NEW h \in Handles, NEW v \in Resources \cup {Null}, Reset(h, v)
      PROVE  IInv'
  <2>1. CASE m_value[h] = v
    BY <1>3, <2>1 DEF Reset, vars, IInv, TypeOK, SingleOwner, NoDangling, NothingLost, Holds
  <2>2. CASE m_value[h] # v
    <3>1. /\ v \in raw \cup {Null} /\ Close(h, TRUE)
          /\ m_value' = [m_value EXCEPT ![h] = v] /\ raw' = raw \ {v}
      BY <1>3, <2>2 DEF Reset
    <3>. QED  BY <3>1, <2>2, Replace
  <2>. QED  BY <2>1, <2>2
<1>4. ASSUME NEW h \in Handles, Release(h)
      PROVE  IInv'
  BY <1>4, HandleAssumption
  DEF Release, IInv, TypeOK, SingleOwner, NoDangling, NothingLost, Holds
<1>5. ASSUME NEW h \in Handles, Destroy(h)
      PROVE  IInv'
  <2>1. /\ m_value[h] # Null /\ Close(h, FALSE)
        /\ m_value' = [m_value EXCEPT ![h] = Null] /\ raw' = raw \ {Null}
    BY <1>5, HandleAssumption DEF Destroy, Holds, IInv, TypeOK
  <2>. QED  BY <2>1, Replace
<1>6. ASSUME NEW r \in Resources, CallerOpens(r)
      PROVE  IInv'
  BY <1>6, HandleAssumption
  DEF CallerOpens, IInv, TypeOK, SingleOwner, NoDangling, NothingLost, Holds
<1>7. ASSUME NEW r \in Resources, CallerCloses(r)
      PROVE  IInv'
  BY <1>7, HandleAssumption
  DEF CallerCloses, IInv, TypeOK, SingleOwner, NoDangling, NothingLost, Holds
<1>8. CASE UNCHANGED vars
  BY <1>8, HandleAssumption
  DEF vars, IInv, TypeOK, SingleOwner, NoDangling, NothingLost, Holds
<1>. QED
  BY <1>1, <1>2, <1>3, <1>4, <1>5, <1>6, <1>7, <1>8 DEF Next

\* The inductive invariant holds in every reachable state.
THEOREM Ownership == Spec => []IInv
  BY InitIInv, NextIInv, PTL DEF Spec

\* Type correctness of unique_handle's state.
THEOREM HandleTypes == Spec => []TypeOK
<1>1. IInv => TypeOK
  BY DEF IInv
<1>. QED  BY <1>1, Ownership, PTL

\* No resource is ever owned twice, so none is closed twice.
THEOREM OneOwner == Spec => []SingleOwner
<1>1. IInv => SingleOwner
  BY DEF IInv
<1>. QED  BY <1>1, Ownership, PTL

\* No owner ever holds a pointer to a closed resource.
THEOREM NeverDangling == Spec => []NoDangling
<1>1. IInv => NoDangling
  BY DEF IInv
<1>. QED  BY <1>1, Ownership, PTL

\* A resource stays reachable until it is closed, unless a close failed.
THEOREM NeverLost == Spec => []NothingLost
<1>1. IInv => NothingLost
  BY DEF IInv
<1>. QED  BY <1>1, Ownership, PTL
=============================================================================
