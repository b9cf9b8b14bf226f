------------------------- MODULE LockManagerProofs -------------------------
(***************************************************************************)
(* The lock table is type correct, holders are compatible and lock sets    *)
(* are exact, for any sets of transactions, items and requested modes.     *)
(***************************************************************************)
EXTENDS LockManager, TLAPS

Modes == {S, X, IS, IX}

(* The compatibility matrix of compatible() is symmetric on the modes      *)
(* callers ask for, so it does not matter who came first.                  *)
LEMMA CompatibleSymmetric ==
    ASSUME NEW a \in Modes, NEW b \in Modes, compatible(a, b)
    PROVE  compatible(b, a)
BY DEF Modes, compatible, S, X, IS, IX

(* Types are kept by every step of lock, unlock, begin, commit and abort.  *)
LEMMA TypeStep == TypeOK /\ [Next]_lockVars => TypeOK'
<1> SUFFICES ASSUME TypeOK, [Next]_lockVars PROVE TypeOK'
  OBVIOUS
<1> USE DEF TypeOK
<1>1. CASE UNCHANGED lockVars
  BY <1>1 DEF lockVars
<1>2. CASE Next
  <2> PICK t \in Txn :
        \/ Begin(t)
        \/ \E id \in DataId, m \in Request : Acquire(t, id, m) \/ AbortOnConflict(t, id, m)
        \/ \E outcome \in {"COMMITTED", "ABORTED"} : End(t, outcome)
        \/ \E id \in DataId : Release(t, id)
    BY <1>2 DEF Next
  <2>1. CASE Begin(t)
    BY <2>1 DEF Begin
  <2>2. ASSUME NEW id \in DataId, NEW m \in Request, Acquire(t, id, m) PROVE TypeOK'
    <3>1. m \in Modes
      BY LockAssumption DEF Modes
    <3>2. held' \in [DataId -> [Txn -> {S, X, IS, IX, NONE}]]
      BY <2>2, <3>1 DEF Acquire, Lock, AfterLock, Modes
    <3>3. granted' \in [Txn -> [DataId -> SUBSET LockMode]]
      BY <2>2, <3>1 DEF Acquire, Lock, Modes, LockMode
    <3>4. lock_set' \in [Txn -> SUBSET DataId] /\ state' = state
      BY <2>2 DEF Acquire, Lock
    <3> QED BY <3>2, <3>3, <3>4
  <2>3. ASSUME NEW id \in DataId, NEW m \in Request, AbortOnConflict(t, id, m) PROVE TypeOK'
    BY <2>3 DEF AbortOnConflict
  <2>4. ASSUME NEW outcome \in {"COMMITTED", "ABORTED"}, End(t, outcome) PROVE TypeOK'
    BY <2>4 DEF End
  <2>5. ASSUME NEW id \in DataId, Release(t, id) PROVE TypeOK'
    BY <2>5 DEF Release, Unlock
  <2> QED BY <2>1, <2>2, <2>3, <2>4, <2>5
<1> QED BY <1>1, <1>2

(* Types of the lock table, the lock sets and the transaction states.      *)
THEOREM TypeCorrect == Spec => []TypeOK
<1>1. Init => TypeOK
  BY DEF Init, TypeOK
<1> QED BY <1>1, TypeStep, PTL DEF Spec

----------------------------------------------------------------------------
(* A granted lock is compatible with what all others hold: lock checks the *)
(* request against every holder, or the mode held already covers it.       *)
LEMMA LockCompatible ==
    ASSUME NEW t \in Txn, NEW id \in DataId, NEW m \in Request,
           TypeOK, HeldCompatible, Lock(t, id, m)
    PROVE  HeldCompatible'
<1> SUFFICES ASSUME NEW i \in DataId, NEW u \in Txn, NEW v \in Txn, u # v,
                    held'[i][u] # NONE, held'[i][v] # NONE
             PROVE  compatible(held'[i][u], held'[i][v])
  BY DEF HeldCompatible
<1>1. CASE HasAlready(t, id, m)
  BY <1>1 DEF Lock, AfterLock, HeldCompatible
<1>2. CASE ~HasAlready(t, id, m)
  <2>1. held' = [held EXCEPT ![id][t] = m] /\ ~Conflict(t, id, m)
    BY <1>2 DEF Lock, AfterLock
  <2>2. m \in Modes
    BY LockAssumption DEF Modes
  <2>3. ASSUME NEW w \in Txn \ {t}, held[id][w] # NONE PROVE held[id][w] \in Modes /\ compatible(m, held[id][w])
    BY <2>1, <2>3 DEF Conflict, TypeOK, Modes
  <2>4. CASE i # id \/ (u # t /\ v # t)
    BY <2>1, <2>4 DEF TypeOK, HeldCompatible
  <2>5. CASE i = id /\ u = t
    BY <2>1, <2>3, <2>5 DEF TypeOK
  <2>6. CASE i = id /\ v = t
    <3>1. compatible(m, held[id][u]) /\ held[id][u] \in Modes
      BY <2>1, <2>3, <2>6 DEF TypeOK
    <3> QED BY <2>1, <2>2, <2>6, <3>1, CompatibleSymmetric DEF TypeOK
  <2> QED BY <2>4, <2>5, <2>6
<1> QED BY <1>1, <1>2

(* No step of lock, unlock or their callers creates a conflict.            *)
LEMMA CompatibleStep == TypeOK /\ HeldCompatible /\ [Next]_lockVars => HeldCompatible'
<1> SUFFICES ASSUME TypeOK, HeldCompatible, [Next]_lockVars PROVE HeldCompatible'
  OBVIOUS
<1>1. CASE UNCHANGED held
  BY <1>1 DEF HeldCompatible
<1>2. ASSUME NEW t \in Txn, NEW id \in DataId, Unlock(t, id) PROVE HeldCompatible'
  BY <1>2 DEF TypeOK, HeldCompatible, Unlock
<1>3. ASSUME NEW t \in Txn, NEW id \in DataId, NEW m \in Request, Acquire(t, id, m)
      PROVE  HeldCompatible'
  BY <1>3, LockCompatible DEF Acquire
<1> QED BY <1>1, <1>2, <1>3 DEF Next, lockVars, Begin, AbortOnConflict, End, Release

(* Two transactions never hold conflicting modes on one item.              *)
THEOREM Compatible == Spec => []HeldCompatible
<1>1. Init => TypeOK /\ HeldCompatible
  BY DEF Init, TypeOK, HeldCompatible
<1> QED BY <1>1, TypeStep, CompatibleStep, PTL DEF Spec

----------------------------------------------------------------------------
(* lock and unlock change lock table and lock set together.                *)
LEMMA LockSetStep == TypeOK /\ LockSetExact /\ [Next]_lockVars => LockSetExact'
<1> SUFFICES ASSUME TypeOK, LockSetExact, [Next]_lockVars PROVE LockSetExact'
  OBVIOUS
<1>1. CASE UNCHANGED << held, lock_set >>
  BY <1>1 DEF LockSetExact
<1>2. ASSUME NEW t \in Txn, NEW id \in DataId, Unlock(t, id) PROVE LockSetExact'
  BY <1>2 DEF TypeOK, LockSetExact, Unlock
<1>3. ASSUME NEW t \in Txn, NEW id \in DataId, NEW m \in Request, Lock(t, id, m)
      PROVE  LockSetExact'
  <2>1. m # NONE
    BY LockAssumption DEF LockMode
  <2> QED BY <1>3, <2>1 DEF TypeOK, LockSetExact, Lock, AfterLock, HasAlready
<1> QED BY <1>1, <1>2, <1>3 DEF Next, lockVars, Begin, Acquire, AbortOnConflict, End, Release

(* lock_set_ lists exactly the items a transaction holds, so that the      *)
(* release loops of commit and abort leave no lock behind.                 *)
THEOREM LockSets == Spec => []LockSetExact
<1>1. Init => TypeOK /\ LockSetExact
  BY DEF Init, TypeOK, LockSetExact
<1> QED BY <1>1, TypeStep, LockSetStep, PTL DEF Spec
=============================================================================
