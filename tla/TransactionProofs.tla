------------------------- MODULE TransactionProofs -------------------------
(***************************************************************************)
(* Strict two-phase locking makes the transactions serializable: proofs    *)
(* for any sets of transactions, tables and rows.                          *)
(*                                                                         *)
(* The invariant TxnInv adds to the properties why they hold: whoever has  *)
(* touched a table still holds a lock on it, whoever has written it holds  *)
(* the exclusive one, and the oldest write record of a table has the       *)
(* committed rows in it, so that undoing back to it restores them.         *)
(***************************************************************************)
EXTENDS TransactionManager, LockManagerProofs

(* No transaction is ever SHRINKING; one with work to undo has not ended.  *)
Phases ==
    \A t \in Txn :
        /\ state[t] \in {"GROWING", "COMMITTED", "ABORTED"}
        /\ undoing[t] => state[t] = "GROWING"
        /\ write_set[t] # << >> => state[t] = "GROWING"

(* Between transactions and during an undo nothing is remembered.          *)
Idle ==
    \A t \in Txn : ~Active(t) => stmt[t] = NONE /\ first[t] = Untouched /\ seen[t] = Untouched

(* A table a transaction is about to touch, or has touched, is locked.     *)
Covered ==
    \A t \in Txn, id \in DataId :
        (stmt[t] = id \/ first[t][id] # NONE \/ seen[t][id] # NONE) => held[id][t] # NONE

(* A table with a write record is locked exclusively, and was touched.     *)
WrittenLocked ==
    \A t \in Txn : \A id \in Written(t) :
        held[id][t] = X /\ (Active(t) => first[t][id] # NONE)

(* The oldest write record of a table holds its committed rows.            *)
OldestFrom(ws, tables) ==
    \A i \in DOMAIN ws :
        (\A j \in 1 .. i - 1 : ws[j][1] # ws[i][1]) => ws[i][2] = tables[ws[i][1]]

UndoBase == \A t \in Txn : OldestFrom(write_set[t], committed)

(* The executors ask for S and X only, hence nothing else is held.         *)
OnlySX == \A t \in Txn, id \in DataId : held[id][t] \in {S, X, NONE}

LockInv == TypeOK /\ HeldCompatible /\ LockSetExact /\ OnlySX /\ GrantsKept

DataInv ==
    /\ Phases /\ Idle /\ Covered /\ WrittenLocked /\ UndoBase
    /\ Serializable /\ Repeatable /\ CleanUnlessWritten

TxnInv == TxnTypeOK /\ LockInv /\ DataInv

----------------------------------------------------------------------------
(* Every step of a transaction is a step of the lock manager, or leaves    *)
(* the lock table alone.                                                   *)
LEMMA LockStep ==
    ASSUME Phases, [TxnNext]_txnVars PROVE [Next]_lockVars
<1>1. ASSUME NEW t \in Txn, BeginTxn(t) PROVE Next
  BY <1>1 DEF BeginTxn, Next
<1>2. ASSUME NEW t \in Txn, NEW id \in DataId, NEW m \in Request, LockTable(t, id, m)
      PROVE  Next
  BY <1>2 DEF LockTable, Ready, Active, Acquire, Next
<1>3. ASSUME NEW t \in Txn, Commit(t) PROVE Next
  <2>1. End(t, "COMMITTED")
    BY <1>3 DEF Commit, Ready, Active, End
  <2> QED BY <2>1 DEF Next
<1>4. ASSUME NEW t \in Txn, AbortDone(t) PROVE Next
  <2>1. End(t, "ABORTED")
    BY <1>4 DEF AbortDone, Phases, End
  <2> QED BY <2>1 DEF Next
<1>5. ASSUME NEW t \in Txn, NEW id \in DataId, ReleaseLock(t, id) PROVE Next
  BY <1>5 DEF ReleaseLock, Next
<1>6. ASSUME NEW t \in Txn,
             \/ \E id \in DataId, m \in Request : LockFails(t, id, m)
             \/ ReadTable(t)
             \/ \E rows \in Rows : WriteTable(t, rows)
             \/ Abort(t)
             \/ UndoLast(t)
      PROVE  UNCHANGED lockVars
  BY <1>6 DEF LockFails, ReadTable, WriteTable, Abort, UndoLast
<1> QED BY <1>1, <1>2, <1>3, <1>4, <1>5, <1>6 DEF TxnNext, txnVars

(* A transaction that is granted S and X only keeps a mode that covers all *)
(* it was granted until it ends.                                           *)
LEMMA GrantsStep ==
    ASSUME TypeOK, OnlySX, GrantsKept, [Next]_lockVars PROVE OnlySX' /\ GrantsKept'
<1> USE DEF TypeOK, OnlySX
<1>1. CASE UNCHANGED lockVars
  BY <1>1 DEF lockVars, GrantsKept
<1>2. ASSUME NEW t \in Txn, Begin(t) PROVE OnlySX' /\ GrantsKept'
  BY <1>2 DEF Begin, GrantsKept
<1>3. ASSUME NEW t \in Txn, NEW id \in DataId, NEW m \in Request, Acquire(t, id, m)
      PROVE  OnlySX' /\ GrantsKept'
  <2>1. m \in {S, X}
    BY TxnAssumption
  <2>2. OnlySX'
    BY <1>3, <2>1 DEF Acquire, Lock, AfterLock
  <2>3. GrantsKept'
    <3> SUFFICES ASSUME NEW u \in Txn, NEW i \in DataId, state[u] = "GROWING",
                        NEW n \in granted'[u][i]
                 PROVE  held'[i][u] # NONE /\ is_stronger_or_equal(held'[i][u], n)
      BY <1>3 DEF GrantsKept, Acquire, Lock
    <3>1. CASE u # t \/ i # id
      BY <1>3, <3>1 DEF Acquire, Lock, AfterLock, GrantsKept
    <3>2. CASE u = t /\ i = id /\ HasAlready(t, id, m)
      BY <1>3, <3>2 DEF Acquire, Lock, AfterLock, GrantsKept, HasAlready
    <3>3. CASE u = t /\ i = id /\ ~HasAlready(t, id, m)
      <4>1. held'[id][t] = m /\ m # NONE /\ (n = m \/ n \in granted[t][id])
        BY <1>3, <2>1, <3>3, LockAssumption DEF Acquire, Lock, AfterLock, LockMode
      <4>2. CASE n = m
        BY <3>3, <4>1, <4>2 DEF is_stronger_or_equal
      <4>3. CASE m = X
        BY <3>3, <4>1, <4>3 DEF is_stronger_or_equal
      <4>4. CASE n \in granted[t][id] /\ m = S
        BY <1>3, <3>3, <4>4 DEF Acquire, GrantsKept, HasAlready, is_stronger_or_equal
      <4> QED BY <2>1, <4>1, <4>2, <4>3, <4>4
    <3> QED BY <3>1, <3>2, <3>3
  <2> QED BY <2>2, <2>3
<1>4. ASSUME NEW t \in Txn, NEW outcome \in {"COMMITTED", "ABORTED"}, 
             \/ End(t, outcome)
             \/ \E id \in DataId, m \in Request : AbortOnConflict(t, id, m)
      PROVE  OnlySX' /\ GrantsKept'
  BY <1>4 DEF End, AbortOnConflict, GrantsKept
<1>5. ASSUME NEW t \in Txn, NEW id \in DataId, Release(t, id) PROVE OnlySX' /\ GrantsKept'
  BY <1>5 DEF Release, Unlock, Ended, GrantsKept
<1> QED BY <1>1, <1>2, <1>3, <1>4, <1>5 DEF Next

(* What lock and unlock guarantee holds under the transactions, too.       *)
LEMMA LockInvStep ==
    ASSUME Phases, LockInv, [TxnNext]_txnVars PROVE LockInv'
BY LockStep, TypeStep, CompatibleStep, LockSetStep, GrantsStep DEF LockInv

(* Nobody else holds a lock on what is locked exclusively.                 *)
LEMMA Exclusive ==
    ASSUME LockInv, NEW t \in Txn, NEW u \in Txn, NEW id \in DataId,
           held[id][t] = X, u # t
    PROVE  held[id][u] = NONE
<1>1. X # NONE /\ ~compatible(X, held[id][u])
  BY LockAssumption DEF LockMode, compatible, S, X, IS, IX
<1> QED BY <1>1 DEF LockInv, HeldCompatible

----------------------------------------------------------------------------
(* What appending to and popping from a write set does to the tables with  *)
(* write records.                                                          *)
LEMMA AppendRecord ==
    ASSUME TxnTypeOK, NEW t \in Txn, NEW id \in DataId, NEW rows \in Rows,
           write_set' = [write_set EXCEPT ![t] = Append(@, <<id, rows>>)]
    PROVE  /\ write_set' \in [Txn -> Seq(DataId \X Rows)]
           /\ Written(t)' = Written(t) \cup {id}
           /\ \A u \in Txn \ {t} : Written(u)' = Written(u)
<1> DEFINE ws == write_set[t]
<1>1. ws \in Seq(DataId \X Rows)
  BY DEF TxnTypeOK
<1>2. /\ write_set'[t] = Append(ws, <<id, rows>>)
      /\ \A u \in Txn \ {t} : write_set'[u] = write_set[u]
  BY DEF TxnTypeOK
<1>3. Append(ws, <<id, rows>>) \in Seq(DataId \X Rows)
  BY <1>1
<1>4. write_set' \in [Txn -> Seq(DataId \X Rows)]
  BY <1>3 DEF TxnTypeOK
<1>5. /\ DOMAIN Append(ws, <<id, rows>>) = DOMAIN ws \cup {Len(ws) + 1}
      /\ \A i \in DOMAIN ws : Append(ws, <<id, rows>>)[i] = ws[i]
      /\ Append(ws, <<id, rows>>)[Len(ws) + 1] = <<id, rows>>
  BY <1>1
<1>6. Written(t)' = Written(t) \cup {id}
  BY <1>2, <1>5 DEF Written
<1>7. \A u \in Txn \ {t} : Written(u)' = Written(u)
  BY <1>2 DEF Written
<1> QED BY <1>4, <1>6, <1>7

(* Write records are about tables.                                         *)
LEMMA WrittenTables ==
    ASSUME TxnTypeOK, NEW t \in Txn PROVE Written(t) \subseteq DataId
<1>1. write_set[t] \in Seq(DataId \X Rows)
  BY DEF TxnTypeOK
<1>2. \A i \in DOMAIN write_set[t] : write_set[t][i][1] \in DataId
  BY <1>1
<1> QED BY <1>2 DEF Written

(* A new write record is the oldest one of its table only where it has the *)
(* committed rows.                                                         *)
LEMMA AppendOldest ==
    ASSUME NEW ws \in Seq(DataId \X Rows), NEW id \in DataId, NEW rows \in Rows, NEW tables,
           OldestFrom(ws, tables),
           (\A i \in DOMAIN ws : ws[i][1] # id) => rows = tables[id]
    PROVE  OldestFrom(Append(ws, <<id, rows>>), tables)
<1> DEFINE new == Append(ws, <<id, rows>>)
<1>1. /\ DOMAIN new = 1 .. Len(ws) + 1 /\ DOMAIN ws = 1 .. Len(ws) /\ Len(ws) \in Nat
      /\ \A i \in 1 .. Len(ws) : new[i] = ws[i]
      /\ new[Len(ws) + 1] = <<id, rows>>
  OBVIOUS
<1> HIDE DEF new
<1> SUFFICES ASSUME NEW i \in DOMAIN new, \A j \in 1 .. i - 1 : new[j][1] # new[i][1]
             PROVE  new[i][2] = tables[new[i][1]]
  BY DEF OldestFrom, new
<1>2. CASE i = Len(ws) + 1
  <2>1. new[i][1] = id /\ new[i][2] = rows
    BY <1>1, <1>2
  <2>2. i - 1 = Len(ws)
    BY <1>1, <1>2
  <2>3. \A j \in DOMAIN ws : ws[j][1] # id
    BY <1>1, <2>1, <2>2
  <2> QED BY <2>1, <2>3
<1>3. CASE i \in 1 .. Len(ws)
  <2>1. new[i] = ws[i] /\ \A j \in 1 .. i - 1 : j \in 1 .. Len(ws) /\ new[j] = ws[j]
    BY <1>1, <1>3
  <2>2. i \in DOMAIN ws /\ \A j \in 1 .. i - 1 : ws[j][1] # ws[i][1]
    BY <1>1, <1>3, <2>1
  <2>3. ws[i][2] = tables[ws[i][1]]
    BY <2>2 DEF OldestFrom
  <2> QED BY <2>1, <2>3
<1> QED BY <1>1, <1>2, <1>3

(* What is left of a write set has the same oldest records.                *)
LEMMA PopOldest ==
    ASSUME NEW ws \in Seq(DataId \X Rows), ws # << >>, NEW tables, OldestFrom(ws, tables)
    PROVE  OldestFrom(SubSeq(ws, 1, Len(ws) - 1), tables)
<1> DEFINE fr == SubSeq(ws, 1, Len(ws) - 1)
<1>1. /\ DOMAIN fr = 1 .. Len(ws) - 1 /\ DOMAIN ws = 1 .. Len(ws) /\ Len(ws) \in Nat
      /\ \A i \in 1 .. Len(ws) - 1 : fr[i] = ws[i]
  OBVIOUS
<1> HIDE DEF fr
<1> SUFFICES ASSUME NEW i \in DOMAIN fr, \A j \in 1 .. i - 1 : fr[j][1] # fr[i][1]
             PROVE  fr[i][2] = tables[fr[i][1]]
  BY DEF OldestFrom, fr
<1>2. i \in DOMAIN ws /\ fr[i] = ws[i]
  BY <1>1
<1>3. \A j \in 1 .. i - 1 : j \in 1 .. Len(ws) - 1
  BY <1>1
<1>4. \A j \in 1 .. i - 1 : ws[j][1] # ws[i][1]
  BY <1>1, <1>2, <1>3
<1> QED BY <1>2, <1>4 DEF OldestFrom

(* Popping the last write record, as abort does.                           *)
LEMMA PopRecord ==
    ASSUME TxnTypeOK, NEW t \in Txn, write_set[t] # << >>,
           write_set' = [write_set EXCEPT ![t] = SubSeq(@, 1, Len(@) - 1)]
    PROVE  LET w == write_set[t][Len(write_set[t])]
           IN /\ write_set' \in [Txn -> Seq(DataId \X Rows)]
              /\ w \in DataId \X Rows
              /\ Written(t) = Written(t)' \cup {w[1]}
              /\ \A u \in Txn \ {t} : Written(u)' = Written(u)
              /\ UndoBase => w[1] \in Written(t)' \/ w[2] = committed[w[1]]
<1> DEFINE ws == write_set[t]
           w  == ws[Len(ws)]
           fr == SubSeq(ws, 1, Len(ws) - 1)
<1>1. ws \in Seq(DataId \X Rows) /\ ws # << >>
  BY DEF TxnTypeOK
<1>2. Len(ws) \in Nat \ {0} /\ w \in DataId \X Rows /\ DOMAIN ws = 1 .. Len(ws)
  BY <1>1
<1>3. /\ fr \in Seq(DataId \X Rows)
      /\ DOMAIN fr = 1 .. Len(ws) - 1
      /\ \A i \in 1 .. Len(ws) - 1 : fr[i] = ws[i]
  BY <1>1, <1>2
<1>4. /\ write_set'[t] = fr
      /\ \A u \in Txn \ {t} : write_set'[u] = write_set[u]
  BY DEF TxnTypeOK
<1>5. write_set' \in [Txn -> Seq(DataId \X Rows)]
  BY <1>3 DEF TxnTypeOK
<1>6. 1 .. Len(ws) = (1 .. Len(ws) - 1) \cup {Len(ws)}
  BY <1>2
<1>7. Written(t)' = { ws[i][1] : i \in 1 .. Len(ws) - 1 }
  <2>1. Written(t)' = { fr[i][1] : i \in DOMAIN fr }
    BY <1>4 DEF Written
  <2> HIDE DEF fr, ws
  <2> QED BY <1>3, <2>1
<1>8. Written(t) = Written(t)' \cup {w[1]}
  BY <1>2, <1>6, <1>7 DEF Written
<1>9. ASSUME UndoBase, w[1] \notin Written(t)' PROVE w[2] = committed[w[1]]
  BY <1>2, <1>7, <1>9 DEF UndoBase, OldestFrom
<1>10. \A u \in Txn \ {t} : Written(u)' = Written(u)
  BY <1>4 DEF Written
<1> HIDE DEF w
<1> QED BY <1>2, <1>5, <1>8, <1>9, <1>10 DEF w

(* The tables, statements, write sets and ghosts keep their types.         *)
LEMMA TxnTypeStep ==
    ASSUME TxnTypeOK, TypeOK', [TxnNext]_txnVars PROVE TxnTypeOK'
<1> USE DEF TxnTypeOK
<1> SUFFICES ASSUME TxnNext PROVE TxnTypeOK'
  BY DEF txnVars, dataVars
<1>0. Untouched \in [DataId -> Rows \cup {NONE}]
  BY DEF Untouched
<1>1. ASSUME NEW t \in Txn, BeginTxn(t) PROVE TxnTypeOK'
  BY <1>1 DEF BeginTxn, dataVars
<1>2. ASSUME NEW t \in Txn, NEW id \in DataId, NEW m \in Request, LockTable(t, id, m)
      PROVE  TxnTypeOK'
  BY <1>2 DEF LockTable
<1>3. ASSUME NEW t \in Txn, NEW id \in DataId, NEW m \in Request, LockFails(t, id, m)
      PROVE  TxnTypeOK'
  BY <1>0, <1>3 DEF LockFails, Forget
<1>4. ASSUME NEW t \in Txn, ReadTable(t) PROVE TxnTypeOK'
  BY <1>4 DEF ReadTable, NoteFirst
<1>5. ASSUME NEW t \in Txn, NEW rows \in Rows, WriteTable(t, rows) PROVE TxnTypeOK'
  <2>1. stmt[t] \in DataId /\ table[stmt[t]] \in Rows
    BY <1>5 DEF WriteTable
  <2>2. write_set' \in [Txn -> Seq(DataId \X Rows)]
    BY <1>5, <2>1, AppendRecord DEF WriteTable
  <2>3. first' \in [Txn -> [DataId -> Rows \cup {NONE}]]
    BY <1>5, <2>1 DEF WriteTable, NoteFirst
  <2>4. seen' \in [Txn -> [DataId -> Rows \cup {NONE}]] /\ table' \in [DataId -> Rows]
    BY <1>5, <2>1 DEF WriteTable
  <2>5. stmt' \in [Txn -> DataId \cup {NONE}] /\ UNCHANGED << undoing, committed >>
    BY <1>5 DEF WriteTable
  <2> QED BY <2>2, <2>3, <2>4, <2>5
<1>6. ASSUME NEW t \in Txn, Commit(t) PROVE TxnTypeOK'
  <2>1. write_set' \in [Txn -> Seq(DataId \X Rows)]
    BY <1>6 DEF Commit
  <2>2. committed' \in [DataId -> Rows]
    BY <1>6 DEF Commit
  <2> QED BY <1>0, <1>6, <2>1, <2>2 DEF Commit, Forget
<1>7. ASSUME NEW t \in Txn, Abort(t) PROVE TxnTypeOK'
  BY <1>0, <1>7 DEF Abort, Forget
<1>8. ASSUME NEW t \in Txn, UndoLast(t) PROVE TxnTypeOK'
  BY <1>8, PopRecord DEF UndoLast
<1>9. ASSUME NEW t \in Txn, AbortDone(t) PROVE TxnTypeOK'
  BY <1>9 DEF AbortDone
<1>10. ASSUME NEW t \in Txn, NEW id \in DataId, ReleaseLock(t, id) PROVE TxnTypeOK'
  BY <1>10 DEF ReleaseLock, dataVars
<1> QED BY <1>1, <1>2, <1>3, <1>4, <1>5, <1>6, <1>7, <1>8, <1>9, <1>10 DEF TxnNext

----------------------------------------------------------------------------
(* One lemma per action: it keeps DataInv.                                 *)

(* begin.                                                                  *)
LEMMA BeginKeeps ==
    ASSUME TxnInv, NEW t \in Txn, BeginTxn(t) PROVE DataInv'
<1> USE DEF TxnInv, TxnTypeOK, TypeOK, DataInv
<1>1. /\ ~Active(t) /\ write_set[t] = << >>
      /\ state' = [state EXCEPT ![t] = "GROWING"]
      /\ UNCHANGED << held, table, stmt, write_set, undoing, first, seen, committed >>
  BY DEF BeginTxn, dataVars, Begin, Ended, Phases, Active
<1>2. stmt[t] = NONE /\ first[t] = Untouched /\ seen[t] = Untouched
  BY <1>1 DEF Idle
<1>3. \A u \in Txn : Written(u)' = Written(u) /\ (u # t => (Active(u)' <=> Active(u)))
  BY <1>1 DEF Written, Active
<1>4. Written(t) = {}
  BY <1>1 DEF Written
<1>5. Phases'
  BY <1>1 DEF Phases
<1>6. Idle' /\ Covered'
  BY <1>1, <1>2, <1>3 DEF Idle, Covered
<1>7. WrittenLocked'
  BY <1>1, <1>3, <1>4 DEF WrittenLocked
<1>8. UndoBase' /\ CleanUnlessWritten'
  BY <1>1, <1>3 DEF UndoBase, CleanUnlessWritten
<1>9. Serializable'
  BY <1>1, <1>2, <1>3 DEF Serializable, Untouched
<1>10. Repeatable'
  BY <1>1, <1>2, <1>3 DEF Repeatable, Untouched
<1> QED BY <1>5, <1>6, <1>7, <1>8, <1>9, <1>10

(* A statement gets its lock.                                              *)
LEMMA LockTableKeeps ==
    ASSUME TxnInv, NEW t \in Txn, NEW id \in DataId, NEW m \in Request, LockTable(t, id, m)
    PROVE  DataInv'
<1> USE DEF TxnInv, TxnTypeOK, TypeOK, DataInv
<1>1. /\ Active(t)
      /\ held' = AfterLock(t, id, m)
      /\ stmt' = [stmt EXCEPT ![t] = id]
      /\ UNCHANGED << state, table, write_set, undoing, first, seen, committed >>
  BY DEF LockTable, Ready, Lock
<1>2. m # NONE /\ X # NONE
  BY LockAssumption DEF LockMode
<1>3. /\ held'[id][t] # NONE
      /\ \A u \in Txn, i \in DataId : held[i][u] # NONE => held'[i][u] # NONE
      /\ \A u \in Txn, i \in DataId : held[i][u] = X => held'[i][u] = X
  BY <1>1, <1>2 DEF AfterLock, HasAlready, is_stronger_or_equal
<1>4. \A u \in Txn : Written(u)' = Written(u) /\ (Active(u)' <=> Active(u))
  BY <1>1 DEF Written, Active
<1>5. Phases' /\ Idle'
  BY <1>1, <1>4 DEF Phases, Idle
<1>6. Covered'
  BY <1>1, <1>3 DEF Covered
<1>7. \A u \in Txn : Written(u) \subseteq DataId
  BY DEF Written
<1>8. WrittenLocked'
  BY <1>1, <1>3, <1>4, <1>7 DEF WrittenLocked
<1>9. UndoBase' /\ CleanUnlessWritten'
  BY <1>1, <1>4 DEF UndoBase, CleanUnlessWritten
<1>10. Serializable' /\ Repeatable'
  BY <1>1, <1>4 DEF Serializable, Repeatable
<1> QED BY <1>5, <1>6, <1>8, <1>9, <1>10

(* abort begins, after a refused lock, an error or a ROLLBACK.             *)
LEMMA AbortKeeps ==
    ASSUME TxnInv, NEW t \in Txn,
           Abort(t) \/ \E id \in DataId, m \in Request : LockFails(t, id, m)
    PROVE  DataInv'
<1> USE DEF TxnInv, TxnTypeOK, TypeOK, DataInv
<1>1. /\ state[t] = "GROWING"
      /\ undoing' = [undoing EXCEPT ![t] = TRUE]
      /\ first' = [first EXCEPT ![t] = Untouched]
      /\ seen' = [seen EXCEPT ![t] = Untouched]
      /\ stmt' = [stmt EXCEPT ![t] = NONE]
      /\ UNCHANGED << held, state, table, write_set, committed >>
  BY DEF Abort, LockFails, Ready, Active, Forget, lockVars
<1>2. ~Active(t)' /\ \A u \in Txn : Written(u)' = Written(u) /\ (u # t => (Active(u)' <=> Active(u)))
  BY <1>1 DEF Written, Active
<1>3. Phases' /\ Idle'
  BY <1>1, <1>2 DEF Phases, Idle
<1>4. Covered'
  BY <1>1, TxnAssumption DEF Covered, Untouched
<1>5. WrittenLocked' /\ UndoBase' /\ CleanUnlessWritten'
  BY <1>1, <1>2 DEF WrittenLocked, UndoBase, CleanUnlessWritten
<1>6. Serializable' /\ Repeatable'
  BY <1>1, <1>2 DEF Serializable, Repeatable
<1> QED BY <1>3, <1>4, <1>5, <1>6

(* abort has undone everything and ends the transaction.                   *)
LEMMA AbortDoneKeeps ==
    ASSUME TxnInv, NEW t \in Txn, AbortDone(t) PROVE DataInv'
<1> USE DEF TxnInv, TxnTypeOK, TypeOK, DataInv
<1>1. /\ undoing[t] /\ write_set[t] = << >>
      /\ undoing' = [undoing EXCEPT ![t] = FALSE]
      /\ state' = [state EXCEPT ![t] = "ABORTED"]
      /\ UNCHANGED << held, table, stmt, write_set, first, seen, committed >>
  BY DEF AbortDone
<1>2. \A u \in Txn : Written(u)' = Written(u) /\ (Active(u)' <=> Active(u))
  BY <1>1 DEF Written, Active
<1>3. Phases' /\ Idle' /\ Covered'
  BY <1>1, <1>2 DEF Phases, Idle, Covered
<1>4. WrittenLocked' /\ UndoBase' /\ CleanUnlessWritten'
  BY <1>1, <1>2 DEF WrittenLocked, UndoBase, CleanUnlessWritten
<1>5. Serializable' /\ Repeatable'
  BY <1>1, <1>2 DEF Serializable, Repeatable
<1> QED BY <1>3, <1>4, <1>5

(* Only a transaction that has ended, and remembers nothing, unlocks.      *)
LEMMA ReleaseKeeps ==
    ASSUME TxnInv, NEW t \in Txn, NEW id \in DataId, ReleaseLock(t, id) PROVE DataInv'
<1> USE DEF TxnInv, TxnTypeOK, TypeOK, DataInv
<1>1. /\ Ended(t)
      /\ held' = [held EXCEPT ![id][t] = NONE]
      /\ UNCHANGED << state, table, stmt, write_set, undoing, first, seen, committed >>
  BY DEF ReleaseLock, Release, Unlock, dataVars, Ended
<1>2. ~Active(t) /\ write_set[t] = << >>
  BY <1>1 DEF Ended, Active, Phases
<1>3. \A u \in Txn : Written(u)' = Written(u) /\ (Active(u)' <=> Active(u))
  BY <1>1 DEF Written, Active
<1>4. Written(t) = {} /\ \A u \in Txn : Written(u) \subseteq DataId
  BY <1>2 DEF Written
<1>5. Phases' /\ Idle'
  BY <1>1, <1>3 DEF Phases, Idle
<1>6. Covered'
  BY <1>1, <1>2, TxnAssumption DEF Idle, Covered, Untouched
<1>7. WrittenLocked'
  BY <1>1, <1>3, <1>4 DEF WrittenLocked
<1>8. UndoBase' /\ CleanUnlessWritten'
  BY <1>1, <1>3 DEF UndoBase, CleanUnlessWritten
<1>9. Serializable' /\ Repeatable'
  BY <1>1, <1>3 DEF Serializable, Repeatable
<1> QED BY <1>5, <1>6, <1>7, <1>8, <1>9

(* What a transaction finds when it first touches a table is committed:    *)
(* its lock keeps every writer away.                                       *)
LEMMA FirstIsCommitted ==
    ASSUME TxnInv, NEW t \in Txn, Active(t), stmt[t] # NONE, first[t][stmt[t]] = NONE
    PROVE  table[stmt[t]] = committed[stmt[t]]
<1>1. stmt[t] \in DataId /\ held[stmt[t]][t] # NONE
  BY DEF TxnInv, TxnTypeOK, DataInv, Covered
<1>2. ASSUME NEW u \in Txn, stmt[t] \in Written(u) PROVE FALSE
  <2>1. held[stmt[t]][u] = X /\ u # t
    BY <1>2 DEF TxnInv, DataInv, WrittenLocked
  <2> QED BY <1>1, <2>1, Exclusive DEF TxnInv
<1> QED BY <1>1, <1>2 DEF TxnInv, DataInv, CleanUnlessWritten

(* A read finds what it found before, or the committed rows.               *)
LEMMA ReadKeeps ==
    ASSUME TxnInv, NEW t \in Txn, ReadTable(t) PROVE DataInv'
<1> USE DEF TxnInv, TxnTypeOK, TypeOK, DataInv
<1>1. /\ Active(t) /\ stmt[t] \in DataId /\ stmt[t] # NONE
      /\ first' = IF first[t][stmt[t]] = NONE THEN [first EXCEPT ![t][stmt[t]] = table[stmt[t]]]
                                             ELSE first
      /\ seen' = [seen EXCEPT ![t][stmt[t]] = table[stmt[t]]]
      /\ stmt' = [stmt EXCEPT ![t] = NONE]
      /\ UNCHANGED << held, state, table, write_set, undoing, committed >>
  BY DEF ReadTable, NoteFirst, lockVars
<1>2. \A u \in Txn : Written(u)' = Written(u) /\ (Active(u)' <=> Active(u))
  BY <1>1 DEF Written, Active
<1>3. \A u \in Txn : Written(u) \subseteq DataId
  BY DEF Written
<1>4. \A u \in Txn, i \in DataId : first[u][i] # NONE => first'[u][i] = first[u][i]
  BY <1>1
<1>5. Phases' /\ Idle'
  BY <1>1, <1>2 DEF Phases, Idle
<1>6. Covered'
  BY <1>1, TxnAssumption DEF Covered
<1>7. WrittenLocked'
  BY <1>1, <1>2, <1>3, <1>4 DEF WrittenLocked
<1>8. UndoBase' /\ CleanUnlessWritten'
  BY <1>1, <1>2 DEF UndoBase, CleanUnlessWritten
<1>9. Serializable'
  BY <1>1, <1>2, FirstIsCommitted DEF Serializable
<1>10. Repeatable'
  BY <1>1, <1>2 DEF Repeatable
<1> QED BY <1>5, <1>6, <1>7, <1>8, <1>9, <1>10

(* A write changes a table that nobody else has a lock on.                 *)
LEMMA WriteKeeps ==
    ASSUME TxnInv, NEW t \in Txn, NEW rows \in Rows, WriteTable(t, rows) PROVE DataInv'
<1> DEFINE id == stmt[t]
<1>1. /\ Active(t) /\ id \in DataId /\ id # NONE /\ held[id][t] = X
      /\ write_set' = [write_set EXCEPT ![t] = Append(@, <<id, table[id]>>)]
      /\ table' = [table EXCEPT ![id] = rows]
      /\ first' = IF first[t][id] = NONE THEN [first EXCEPT ![t][id] = table[id]] ELSE first
      /\ seen' = [seen EXCEPT ![t][id] = rows]
      /\ stmt' = [stmt EXCEPT ![t] = NONE]
      /\ UNCHANGED << held, state, undoing, committed >>
  BY DEF WriteTable, NoteFirst, lockVars, TxnInv, TxnTypeOK
<1> HIDE DEF id
<1> USE DEF TxnInv, TxnTypeOK, TypeOK, DataInv
<1>2. /\ Written(t)' = Written(t) \cup {id}
      /\ \A u \in Txn \ {t} : Written(u)' = Written(u)
      /\ \A u \in Txn : Written(u) \subseteq DataId
  <2>1. table[id] \in Rows
    BY <1>1
  <2>2. \A u \in Txn : Written(u) \subseteq DataId
    BY WrittenTables
  <2> QED BY <1>1, <2>1, <2>2, AppendRecord
<1>3. \A u \in Txn : Active(u)' <=> Active(u)
  BY <1>1 DEF Active
<1>4. ASSUME NEW u \in Txn \ {t}
      PROVE  held[id][u] = NONE /\ first[u][id] = NONE /\ seen[u][id] = NONE /\ id \notin Written(u)
  <2>1. held[id][u] = NONE
    BY <1>1, Exclusive
  <2>2. X # NONE
    BY LockAssumption DEF LockMode
  <2> QED BY <1>1, <2>1, <2>2 DEF Covered, WrittenLocked
<1>5. first[t][id] = NONE => table[id] = committed[id]
  BY <1>1, FirstIsCommitted DEF id
<1>6. /\ \A u \in Txn, i \in DataId : first[u][i] # NONE => first'[u][i] = first[u][i]
      /\ first'[t][id] # NONE
  BY <1>1, TxnAssumption
<1>7. Phases'
  BY <1>1 DEF Phases, Active
<1>8. Idle'
  BY <1>1, <1>3 DEF Idle
<1>9. Covered'
  <2>1. X # NONE
    BY LockAssumption DEF LockMode
  <2> QED BY <1>1, <2>1, TxnAssumption DEF Covered
<1>10. WrittenLocked'
  BY <1>1, <1>2, <1>3, <1>6 DEF WrittenLocked
<1>11. CleanUnlessWritten'
  BY <1>1, <1>2 DEF CleanUnlessWritten
<1>12. Serializable'
  BY <1>1, <1>3, <1>5 DEF Serializable
<1>13. Repeatable'
  BY <1>1, <1>3, <1>4 DEF Repeatable
<1>14. UndoBase'
  <2> DEFINE ws == write_set[t]
  <2>1. ws \in Seq(DataId \X Rows) /\ table[id] \in Rows /\ OldestFrom(ws, committed)
    BY <1>1 DEF UndoBase
  <2>2. /\ write_set'[t] = Append(ws, <<id, table[id]>>)
        /\ \A u \in Txn \ {t} : write_set'[u] = write_set[u]
    BY <1>1
  <2>3. ASSUME \A i \in DOMAIN ws : ws[i][1] # id PROVE table[id] = committed[id]
    <3>1. id \notin Written(t)
      BY <2>3 DEF Written
    <3> QED BY <1>1, <1>4, <3>1 DEF CleanUnlessWritten
  <2> HIDE DEF ws
  <2>4. OldestFrom(Append(ws, <<id, table[id]>>), committed)
    BY <1>1, <2>1, <2>3, AppendOldest
  <2> QED BY <1>1, <2>2, <2>4 DEF UndoBase
<1> QED BY <1>7, <1>8, <1>9, <1>10, <1>11, <1>12, <1>13, <1>14

(* A commit makes committed what the transaction wrote, under its          *)
(* exclusive locks: nobody else has looked at those tables.                *)
LEMMA CommitKeeps ==
    ASSUME TxnInv, NEW t \in Txn, Commit(t) PROVE DataInv'
<1> USE DEF TxnInv, TxnTypeOK, TypeOK, DataInv
<1>1. /\ Active(t) /\ stmt[t] = NONE
      /\ state' = [state EXCEPT ![t] = "COMMITTED"]
      /\ write_set' = [write_set EXCEPT ![t] = << >>]
      /\ committed' = [id \in DataId |-> IF id \in Written(t) THEN table[id] ELSE committed[id]]
      /\ first' = [first EXCEPT ![t] = Untouched]
      /\ seen' = [seen EXCEPT ![t] = Untouched]
      /\ UNCHANGED << held, table, stmt, undoing >>
  BY DEF Commit, Ready, Forget
<1>2. /\ ~Active(t)' /\ Written(t)' = {}
      /\ \A u \in Txn \ {t} : Written(u)' = Written(u) /\ (Active(u)' <=> Active(u))
      /\ \A u \in Txn : Written(u) \subseteq DataId
  <2>1. write_set'[t] = << >> /\ \A u \in Txn \ {t} : write_set'[u] = write_set[u]
    BY <1>1
  <2>2. Written(t)' = {}
    BY <2>1 DEF Written
  <2>3. \A u \in Txn \ {t} : Written(u)' = Written(u)
    BY <2>1 DEF Written
  <2>4. ~Active(t)' /\ \A u \in Txn \ {t} : Active(u)' <=> Active(u)
    BY <1>1 DEF Active
  <2> QED BY <2>2, <2>3, <2>4, WrittenTables
<1>3. ASSUME NEW u \in Txn \ {t}, NEW id \in Written(t)
      PROVE  id \in DataId /\ first[u][id] = NONE /\ id \notin Written(u)
  <2>1. id \in DataId /\ held[id][t] = X
    BY <1>2 DEF WrittenLocked
  <2>2. held[id][u] = NONE
    BY <2>1, Exclusive
  <2>3. X # NONE
    BY LockAssumption DEF LockMode
  <2> QED BY <2>1, <2>2, <2>3 DEF Covered, WrittenLocked
<1>4. Phases'
  BY <1>1 DEF Phases, Active
<1>5. Idle'
  BY <1>1, <1>2 DEF Idle
<1>6. Covered'
  BY <1>1, TxnAssumption DEF Covered, Untouched
<1>7. WrittenLocked'
  BY <1>1, <1>2 DEF WrittenLocked
<1>8. CleanUnlessWritten'
  <2> SUFFICES ASSUME NEW id \in DataId, \A u \in Txn : id \notin Written(u)'
               PROVE  table[id] = committed'[id]
    BY <1>1 DEF CleanUnlessWritten
  <2>1. CASE id \in Written(t)
    BY <1>1, <2>1
  <2>2. CASE id \notin Written(t)
    <3>1. \A u \in Txn : id \notin Written(u)
      BY <1>2, <2>2
    <3> QED BY <1>1, <2>2, <3>1 DEF CleanUnlessWritten
  <2> QED BY <2>1, <2>2
<1>9. Serializable'
  BY <1>1, <1>2, <1>3 DEF Serializable
<1>10. Repeatable'
  BY <1>1, <1>2 DEF Repeatable
<1>11. UndoBase'
  <2> SUFFICES ASSUME NEW u \in Txn PROVE OldestFrom(write_set'[u], committed')
    BY DEF UndoBase
  <2>1. CASE u = t
    <3>1. DOMAIN write_set'[u] = {}
      BY <1>1, <2>1
    <3> QED BY <3>1 DEF OldestFrom
  <2>2. CASE u # t
    <3>1. write_set'[u] = write_set[u] /\ OldestFrom(write_set[u], committed)
      BY <1>1, <2>2 DEF UndoBase
    <3>2. ASSUME NEW i \in DOMAIN write_set[u]
          PROVE  committed'[write_set[u][i][1]] = committed[write_set[u][i][1]]
      <4>1. write_set[u][i][1] \in Written(u)
        BY DEF Written
      <4> QED BY <1>1, <1>2, <1>3, <2>2, <4>1
    <3>3. ASSUME NEW i \in DOMAIN write_set[u],
                 \A j \in 1 .. i - 1 : write_set[u][j][1] # write_set[u][i][1]
          PROVE  write_set[u][i][2] = committed'[write_set[u][i][1]]
      BY <3>1, <3>2, <3>3 DEF OldestFrom
    <3>4. OldestFrom(write_set[u], committed')
      BY <3>3 DEF OldestFrom
    <3> QED BY <3>1, <3>4
  <2> QED BY <2>1, <2>2
<1> QED BY <1>4, <1>5, <1>6, <1>7, <1>8, <1>9, <1>10, <1>11

(* Undoing the last write record of a table brings back its committed rows *)
(* if there is no older one.                                               *)
LEMMA UndoKeeps ==
    ASSUME TxnInv, NEW t \in Txn, UndoLast(t) PROVE DataInv'
<1> DEFINE w == write_set[t][Len(write_set[t])]
<1>1. /\ undoing[t] /\ write_set[t] # << >>
      /\ table' = [table EXCEPT ![w[1]] = w[2]]
      /\ write_set' = [write_set EXCEPT ![t] = SubSeq(@, 1, Len(@) - 1)]
      /\ UNCHANGED << held, state, stmt, undoing, first, seen, committed >>
  BY DEF UndoLast, lockVars
<1>2. /\ w \in DataId \X Rows
      /\ Written(t) = Written(t)' \cup {w[1]}
      /\ \A u \in Txn \ {t} : Written(u)' = Written(u)
      /\ w[1] \in Written(t)' \/ w[2] = committed[w[1]]
  BY <1>1, PopRecord DEF TxnInv, DataInv
<1> HIDE DEF w
<1> USE DEF TxnInv, TxnTypeOK, TypeOK, DataInv
<1>3. w[1] \in DataId /\ held[w[1]][t] = X /\ ~Active(t)
  BY <1>1, <1>2 DEF WrittenLocked, Active
<1>4. \A u \in Txn : Active(u)' <=> Active(u)
  BY <1>1 DEF Active
<1>5. ASSUME NEW u \in Txn \ {t} PROVE seen[u][w[1]] = NONE
  <2>1. held[w[1]][u] = NONE
    BY <1>3, Exclusive
  <2> QED BY <1>3, <2>1 DEF Covered
<1>6. Phases'
  BY <1>1 DEF Phases
<1>7. Idle' /\ Covered'
  BY <1>1, <1>4 DEF Idle, Covered
<1>8. WrittenLocked'
  <2>1. \A u \in Txn : Written(u) \subseteq DataId
    BY WrittenTables
  <2>2. \A u \in Txn : Written(u)' \subseteq Written(u)
    BY <1>2
  <2> QED BY <1>1, <1>4, <2>1, <2>2 DEF WrittenLocked
<1>9. CleanUnlessWritten'
  <2> SUFFICES ASSUME NEW id \in DataId, \A u \in Txn : id \notin Written(u)'
               PROVE  table'[id] = committed[id]
    BY <1>1 DEF CleanUnlessWritten
  <2>1. CASE id = w[1]
    BY <1>1, <1>2, <1>3, <2>1
  <2>2. CASE id # w[1]
    <3>1. \A u \in Txn : id \notin Written(u)
      BY <1>2, <2>2
    <3> QED BY <1>1, <2>2, <3>1 DEF CleanUnlessWritten
  <2> QED BY <2>1, <2>2
<1>10. Serializable'
  BY <1>1, <1>4 DEF Serializable
<1>11. Repeatable'
  BY <1>1, <1>3, <1>4, <1>5 DEF Repeatable
<1>12. UndoBase'
  <2> DEFINE ws == write_set[t]
  <2>1. ws \in Seq(DataId \X Rows) /\ ws # << >> /\ OldestFrom(ws, committed)
    BY <1>1 DEF UndoBase
  <2>2. /\ write_set'[t] = SubSeq(ws, 1, Len(ws) - 1)
        /\ \A u \in Txn \ {t} : write_set'[u] = write_set[u]
    BY <1>1
  <2> HIDE DEF ws
  <2>3. OldestFrom(SubSeq(ws, 1, Len(ws) - 1), committed)
    BY <2>1, PopOldest
  <2> QED BY <1>1, <2>2, <2>3 DEF UndoBase
<1> QED BY <1>6, <1>7, <1>8, <1>9, <1>10, <1>11, <1>12

----------------------------------------------------------------------------
(* The invariant holds when the server starts.                             *)
LEMMA TxnInvInit == TxnInit => TxnInv
<1> SUFFICES ASSUME TxnInit PROVE TxnInv
  OBVIOUS
<1> USE DEF TxnInit, Init, Untouched
<1>1. TxnTypeOK
  BY TxnAssumption DEF TxnTypeOK, TypeOK
<1>2. LockInv
  BY DEF LockInv, TypeOK, HeldCompatible, LockSetExact, OnlySX, GrantsKept
<1>3. \A t \in Txn :
        write_set[t] = << >> /\ DOMAIN write_set[t] = {} /\ Written(t) = {} /\ ~Active(t)
  <2>1. \A t \in Txn : write_set[t] = << >> /\ ~Active(t)
    BY DEF Active
  <2>2. ASSUME NEW t \in Txn PROVE DOMAIN write_set[t] = {} /\ Written(t) = {}
    <3>1. DOMAIN write_set[t] = {}
      BY <2>1
    <3> QED BY <3>1 DEF Written
  <2> QED BY <2>1, <2>2
<1>4. Phases /\ Idle /\ Covered
  BY <1>3, TxnAssumption DEF Phases, Idle, Covered
<1>5. WrittenLocked /\ UndoBase
  <2>1. WrittenLocked
    BY <1>3 DEF WrittenLocked
  <2>2. UndoBase
    BY <1>3 DEF UndoBase, OldestFrom
  <2> QED BY <2>1, <2>2
<1>6. Serializable /\ Repeatable /\ CleanUnlessWritten
  BY <1>3 DEF Serializable, Repeatable, CleanUnlessWritten
<1> QED BY <1>1, <1>2, <1>4, <1>5, <1>6 DEF TxnInv, DataInv

(* Every step of begin, of a statement, of commit and of abort keeps it.   *)
LEMMA TxnInvStep == TxnInv /\ [TxnNext]_txnVars => TxnInv'
<1> SUFFICES ASSUME TxnInv, [TxnNext]_txnVars PROVE TxnInv'
  OBVIOUS
<1>1. LockInv'
  BY LockInvStep DEF TxnInv, DataInv
<1>2. TxnTypeOK'
  BY <1>1, TxnTypeStep DEF TxnInv, LockInv
<1>3. CASE UNCHANGED txnVars
  <2>1. UNCHANGED << held, state, table, stmt, write_set, undoing, first, seen, committed >>
    BY <1>3 DEF txnVars, lockVars, dataVars
  <2>2. \A t \in Txn : (Active(t)' <=> Active(t)) /\ Written(t)' = Written(t)
    BY <2>1 DEF Active, Written
  <2>3. Phases' /\ Idle'
    BY <2>1, <2>2 DEF TxnInv, DataInv, Phases, Idle
  <2>4. Covered' /\ UndoBase'
    BY <2>1 DEF TxnInv, DataInv, Covered, UndoBase
  <2>5. WrittenLocked'
    BY <2>1, <2>2 DEF TxnInv, DataInv, WrittenLocked
  <2>6. Serializable' /\ Repeatable'
    BY <2>1, <2>2 DEF TxnInv, DataInv, Serializable, Repeatable
  <2>7. CleanUnlessWritten'
    BY <2>1, <2>2 DEF TxnInv, DataInv, CleanUnlessWritten
  <2> QED BY <1>1, <1>2, <2>3, <2>4, <2>5, <2>6, <2>7 DEF TxnInv, DataInv
<1>4. CASE TxnNext
  BY <1>1, <1>2, <1>4, BeginKeeps, LockTableKeeps, AbortKeeps, ReadKeeps, WriteKeeps,
     CommitKeeps, UndoKeeps, AbortDoneKeeps, ReleaseKeeps DEF TxnNext, TxnInv
<1> QED BY <1>3, <1>4

(* TxnInv is an invariant: touched tables stay locked, and the oldest      *)
(* write record of a table has the rows that abort must bring back.        *)
THEOREM TxnInvariant == TxnSpec => []TxnInv
BY TxnInvInit, TxnInvStep, PTL DEF TxnSpec

(* What an open transaction found at its first access to a table is what   *)
(* the transactions committed so far left there: serializable in commit    *)
(* order, however lock, read, write, undo and unlock steps interleave.     *)
THEOREM IsSerializable == TxnSpec => []Serializable
<1>1. TxnInv => Serializable
  BY DEF TxnInv, DataInv
<1> QED BY <1>1, TxnInvariant, PTL

(* A table an open transaction has read or written stays as it saw it.     *)
THEOREM IsRepeatable == TxnSpec => []Repeatable
<1>1. TxnInv => Repeatable
  BY DEF TxnInv, DataInv
<1> QED BY <1>1, TxnInvariant, PTL

(* A table without write records of an open transaction is the committed   *)
(* one: abort leaves no trace.                                             *)
THEOREM AbortsLeaveNoTrace == TxnSpec => []CleanUnlessWritten
<1>1. TxnInv => CleanUnlessWritten
  BY DEF TxnInv, DataInv
<1> QED BY <1>1, TxnInvariant, PTL

(* Until it ends, a transaction's mode on a table covers all it was        *)
(* granted there: with S and X requests, lock never loses a grant.         *)
THEOREM GrantsAreKept == TxnSpec => []GrantsKept
<1>1. TxnInv => GrantsKept
  BY DEF TxnInv, LockInv
<1> QED BY <1>1, TxnInvariant, PTL

(* The transactions use the lock table only through the lock manager's     *)
(* operations: their specification implements that of LockManager.         *)
THEOREM ImplementsLockManager == TxnSpec => Spec
<1>1. TxnInit => Init
  BY DEF TxnInit
<1>2. TxnInv /\ [TxnNext]_txnVars => [Next]_lockVars
  BY LockStep DEF TxnInv, DataInv
<1> QED BY <1>1, <1>2, TxnInvariant, PTL DEF TxnSpec, Spec
=============================================================================
