---------------------------- MODULE LockManager ----------------------------
(***************************************************************************)
(* LockManager (src/transaction/concurrency): the lock table and the       *)
(* no-wait policy.                                                         *)
(*                                                                         *)
(* A request that cannot be granted at once throws, and its transaction    *)
(* aborts; nothing ever waits, so every request in a queue is granted and  *)
(* a queue has at most one request of a transaction.  The queue of a data  *)
(* item is therefore the function from transactions to the mode they hold. *)
(* group_lock_mode_ is recomputed on every change and never read.          *)
(*                                                                         *)
(* lock and unlock hold latch_ throughout, so a call is one action; commit *)
(* and abort first set the state of the transaction, then release its      *)
(* locks one call at a time.                                               *)
(***************************************************************************)
CONSTANTS
    Txn,       \* transactions; one is begun again after it has ended
    DataId,    \* LockDataId: what can be locked
    Request,   \* the modes the callers ask for
    NONE       \* no request in the queue

S   == "SHARED"
X   == "EXLUCSIVE"
IS  == "INTENTION_SHARED"
IX  == "INTENTION_EXCLUSIVE"
SIX == "S_IX"

LockMode == {S, X, IS, IX, SIX}

(* lock_shared, lock_exclusive, lock_IS and lock_IX: nobody asks for S_IX. *)
ASSUME LockAssumption == Request \subseteq {S, X, IS, IX} /\ NONE \notin LockMode

VARIABLES
    held,       \* lock_table_: held[id][t] is the mode t holds on id
    lock_set,   \* Transaction::lock_set_
    state,      \* Transaction::state_
    granted     \* ghost: the modes t was granted on id since it began

lockVars == << held, lock_set, state, granted >>

compatible(requested, grantedMode) ==
    CASE requested = IS -> grantedMode # X
      [] requested = IX -> grantedMode \in {IS, IX}
      [] requested = S  -> grantedMode \in {IS, S}
      [] OTHER          -> FALSE

is_stronger_or_equal(heldMode, requested) ==
    \/ heldMode = requested
    \/ heldMode = X
    \/ heldMode = SIX /\ requested # X
    \/ heldMode \in {S, IX} /\ requested = IS

----------------------------------------------------------------------------
HasAlready(t, id, m) == held[id][t] # NONE /\ is_stronger_or_equal(held[id][t], m)

(* Mutant of Conflict: only exclusive holders are looked at.               *)
Conflict_IgnoresReaders(t, id, m) == \E u \in Txn \ {t} : held[id][u] = X

Conflict(t, id, m) ==
    \E u \in Txn \ {t} : held[id][u] # NONE /\ ~compatible(m, held[id][u])

(* Mutant of AfterLock: a stronger mode is replaced too.                   *)
AfterLock_Downgrades(t, id, m) == [held EXCEPT ![id][t] = m]

(* A weaker mode that t holds already is replaced by the requested one.    *)
AfterLock(t, id, m) ==
    IF HasAlready(t, id, m) THEN held ELSE [held EXCEPT ![id][t] = m]

(* lock returns true.                                                      *)
Lock(t, id, m) ==
    /\ state[t] # "SHRINKING"
    /\ HasAlready(t, id, m) \/ ~Conflict(t, id, m)
    /\ held' = AfterLock(t, id, m)
    /\ lock_set' = [lock_set EXCEPT ![t] = @ \cup {id}]
    /\ granted' = [granted EXCEPT ![t][id] = @ \cup {m}]
    /\ UNCHANGED state

(* lock throws TransactionAbortException.                                  *)
LockThrows(t, id, m) ==
    \/ state[t] = "SHRINKING"
    \/ ~HasAlready(t, id, m) /\ Conflict(t, id, m)

(* Mutant of Unlock: the item stays in the transaction's lock set.         *)
Unlock_KeepsLockSet(t, id) ==
    /\ held[id][t] # NONE
    /\ held' = [held EXCEPT ![id][t] = NONE]
    /\ UNCHANGED << lock_set, state, granted >>

(* A GROWING transaction that unlocks goes to SHRINKING; commit and abort  *)
(* unlock after they have set COMMITTED or ABORTED.                        *)
Unlock(t, id) ==
    /\ held[id][t] # NONE
    /\ held' = [held EXCEPT ![id][t] = NONE]
    /\ lock_set' = [lock_set EXCEPT ![t] = @ \ {id}]
    /\ state' = [state EXCEPT ![t] = IF @ = "GROWING" THEN "SHRINKING" ELSE @]
    /\ UNCHANGED granted

----------------------------------------------------------------------------
(* The callers.                                                            *)

Ended(t) == state[t] \in {"COMMITTED", "ABORTED"}

(* Mutant of Begin: set_state(GROWING) is forgotten.                       *)
Begin_DefaultState(t) ==
    /\ Ended(t) /\ lock_set[t] = {}
    /\ state' = [state EXCEPT ![t] = "DEFAULT"]
    /\ granted' = [granted EXCEPT ![t] = [id \in DataId |-> {}]]
    /\ UNCHANGED << held, lock_set >>

(* TransactionManager::begin, once the locks of the last one are gone.     *)
Begin(t) ==
    /\ Ended(t) /\ lock_set[t] = {}
    /\ state' = [state EXCEPT ![t] = "GROWING"]
    /\ granted' = [granted EXCEPT ![t] = [id \in DataId |-> {}]]
    /\ UNCHANGED << held, lock_set >>

Acquire(t, id, m) == state[t] = "GROWING" /\ Lock(t, id, m)

(* No-wait: the caller of a refused lock aborts.                           *)
AbortOnConflict(t, id, m) ==
    /\ state[t] = "GROWING" /\ LockThrows(t, id, m)
    /\ state' = [state EXCEPT ![t] = "ABORTED"]
    /\ UNCHANGED << held, lock_set, granted >>

(* commit, or abort asked for by the client or after an error.             *)
End(t, outcome) ==
    /\ state[t] = "GROWING"
    /\ state' = [state EXCEPT ![t] = outcome]
    /\ UNCHANGED << held, lock_set, granted >>

(* The loop over lock_set_ at the end of commit and abort.                 *)
Release(t, id) == Ended(t) /\ id \in lock_set[t] /\ Unlock(t, id)

Init ==
    /\ held = [id \in DataId |-> [t \in Txn |-> NONE]]
    /\ lock_set = [t \in Txn |-> {}]
    /\ state = [t \in Txn |-> "ABORTED"]
    /\ granted = [t \in Txn |-> [id \in DataId |-> {}]]

Next ==
    \E t \in Txn :
        \/ Begin(t)
        \/ \E id \in DataId, m \in Request : Acquire(t, id, m) \/ AbortOnConflict(t, id, m)
        \/ \E outcome \in {"COMMITTED", "ABORTED"} : End(t, outcome)
        \/ \E id \in DataId : Release(t, id)

Spec == Init /\ [][Next]_lockVars

----------------------------------------------------------------------------
(* Properties.                                                             *)

TypeOK ==
    /\ held \in [DataId -> [Txn -> {S, X, IS, IX, NONE}]]
    /\ lock_set \in [Txn -> SUBSET DataId]
    /\ state \in [Txn -> {"GROWING", "SHRINKING", "COMMITTED", "ABORTED"}]
    /\ granted \in [Txn -> [DataId -> SUBSET LockMode]]

(* Two transactions never hold conflicting modes on one item, through all  *)
(* grants, upgrades and partly released lock sets.                         *)
HeldCompatible ==
    \A id \in DataId : \A t, u \in Txn :
        (t # u /\ held[id][t] # NONE /\ held[id][u] # NONE)
            => compatible(held[id][t], held[id][u])

(* lock_set_ lists what the lock table has for the transaction, so that    *)
(* the release loop of commit and abort leaves no lock behind.             *)
LockSetExact ==
    \A t \in Txn, id \in DataId : id \in lock_set[t] <=> held[id][t] # NONE

(* Strict two-phase locking: until a transaction has ended, its mode on an *)
(* item covers every mode it was granted there.                            *)
GrantsKept ==
    \A t \in Txn, id \in DataId :
        state[t] = "GROWING" =>
            \A m \in granted[t][id] : held[id][t] # NONE /\ is_stronger_or_equal(held[id][t], m)
=============================================================================
