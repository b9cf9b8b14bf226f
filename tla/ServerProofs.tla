---------------------------- MODULE ServerProofs ----------------------------
(***************************************************************************)
(* For any number of connections, tables and requests: the server uses the *)
(* lock manager as LockManager says, a handler works for its own client,   *)
(* leaves no lock or change behind, and never commits after an error.      *)
(***************************************************************************)
EXTENDS Server, LockManagerProofs

(* A thread that has not copied sockfd yet has the accept loop waiting for *)
(* sockfd_mutex, so that the loop cannot overwrite the variable.           *)
HandOver ==
    /\ main = "accept" => sockfd_mutex /\ \A c \in Txn : pc[c] # "start"
    /\ \A c \in Txn :
        /\ pc[c] = "start" => sockfd_mutex /\ sockfd = c
        /\ conn[c] # "accepted" => pc[c] = "none"

(* The thread in do_analyze has buffer_mutex, and the parse tree is its own. *)
Parsing == \A c \in Txn : pc[c] = "analyze" => buffer_mutex = c /\ parse_tree = c

(* Where a handler may be while its transaction is open, and where once it *)
(* has ended; no handler meets a SHRINKING transaction.                    *)
Phases ==
    \A c \in Txn :
        /\ state[c] # "SHRINKING"
        /\ pc[c] \in {"parse", "analyze", "execute", "access", "abort"} => state[c] = "GROWING"
        /\ pc[c] \in {"none", "start", "release", "release_auto"} => Ended(c)
        /\ Ended(c) => dirty[c] = {}
        /\ Ended(c) /\ pc[c] \notin {"release", "release_auto"} => lock_set[c] = {}

(* After an error the handler is on its way to abort, or has aborted.      *)
Failing == \A c \in Txn : failed[c] => pc[c] = "abort" \/ state[c] = "ABORTED"

ServerInv ==
    /\ ServerTypeOK /\ HandOver /\ Parsing /\ OwnWork
    /\ Phases /\ NoStrayLocks /\ Failing

----------------------------------------------------------------------------
(* lock never takes an exclusive lock away: it covers every request of its *)
(* own transaction, and others have none on that item.                     *)
LEMMA LockKeepsExclusive ==
    ASSUME TypeOK, NEW t \in Txn, NEW id \in DataId, NEW m, Lock(t, id, m),
           NEW u \in Txn, NEW i \in DataId, held[i][u] = X
    PROVE  held'[i][u] = X
<1>1. CASE HasAlready(t, id, m)
  BY <1>1 DEF Lock, AfterLock
<1>2. CASE ~HasAlready(t, id, m)
  <2>1. <<id, t>> # <<i, u>>
    BY <1>2, LockAssumption DEF HasAlready, is_stronger_or_equal, LockMode
  <2> QED BY <1>2, <2>1 DEF Lock, AfterLock, TypeOK
<1> QED BY <1>1, <1>2

(* What a handler does to the lock table is a step of the lock manager: it *)
(* asks for locks only while its transaction is open, and releases them    *)
(* only after it has ended.                                                *)
LEMMA LockManagerStep ==
    ASSUME ServerInv, [ServerNext]_serverVars PROVE [Next]_lockVars
<1> SUFFICES ASSUME ServerNext, lockVars' # lockVars PROVE Next
  BY DEF serverVars
<1> PICK c \in Txn :
      \/ \E r \in Requests : Receive(c, r)
      \/ \E id \in DataId : LockForStatement(c, id)
      \/ CommitStatement(c) \/ Abort(c) \/ ReleaseLocks(c) \/ AutoCommit(c)
  BY DEF ServerNext, Serve, LockSockfd, AcceptError, sigint_handler, connect, Accept,
         CreateError, ReadFd, Disconnect, yyparse, do_analyze, LockRefused, Access,
         AccessFails, OtherStatement, BeginStatement, RollbackStatement, Finish, Reply,
         serverVars
<1>1. CASE \E r \in Requests : Receive(c, r)
  BY <1>1 DEF Receive, Next
<1>2. ASSUME NEW id \in DataId, LockForStatement(c, id) PROVE Next
  <2>1. state[c] = "GROWING"
    BY <1>2 DEF LockForStatement, At, ServerInv, Phases
  <2> QED BY <1>2, <2>1 DEF LockForStatement, Acquire, Next
<1>3. CASE CommitStatement(c) \/ Abort(c) \/ AutoCommit(c)
  BY <1>3 DEF CommitStatement, Abort, AutoCommit, EndTxn, Next
<1>4. CASE ReleaseLocks(c)
  BY <1>4 DEF ReleaseLocks, Next
<1> QED BY <1>1, <1>2, <1>3, <1>4

(* Connections, the accept loop and the hand-over of sockfd keep the       *)
(* invariant.                                                              *)
LEMMA AcceptStep ==
    ASSUME ServerInv, TypeOK', NEW c \in Txn
    PROVE  ( \/ connect(c)
             \/ Accept(c)
             \/ CreateError(c)
             \/ ReadFd(c) )
           => ServerInv'
<1> USE ServerAssumption
    DEF ServerInv, ServerTypeOK, HandOver, GoTo, At, Ended,
        lockVars, acceptVars, parseVars, sessionVars
<1>1. ASSUME connect(c) PROVE ServerInv'
  BY <1>1 DEF Parsing, OwnWork, Phases, NoStrayLocks, Failing, TypeOK, connect
<1>2. ASSUME Accept(c) PROVE ServerInv'
  <2>1. ServerTypeOK'
    BY <1>2 DEF Parsing, Accept
  <2>2. HandOver' /\ Parsing' /\ OwnWork'
    BY <1>2 DEF Parsing, OwnWork, Accept
  <2>3. Phases' /\ NoStrayLocks'
    BY <1>2 DEF Phases, NoStrayLocks, TypeOK, Accept
  <2>4. Failing'
    BY <1>2 DEF Failing, Phases, TypeOK, Accept
  <2> QED BY <2>1, <2>2, <2>3, <2>4
<1>3. ASSUME CreateError(c) PROVE ServerInv'
  BY <1>3 DEF Parsing, OwnWork, Phases, NoStrayLocks, Failing, TypeOK, CreateError
<1>4. ASSUME ReadFd(c) PROVE ServerInv'
  <2>1. ServerTypeOK'
    BY <1>4 DEF Parsing, ReadFd
  <2>2. HandOver' /\ Parsing' /\ OwnWork'
    BY <1>4 DEF Parsing, OwnWork, ReadFd
  <2>3. Phases' /\ NoStrayLocks'
    BY <1>4 DEF Phases, NoStrayLocks, TypeOK, ReadFd
  <2>4. Failing'
    BY <1>4 DEF Failing, Phases, TypeOK, ReadFd
  <2> QED BY <2>1, <2>2, <2>3, <2>4
<1> QED BY <1>1, <1>2, <1>3, <1>4

(* So do reading a request, parsing and do_analyze ...                     *)
LEMMA ParseStep ==
    ASSUME ServerInv, TypeOK', NEW c \in Txn
    PROVE  ( \/ \E r \in Requests : Receive(c, r)
             \/ Disconnect(c)
             \/ yyparse(c)
             \/ do_analyze(c) )
           => ServerInv'
<1> USE ServerAssumption
    DEF ServerInv, ServerTypeOK, HandOver, GoTo, At, Ended,
        lockVars, acceptVars, parseVars, sessionVars
<1>1. ASSUME NEW r \in Requests, Receive(c, r) PROVE ServerInv'
  <2>1. ServerTypeOK'
    BY <1>1 DEF Parsing, Receive, Begin, Requests
  <2>2. HandOver' /\ Parsing' /\ OwnWork'
    BY <1>1 DEF Parsing, OwnWork, Receive, Begin, Requests
  <2>3. Phases' /\ NoStrayLocks'
    BY <1>1 DEF Phases, NoStrayLocks, TypeOK, Receive, Begin, Requests
  <2>4. Failing'
    BY <1>1 DEF Failing, Phases, TypeOK, Receive, Begin, Requests
  <2> QED BY <2>1, <2>2, <2>3, <2>4
<1>2. ASSUME Disconnect(c) PROVE ServerInv'
  BY <1>2 DEF Parsing, OwnWork, Phases, NoStrayLocks, Failing, TypeOK, Disconnect
<1>3. ASSUME yyparse(c) PROVE ServerInv'
  <2>1. ServerTypeOK'
    BY <1>3 DEF Parsing, yyparse
  <2>2. HandOver' /\ Parsing' /\ OwnWork'
    BY <1>3 DEF Parsing, OwnWork, yyparse
  <2>3. Phases' /\ NoStrayLocks'
    BY <1>3 DEF Phases, NoStrayLocks, TypeOK, yyparse
  <2>4. Failing'
    BY <1>3 DEF Failing, Phases, TypeOK, yyparse
  <2> QED BY <2>1, <2>2, <2>3, <2>4
<1>4. ASSUME do_analyze(c) PROVE ServerInv'
  <2>1. ServerTypeOK'
    BY <1>4 DEF Parsing, do_analyze
  <2>2. HandOver' /\ Parsing' /\ OwnWork'
    BY <1>4 DEF Parsing, OwnWork, do_analyze
  <2>3. Phases' /\ NoStrayLocks'
    BY <1>4 DEF Phases, NoStrayLocks, TypeOK, do_analyze
  <2>4. Failing'
    BY <1>4 DEF Failing, Phases, TypeOK, do_analyze
  <2> QED BY <2>1, <2>2, <2>3, <2>4
<1> QED BY <1>1, <1>2, <1>3, <1>4

(* ... the execution of a statement, with its errors ...                   *)
LEMMA ExecuteStep ==
    ASSUME ServerInv, TypeOK', NEW c \in Txn
    PROVE  ( \/ \E id \in DataId : LockForStatement(c, id)
             \/ \E id \in DataId : LockRefused(c, id)
             \/ \E id \in DataId : Access(c, id)
             \/ \E id \in DataId : AccessFails(c, id)
             \/ OtherStatement(c)
             \/ BeginStatement(c)
             \/ RollbackStatement(c) )
           => ServerInv'
<1> USE ServerAssumption
    DEF ServerInv, ServerTypeOK, HandOver, GoTo, At, Ended,
        lockVars, acceptVars, parseVars, sessionVars
<1>1. ASSUME NEW id \in DataId, LockForStatement(c, id) PROVE ServerInv'
  <2>1. ServerTypeOK'
    BY <1>1 DEF Parsing, LockForStatement, Lock
  <2>2. HandOver' /\ Parsing' /\ OwnWork'
    BY <1>1 DEF Parsing, OwnWork, LockForStatement, Lock
  <2>3. Phases'
    BY <1>1 DEF Phases, TypeOK, LockForStatement, Lock
  <2>4. NoStrayLocks'
    <3>1. \A x \in Txn, i \in DataId : held[i][x] = X => held'[i][x] = X
      BY <1>1, LockKeepsExclusive DEF LockForStatement
    <3> QED BY <1>1, <3>1 DEF NoStrayLocks, Phases, TypeOK, LockForStatement, Lock
  <2>5. Failing'
    BY <1>1 DEF Failing, Phases, TypeOK, LockForStatement, Lock
  <2> QED BY <2>1, <2>2, <2>3, <2>4, <2>5
<1>2. ASSUME NEW id \in DataId, LockRefused(c, id) PROVE ServerInv'
  <2>1. ServerTypeOK'
    BY <1>2 DEF Parsing, LockRefused
  <2>2. HandOver' /\ Parsing' /\ OwnWork'
    BY <1>2 DEF Parsing, OwnWork, LockRefused
  <2>3. Phases' /\ NoStrayLocks'
    BY <1>2 DEF Phases, NoStrayLocks, TypeOK, LockRefused
  <2>4. Failing'
    BY <1>2 DEF Failing, Phases, TypeOK, LockRefused
  <2> QED BY <2>1, <2>2, <2>3, <2>4
<1>3. ASSUME NEW id \in DataId, Access(c, id) PROVE ServerInv'
  <2>1. ServerTypeOK'
    BY <1>3 DEF Parsing, Access, MayChange
  <2>2. HandOver' /\ Parsing' /\ OwnWork'
    BY <1>3 DEF Parsing, OwnWork, Access, MayChange
  <2>3. Phases' /\ NoStrayLocks'
    BY <1>3 DEF Phases, NoStrayLocks, TypeOK, Access, MayChange
  <2>4. Failing'
    BY <1>3 DEF Failing, Phases, TypeOK, Access, MayChange
  <2> QED BY <2>1, <2>2, <2>3, <2>4
<1>4. ASSUME NEW id \in DataId, AccessFails(c, id) PROVE ServerInv'
  <2>1. ServerTypeOK'
    BY <1>4 DEF Parsing, AccessFails, MayChange
  <2>2. HandOver' /\ Parsing' /\ OwnWork'
    BY <1>4 DEF Parsing, OwnWork, AccessFails, MayChange
  <2>3. Phases' /\ NoStrayLocks'
    BY <1>4 DEF Phases, NoStrayLocks, TypeOK, AccessFails, MayChange
  <2>4. Failing'
    BY <1>4 DEF Failing, Phases, TypeOK, AccessFails, MayChange
  <2> QED BY <2>1, <2>2, <2>3, <2>4
<1>5. ASSUME OtherStatement(c) PROVE ServerInv'
  <2>1. ServerTypeOK'
    BY <1>5 DEF Parsing, OtherStatement
  <2>2. HandOver' /\ Parsing' /\ OwnWork'
    BY <1>5 DEF Parsing, OwnWork, OtherStatement
  <2>3. Phases' /\ NoStrayLocks'
    BY <1>5 DEF Phases, NoStrayLocks, TypeOK, OtherStatement
  <2>4. Failing'
    <3>1. CASE GoTo(c, "finish") /\ UNCHANGED failed
      BY <1>5, <3>1 DEF Failing, Phases, OtherStatement
    <3>2. CASE GoTo(c, "abort") /\ failed' = [failed EXCEPT ![c] = TRUE]
      BY <1>5, <3>2 DEF Failing, OtherStatement
    <3> QED BY <1>5, <3>1, <3>2 DEF OtherStatement
  <2> QED BY <2>1, <2>2, <2>3, <2>4
<1>6. ASSUME BeginStatement(c) PROVE ServerInv'
  BY <1>6 DEF Parsing, OwnWork, Phases, NoStrayLocks, Failing, TypeOK, BeginStatement
<1>7. ASSUME RollbackStatement(c) PROVE ServerInv'
  BY <1>7 DEF Parsing, OwnWork, Phases, NoStrayLocks, Failing, TypeOK, RollbackStatement
<1> QED BY <1>1, <1>2, <1>3, <1>4, <1>5, <1>6, <1>7

(* ... and commit, abort, the reply and the autocommit after it.           *)
LEMMA EndStep ==
    ASSUME ServerInv, TypeOK', NEW c \in Txn
    PROVE  ( \/ CommitStatement(c)
             \/ Abort(c)
             \/ ReleaseLocks(c)
             \/ Finish(c)
             \/ Reply(c)
             \/ AutoCommit(c) )
           => ServerInv'
<1> USE ServerAssumption
    DEF ServerInv, ServerTypeOK, HandOver, GoTo, At, Ended,
        lockVars, acceptVars, parseVars, sessionVars
<1>1. ASSUME CommitStatement(c) PROVE ServerInv'
  BY <1>1 DEF Parsing, OwnWork, Phases, NoStrayLocks, Failing, TypeOK, CommitStatement,
     EndTxn, End
<1>2. ASSUME Abort(c) PROVE ServerInv'
  BY <1>2 DEF Parsing, OwnWork, Phases, NoStrayLocks, Failing, TypeOK, Abort, EndTxn, End
<1>3. ASSUME ReleaseLocks(c) PROVE ServerInv'
  <2>1. ServerTypeOK'
    BY <1>3 DEF Parsing, ReleaseLocks, Release, Unlock
  <2>2. HandOver' /\ Parsing' /\ OwnWork'
    BY <1>3 DEF Parsing, OwnWork, ReleaseLocks, Release, Unlock
  <2>3. Phases' /\ NoStrayLocks' /\ Failing'
    <3>1. Ended(c) /\ dirty[c] = {}
      BY <1>3 DEF Phases, ReleaseLocks
    <3>2. CASE /\ lock_set[c] = {} /\ UNCHANGED lockVars
               /\ GoTo(c, IF pc[c] = "release" THEN "finish" ELSE "read")
      BY <1>3, <3>1, <3>2 DEF ReleaseLocks, Phases, NoStrayLocks, Failing, TypeOK
    <3>3. ASSUME NEW id \in DataId, Release(c, id), UNCHANGED pc
          PROVE  Phases' /\ NoStrayLocks' /\ Failing'
      <4>1. state' = state
        BY <3>1, <3>3 DEF Release, Unlock, TypeOK
      <4> QED BY <1>3, <3>1, <3>3, <4>1
        DEF ReleaseLocks, Release, Unlock, Phases, NoStrayLocks, Failing, TypeOK
    <3> QED BY <1>3, <3>2, <3>3 DEF ReleaseLocks
  <2> QED BY <2>1, <2>2, <2>3
<1>4. ASSUME Finish(c) PROVE ServerInv'
  BY <1>4 DEF Parsing, OwnWork, Phases, NoStrayLocks, Failing, TypeOK, Finish
<1>5. ASSUME Reply(c) PROVE ServerInv'
  <2>1. ServerTypeOK'
    BY <1>5 DEF Parsing, Reply
  <2>2. HandOver' /\ Parsing' /\ OwnWork'
    BY <1>5 DEF Parsing, OwnWork, Reply
  <2>3. Phases' /\ NoStrayLocks'
    BY <1>5 DEF Phases, NoStrayLocks, TypeOK, Reply
  <2>4. Failing'
    BY <1>5 DEF Failing, Phases, TypeOK, Reply
  <2> QED BY <2>1, <2>2, <2>3, <2>4
<1>6. ASSUME AutoCommit(c) PROVE ServerInv'
  <2>1. ServerTypeOK'
    BY <1>6 DEF Parsing, AutoCommit, EndTxn, End
  <2>2. HandOver' /\ Parsing' /\ OwnWork'
    BY <1>6 DEF Parsing, OwnWork, AutoCommit, EndTxn, End
  <2>3. Phases' /\ NoStrayLocks' /\ Failing'
    <3>1. CASE txn_mode[c] \/ Ended(c)
      <4>1. Phases' /\ NoStrayLocks'
        <5>1. state[c] = "GROWING" => txn_mode[c]
          BY <3>1
        <5> QED BY <1>6, <3>1, <5>1 DEF AutoCommit, Phases, NoStrayLocks, TypeOK
      <4>2. Failing'
        BY <1>6, <3>1 DEF AutoCommit, Failing
      <4> QED BY <4>1, <4>2
    <3>2. CASE ~(txn_mode[c] \/ Ended(c))
      <4>1. Phases' /\ NoStrayLocks'
        BY <1>6, <3>2 DEF AutoCommit, EndTxn, End, Phases, NoStrayLocks, TypeOK
      <4>2. ~failed[c]
        BY <1>6, <3>2 DEF AutoCommit, Failing
      <4>3. Failing'
        <5> SUFFICES ASSUME NEW d \in Txn, failed[d]
                     PROVE  pc'[d] = "abort" \/ state'[d] = "ABORTED"
          BY <1>6, <3>2 DEF AutoCommit, EndTxn, Failing
        <5>1. d # c
          BY <4>2
        <5> QED BY <1>6, <3>2, <5>1 DEF AutoCommit, EndTxn, End, Failing, TypeOK
      <4> QED BY <4>1, <4>3
    <3> QED BY <3>1, <3>2
  <2> QED BY <2>1, <2>2, <2>3
<1> QED BY <1>1, <1>2, <1>3, <1>4, <1>5, <1>6

(* Every step of the server keeps the invariant.                           *)
LEMMA ServerStep == ServerInv /\ [ServerNext]_serverVars => ServerInv'
<1> SUFFICES ASSUME ServerInv, [ServerNext]_serverVars PROVE ServerInv'
  OBVIOUS
<1>1. TypeOK'
  BY LockManagerStep, TypeStep DEF ServerInv, ServerTypeOK
<1>2. CASE UNCHANGED serverVars
  BY <1>1, <1>2 DEF serverVars, lockVars, acceptVars, parseVars, sessionVars, ServerInv,
     ServerTypeOK, HandOver, Parsing, OwnWork, Phases, NoStrayLocks, Failing, Ended
<1>3. CASE LockSockfd \/ AcceptError \/ sigint_handler
  <2> USE DEF LockSockfd, AcceptError, sigint_handler, lockVars, parseVars, sessionVars, ServerInv
  <2>1. ServerTypeOK' /\ HandOver'
    BY <1>1, <1>3 DEF ServerTypeOK, HandOver
  <2>2. Parsing' /\ OwnWork' /\ Phases' /\ NoStrayLocks' /\ Failing'
    BY <1>3 DEF Parsing, OwnWork, Phases, NoStrayLocks, Failing, Ended
  <2> QED BY <2>1, <2>2
<1>4. ASSUME NEW c \in Txn,
             \/ connect(c) \/ Accept(c) \/ CreateError(c)
             \/ ReadFd(c) \/ Disconnect(c) \/ Serve(c)
             \/ \E r \in Requests : Receive(c, r)
      PROVE  ServerInv'
  BY <1>1, <1>4, AcceptStep, ParseStep, ExecuteStep, EndStep DEF Serve
<1> QED BY <1>2, <1>3, <1>4 DEF ServerNext

(* The server starts in the invariant and stays in it.                     *)
LEMMA ServerInvariant == ServerSpec => []ServerInv
<1>1. ServerInit => ServerInv
  <2> SUFFICES ASSUME ServerInit PROVE ServerInv
    OBVIOUS
  <2>1. ServerTypeOK
    BY DEF ServerInit, Init, TypeOK, ServerTypeOK
  <2>2. HandOver /\ Parsing /\ OwnWork /\ Failing
    BY DEF ServerInit, HandOver, Parsing, OwnWork, Failing
  <2>3. Phases /\ NoStrayLocks
    BY DEF ServerInit, Init, Phases, NoStrayLocks, Ended
  <2> QED BY <2>1, <2>2, <2>3 DEF ServerInv
<1> QED BY <1>1, ServerStep, PTL DEF ServerSpec

----------------------------------------------------------------------------
(* Handlers use the lock manager as LockManager says: no lock call outside *)
(* an open transaction, no early release, no begin with locks still held.  *)
THEOREM ImplementsLockManager == ServerSpec => Spec
<1>1. ServerInit => Init
  BY DEF ServerInit
<1>2. ServerInv /\ [ServerNext]_serverVars => [Next]_lockVars
  BY LockManagerStep
<1> QED BY <1>1, <1>2, ServerInvariant, PTL DEF ServerSpec, Spec

(* Two connections never hold conflicting locks on a table, whatever their *)
(* handlers do, and however statements fail or clients go away.            *)
THEOREM ServerCompatible == ServerSpec => []HeldCompatible
BY ImplementsLockManager, Compatible, PTL

(* The lock sets the release loops of commit and abort go through are      *)
(* exact in the server.                                                    *)
THEOREM ServerLockSets == ServerSpec => []LockSetExact
BY ImplementsLockManager, LockSets, PTL

(* A thread serves the connection it was created for and executes its own  *)
(* client's statement, though sockfd and ast::parse_tree are shared.       *)
THEOREM WorksForItsClient == ServerSpec => []OwnWork
BY ServerInvariant, PTL DEF ServerInv

(* Between requests and after the handler's loop there are no stray locks, *)
(* and changes not committed yet are under the exclusive lock.             *)
THEOREM LeavesNoLocks == ServerSpec => []NoStrayLocks
BY ServerInvariant, PTL DEF ServerInv

(* A transaction in which a statement threw is aborted: neither COMMIT nor *)
(* the autocommit of client_handler commits it.                            *)
THEOREM FailedAborts == ServerSpec => []FailedNeverCommits
<1>1. ServerInv => FailedNeverCommits
  BY DEF ServerInv, Failing, Phases, FailedNeverCommits
<1> QED BY <1>1, ServerInvariant, PTL
=============================================================================
