------------------------------- MODULE Server -------------------------------
(***************************************************************************)
(* The server process (src/rmdb.cpp): the accept loop of start_server, one *)
(* client_handler thread per connection, and what they share, over         *)
(* LockManager.                                                            *)
(*                                                                         *)
(* The loop hands a connection to its new thread in a variable of its own, *)
(* sockfd: it locks sockfd_mutex before it accepts, and the thread unlocks *)
(* it once it has copied the variable.  The scanner's input and the parse  *)
(* tree are globals, guarded by buffer_mutex from yy_scan_string to the    *)
(* end of do_analyze.  A transaction belongs to its handler; statements    *)
(* outside BEGIN are committed after the reply.                            *)
(*                                                                         *)
(* Txn is the set of connections: a connection is made once, and its       *)
(* transactions follow one another.  sockfd, parse_tree, query, req and    *)
(* txn_mode are cleared where the code has read them for the last time.    *)
(* The end of the process (exit, a client's "crash", a kill) ends the      *)
(* behaviour.                                                              *)
(***************************************************************************)
EXTENDS LockManager

VARIABLES
    main,           \* where start_server is
    sockfd,         \* its local variable: the connection last accepted
    sockfd_mutex,   \* locked?
    conn,           \* a connection is "none", "backlog" (in listen's queue) or "accepted"
    pc,             \* where the thread created for a connection is
    fd,             \* client_handler's fd: the connection it serves
    req,            \* data_recv: a mode (a statement that locks) or another request
    txn_mode,       \* Transaction::txn_mode_: inside BEGIN
    buffer_mutex,   \* who holds it
    parse_tree,     \* ast::parse_tree: whose statement it is
    query,          \* whose statement the handler goes on with
    dirty,          \* tables with changes of a transaction that has not ended
    failed          \* ghost: a statement of the transaction has thrown

ASSUME ServerAssumption == NONE \notin Txn

acceptVars  == << main, sockfd, sockfd_mutex, conn >>
parseVars   == << buffer_mutex, parse_tree, query >>
sessionVars == << pc, fd, req, txn_mode, dirty, failed >>
serverVars  == << lockVars, acceptVars, parseVars, sessionVars >>

(* "bad" has no parse tree; "unknown" does not pass do_analyze; "other" is  *)
(* a statement that takes no lock: SHOW, DESC, HELP and DDL.               *)
Requests == Request \cup {"begin", "commit", "rollback", "bad", "unknown", "other"}

----------------------------------------------------------------------------
(* start_server.                                                           *)

connect(c) ==
    /\ conn[c] = "none"
    /\ conn' = [conn EXCEPT ![c] = "backlog"]
    /\ UNCHANGED << lockVars, main, sockfd, sockfd_mutex, parseVars, sessionVars >>

LockSockfd ==
    /\ main \in {"lock", "retry"} /\ ~sockfd_mutex
    /\ main' = "accept" /\ sockfd_mutex' = TRUE
    /\ UNCHANGED << lockVars, sockfd, conn, parseVars, sessionVars >>

(* accept, and pthread_create.                                             *)
Accept(c) ==
    /\ main = "accept" /\ conn[c] = "backlog"
    /\ sockfd' = c
    /\ conn' = [conn EXCEPT ![c] = "accepted"]
    /\ pc' = [pc EXCEPT ![c] = "start"]
    /\ main' = "lock"
    /\ UNCHANGED << lockVars, sockfd_mutex, parseVars, fd, req, txn_mode, dirty, failed >>

(* accept returns -1: continue, with the mutex locked.  "retry" is the same *)
(* place as "lock", after an error.                                        *)
AcceptError ==
    /\ main = "accept"
    /\ main' = "retry"
    /\ UNCHANGED << lockVars, sockfd, sockfd_mutex, conn, parseVars, sessionVars >>

(* pthread_create fails: the loop is left.                                 *)
CreateError(c) ==
    /\ main = "accept" /\ conn[c] = "backlog"
    /\ sockfd' = c
    /\ conn' = [conn EXCEPT ![c] = "accepted"]
    /\ main' = "closing"
    /\ UNCHANGED << lockVars, sockfd_mutex, parseVars, sessionVars >>

(* "closing" is close_db and the return from main; the handlers run on.    *)
(* SIGINT, while the loop waits in pthread_mutex_lock or in accept.        *)
sigint_handler ==
    /\ main \in {"lock", "retry", "accept"}
    /\ main' = "closing"
    /\ UNCHANGED << lockVars, sockfd, sockfd_mutex, conn, parseVars, sessionVars >>

----------------------------------------------------------------------------
(* client_handler.                                                         *)

At(c, place) == pc[c] = place

GoTo(c, place) == pc' = [pc EXCEPT ![c] = place]

(* Mutant of ReadFd: the mutex stays locked.                               *)
ReadFd_KeepsMutex(c) ==
    /\ At(c, "start") /\ GoTo(c, "read")
    /\ fd' = [fd EXCEPT ![c] = sockfd] /\ sockfd' = NONE
    /\ UNCHANGED << lockVars, main, sockfd_mutex, conn, parseVars, req, txn_mode, dirty, failed >>

ReadFd(c) ==
    /\ At(c, "start") /\ GoTo(c, "read")
    /\ fd' = [fd EXCEPT ![c] = sockfd]
    /\ sockfd_mutex' = FALSE /\ sockfd' = NONE
    /\ UNCHANGED << lockVars, main, conn, parseVars, req, txn_mode, dirty, failed >>

(* A request comes in; SetTransaction begins a transaction unless there is *)
(* one that has not ended.                                                 *)
Receive(c, r) ==
    /\ At(c, "read") /\ GoTo(c, "parse")
    /\ req' = [req EXCEPT ![c] = r]
    /\ IF Ended(c)
       THEN /\ Begin(c)
            /\ txn_mode' = [txn_mode EXCEPT ![c] = FALSE]
            /\ failed' = [failed EXCEPT ![c] = FALSE]
       ELSE UNCHANGED << lockVars, txn_mode, failed >>
    /\ UNCHANGED << acceptVars, parseVars, fd, dirty >>

(* read returns 0 or -1, or the client says "exit": the loop is left.      *)
Disconnect(c) ==
    /\ At(c, "read") /\ GoTo(c, "gone")
    /\ UNCHANGED << lockVars, acceptVars, parseVars, fd, req, txn_mode, dirty, failed >>

(* pthread_mutex_lock, yy_scan_string, parse_tree = nullptr, yyparse.      *)
yyparse(c) ==
    /\ At(c, "parse") /\ buffer_mutex = NONE
    /\ buffer_mutex' = c
    /\ IF req[c] = "bad" THEN GoTo(c, "finish") /\ parse_tree' = NONE
       ELSE GoTo(c, "analyze") /\ parse_tree' = c
    /\ UNCHANGED << lockVars, acceptVars, query, fd, req, txn_mode, dirty, failed >>

(* Mutant of do_analyze: the mutex is free once the statement is parsed.   *)
do_analyze_Unguarded(c) ==
    \/ /\ At(c, "analyze") /\ buffer_mutex = c
       /\ buffer_mutex' = NONE
       /\ UNCHANGED << lockVars, acceptVars, parse_tree, query, sessionVars >>
    \/ /\ At(c, "analyze") /\ buffer_mutex # c /\ parse_tree # NONE
       /\ query' = [query EXCEPT ![c] = parse_tree]
       /\ GoTo(c, "execute")
       /\ UNCHANGED << lockVars, acceptVars, buffer_mutex, parse_tree,
                       fd, req, txn_mode, dirty, failed >>

(* The query is there and the mutex is unlocked, or RMDBError is caught    *)
(* with the mutex locked.                                                  *)
do_analyze(c) ==
    /\ At(c, "analyze")
    /\ query' = [query EXCEPT ![c] = parse_tree] /\ parse_tree' = NONE
    /\ IF req[parse_tree] = "unknown"
       THEN /\ GoTo(c, "abort") /\ failed' = [failed EXCEPT ![c] = TRUE]
            /\ UNCHANGED buffer_mutex
       ELSE GoTo(c, "execute") /\ buffer_mutex' = NONE /\ UNCHANGED failed
    /\ UNCHANGED << lockVars, acceptVars, fd, req, txn_mode, dirty >>

(* Planning and execution: a statement asks for the locks of its tables ... *)
LockForStatement(c, id) ==
    /\ At(c, "execute") /\ req[query[c]] \in Request
    /\ Lock(c, id, req[query[c]]) /\ (GoTo(c, "execute") \/ GoTo(c, "access"))
    /\ UNCHANGED << acceptVars, parseVars, fd, req, txn_mode, dirty, failed >>

(* ... or TransactionAbortException is caught ...                          *)
LockRefused(c, id) ==
    /\ At(c, "execute") /\ req[query[c]] \in Request
    /\ LockThrows(c, id, req[query[c]]) /\ GoTo(c, "abort")
    /\ failed' = [failed EXCEPT ![c] = TRUE]
    /\ UNCHANGED << lockVars, acceptVars, parseVars, fd, req, txn_mode, dirty >>

(* ... and then changes rows, if the lock is the exclusive one.            *)
MayChange(c, id) ==
    dirty' \in {dirty} \cup (IF held[id][c] = X THEN {[dirty EXCEPT ![c] = @ \cup {id}]} ELSE {})

Access(c, id) ==
    /\ At(c, "access") /\ id \in lock_set[c] /\ GoTo(c, "finish")
    /\ MayChange(c, id)
    /\ UNCHANGED << lockVars, acceptVars, parseVars, fd, req, txn_mode, failed >>

(* Mutant of AccessFails: RMDBError is reported, and that is all.          *)
AccessFails_NoAbort(c, id) ==
    /\ At(c, "access") /\ GoTo(c, "finish")
    /\ MayChange(c, id)
    /\ failed' = [failed EXCEPT ![c] = TRUE]
    /\ UNCHANGED << lockVars, acceptVars, parseVars, fd, req, txn_mode >>

(* RMDBError is caught, after a part of the rows has been changed.         *)
AccessFails(c, id) ==
    /\ At(c, "access") /\ id \in lock_set[c] /\ GoTo(c, "abort")
    /\ MayChange(c, id)
    /\ failed' = [failed EXCEPT ![c] = TRUE]
    /\ UNCHANGED << lockVars, acceptVars, parseVars, fd, req, txn_mode >>

(* run_mutli_query and run_cmd_utility; the first may throw RMDBError.     *)
OtherStatement(c) ==
    /\ At(c, "execute") /\ req[query[c]] = "other"
    /\ \/ GoTo(c, "finish") /\ UNCHANGED failed
       \/ GoTo(c, "abort") /\ failed' = [failed EXCEPT ![c] = TRUE]
    /\ UNCHANGED << lockVars, acceptVars, parseVars, fd, req, txn_mode, dirty >>

BeginStatement(c) ==
    /\ At(c, "execute") /\ req[query[c]] = "begin" /\ GoTo(c, "finish")
    /\ txn_mode' = [txn_mode EXCEPT ![c] = TRUE]
    /\ UNCHANGED << lockVars, acceptVars, parseVars, fd, req, dirty, failed >>

RollbackStatement(c) ==
    /\ At(c, "execute") /\ req[query[c]] = "rollback" /\ GoTo(c, "abort")
    /\ UNCHANGED << lockVars, acceptVars, parseVars, fd, req, txn_mode, dirty, failed >>

(* commit and abort, up to the release of the locks.                       *)
EndTxn(c, outcome) ==
    /\ End(c, outcome)
    /\ dirty' = [dirty EXCEPT ![c] = {}]
    /\ txn_mode' = [txn_mode EXCEPT ![c] = FALSE]
    /\ UNCHANGED << acceptVars, parseVars, fd, req, failed >>

CommitStatement(c) ==
    /\ At(c, "execute") /\ req[query[c]] = "commit" /\ GoTo(c, "release")
    /\ EndTxn(c, "COMMITTED")

(* Mutant of Abort: nobody releases the locks.                             *)
Abort_KeepsLocks(c) == At(c, "abort") /\ GoTo(c, "finish") /\ EndTxn(c, "ABORTED")

Abort(c) == At(c, "abort") /\ GoTo(c, "release") /\ EndTxn(c, "ABORTED")

(* The loop over the lock set.                                             *)
ReleaseLocks(c) ==
    /\ At(c, "release") \/ At(c, "release_auto")
    /\ \/ /\ \E id \in DataId : Release(c, id)
          /\ UNCHANGED pc
       \/ /\ lock_set[c] = {}
          /\ GoTo(c, IF pc[c] = "release" THEN "finish" ELSE "read")
          /\ UNCHANGED lockVars
    /\ UNCHANGED << acceptVars, parseVars, fd, req, txn_mode, dirty, failed >>

(* Mutant of Finish: the mutex is only unlocked where do_analyze returns.  *)
Finish_KeepsMutex(c) ==
    /\ At(c, "finish") /\ GoTo(c, "reply")
    /\ UNCHANGED << lockVars, acceptVars, parseVars, fd, req, txn_mode, dirty, failed >>

(* finish_analyze == false.                                                *)
Finish(c) ==
    /\ At(c, "finish") /\ GoTo(c, "reply")
    /\ buffer_mutex' = IF buffer_mutex = c THEN NONE ELSE buffer_mutex
    /\ query' = [query EXCEPT ![c] = NONE] /\ req' = [req EXCEPT ![c] = NONE]
    /\ UNCHANGED << lockVars, acceptVars, parse_tree, fd, txn_mode, dirty, failed >>

(* write: the reply is out, or the connection is gone and the loop is left.*)
Reply(c) ==
    /\ At(c, "reply") /\ (GoTo(c, "autocommit") \/ GoTo(c, "gone"))
    /\ UNCHANGED << lockVars, acceptVars, parseVars, fd, req, txn_mode, dirty, failed >>

(* Only a statement outside BEGIN that left its transaction open.          *)
AutoCommit(c) ==
    /\ At(c, "autocommit")
    /\ IF txn_mode[c] \/ Ended(c)
       THEN /\ GoTo(c, "read")
            /\ UNCHANGED << lockVars, acceptVars, parseVars, fd, req, txn_mode, dirty, failed >>
       ELSE GoTo(c, "release_auto") /\ EndTxn(c, "COMMITTED")

----------------------------------------------------------------------------
ServerInit ==
    /\ Init
    /\ main = "lock" /\ sockfd = NONE /\ sockfd_mutex = FALSE
    /\ conn = [c \in Txn |-> "none"]
    /\ pc = [c \in Txn |-> "none"]
    /\ fd = [c \in Txn |-> NONE]
    /\ req = [c \in Txn |-> NONE]
    /\ txn_mode = [c \in Txn |-> FALSE]
    /\ buffer_mutex = NONE /\ parse_tree = NONE
    /\ query = [c \in Txn |-> NONE]
    /\ dirty = [c \in Txn |-> {}]
    /\ failed = [c \in Txn |-> FALSE]

(* What a thread does once it has a request, up to the next one.           *)
Serve(c) ==
    \/ yyparse(c) \/ do_analyze(c)
    \/ \E id \in DataId :
          \/ LockForStatement(c, id) \/ LockRefused(c, id)
          \/ Access(c, id) \/ AccessFails(c, id)
    \/ OtherStatement(c) \/ BeginStatement(c) \/ RollbackStatement(c) \/ CommitStatement(c)
    \/ Abort(c) \/ ReleaseLocks(c) \/ Finish(c) \/ Reply(c) \/ AutoCommit(c)

ServerNext ==
    \/ LockSockfd \/ AcceptError \/ sigint_handler
    \/ \E c \in Txn :
          \/ connect(c) \/ Accept(c) \/ CreateError(c)
          \/ ReadFd(c) \/ Disconnect(c) \/ Serve(c)
          \/ \E r \in Requests : Receive(c, r)
    \/ main = "closing" /\ UNCHANGED serverVars

(* Threads are scheduled, and a connection in the backlog is accepted.  Of *)
(* a handler no more is assumed than that it goes on between yyparse and   *)
(* the unlocking of the mutex.                                             *)
ServerSpec ==
    /\ ServerInit /\ [][ServerNext]_serverVars
    /\ WF_serverVars(LockSockfd) /\ WF_serverVars(\E c \in Txn : Accept(c))
    /\ \A c \in Txn :
        /\ WF_serverVars(ReadFd(c))
        /\ WF_serverVars(do_analyze(c) \/ Abort(c) \/ ReleaseLocks(c) \/ Finish(c))

----------------------------------------------------------------------------
(* Properties.                                                             *)

ServerTypeOK ==
    /\ TypeOK
    /\ main \in {"lock", "retry", "accept", "closing"}
    /\ sockfd \in Txn \cup {NONE} /\ buffer_mutex \in Txn \cup {NONE}
    /\ sockfd_mutex \in BOOLEAN
    /\ conn \in [Txn -> {"none", "backlog", "accepted"}]
    /\ pc \in [Txn -> {"none", "start", "read", "parse", "analyze", "execute", "access",
                       "abort", "release", "finish", "reply", "autocommit", "release_auto", "gone"}]
    /\ fd \in [Txn -> Txn \cup {NONE}] /\ req \in [Txn -> Requests \cup {NONE}]
    /\ query \in [Txn -> Txn \cup {NONE}]
    /\ txn_mode \in [Txn -> BOOLEAN] /\ failed \in [Txn -> BOOLEAN]
    /\ dirty \in [Txn -> SUBSET DataId]

(* A thread serves the connection it was created for, though it reads the  *)
(* accept loop's variable; and what it executes is the statement its own   *)
(* client sent, though the parse tree is shared by all threads.            *)
OwnWork ==
    \A c \in Txn :
        /\ pc[c] \notin {"none", "start"} => fd[c] = c
        /\ pc[c] \in {"execute", "access"} => query[c] = c

(* Between two requests a handler has locks or unsaved changes only inside *)
(* BEGIN; a handler that left its loop only those of a transaction it has  *)
(* not ended; and unsaved changes are under the exclusive lock, whatever   *)
(* became of the client, so that nobody reads them.                        *)
NoStrayLocks ==
    \A c \in Txn :
        /\ pc[c] = "read" /\ state[c] = "GROWING" => txn_mode[c]
        /\ pc[c] \in {"read", "gone"} /\ Ended(c) => lock_set[c] = {} /\ dirty[c] = {}
        /\ \A id \in dirty[c] : held[id][c] = X

(* All or nothing: a transaction in which a statement threw (a refused     *)
(* lock, an unknown name, an error between two rows) is never committed,   *)
(* neither by the autocommit after the reply nor by a later COMMIT.        *)
FailedNeverCommits == \A c \in Txn : failed[c] => state[c] # "COMMITTED"

(* The parser is never lost: a thread that locks buffer_mutex unlocks it,  *)
(* whether the text parses, passes do_analyze, or neither.                 *)
ParserFreed == \A c \in Txn : buffer_mutex = c ~> buffer_mutex # c

(* A connection gets its thread, unless accept has failed (the loop then   *)
(* waits for a mutex it holds itself) or the server shuts down.            *)
Accepted ==
    \A c \in Txn : conn[c] = "backlog" ~>
        (conn[c] = "accepted" \/ main \in {"retry", "closing"})
=============================================================================
