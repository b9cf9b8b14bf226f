------------------------------ MODULE Catalog -------------------------------
(***************************************************************************)
(* The tables of a database and their files: SmManager's DDL               *)
(* (src/system), db.meta, the record files (src/record/rm_manager.h,       *)
(* src/storage/disk_manager.cpp) and the start of the server (main in      *)
(* src/rmdb.cpp, RecoveryManager), with crashes between any two steps that *)
(* write to the directory.                                                 *)
(*                                                                         *)
(* DDL is not logged: what survives of it is db.meta, which flush_meta     *)
(* truncates and then writes, and the files.  DDL statements are taken one *)
(* at a time.  A write is a statement of its own that is logged when it    *)
(* commits; its redo and undo are those of the module Recovery, here taken *)
(* together: a restart applies the log to the files.                       *)
(*                                                                         *)
(* A table has rows in slots, with a key column and at most one index, on  *)
(* that column.  What the buffer pool does with the pages of a dropped     *)
(* table is the subject of TableFiles.                                     *)
(***************************************************************************)
EXTENDS Naturals, SequencesExt

CONSTANTS
    Table,     \* table names
    Rid,       \* slots of a table
    Key,       \* values of the key column
    Free,      \* an empty slot
    Absent,    \* no such file
    Torn,      \* db.meta truncated, or a log record not written to its end
    MaxLog     \* bound: length of the log

VARIABLES
    dir,               \* what create_db has made: "none", "mkdir", "meta", "ready"
    meta_file,         \* db.meta
    file,              \* the record files: slots on disk, or Absent
    log,               \* the log file
    up,                \* the server runs
    pc,                \* where its statement is; "idle" between statements
    tabs,              \* db_.tabs_: [indexed, flag], flag for ColMeta::index
    fhs,               \* fhs_: the tables that are open
    rows,              \* their slots, as in the buffer pool
    runtime_indexes,   \* runtime_indexes_: entries << key, rid >> by table
    record,            \* the log record of the write that has not committed
    shown,             \* ghost: tables, rows and indexes the clients know of
    pending,           \* ghost: the same once the statement is done
    broken             \* ghost: the events restart does not survive

diskVars   == << dir, meta_file, file, log >>
memoryVars == << tabs, fhs, rows, runtime_indexes, record >>
ghosts     == << shown, pending, broken >>
vars       == << diskVars, up, pc, memoryVars, ghosts >>

NoRows   == [r \in Rid |-> Free]
NoTables == [t \in {} |-> NoRows]
With(f, t, v) == [u \in DOMAIN f \cup {t} |-> IF u = t THEN v ELSE f[u]]
Without(f, t) == [u \in DOMAIN f \ {t} |-> f[u]]

(* Mutant of Entries: empty slots get an entry.                            *)
Entries_AllSlots(slots) == { << slots[r], r >> : r \in Rid }

(* The entries of an index, as rebuild_runtime_index collects them.        *)
Entries(slots) == { << slots[r], r >> : r \in { s \in Rid : slots[s] # Free } }

HasDuplicates(slots) == \E r, s \in Rid : r # s /\ slots[r] # Free /\ slots[r] = slots[s]

Idle == up /\ pc = "idle"

(* A statement that ends in flush_meta; after it the clients know of db.   *)
Ddl(db) == pending' = db /\ UNCHANGED << shown, broken >>

----------------------------------------------------------------------------
(* The record files; a file that is open is in fhs_.                       *)

is_file(t) == file[t] # Absent

create_file(t) == ~is_file(t) /\ file' = [file EXCEPT ![t] = NoRows]

open_file(t) == is_file(t) /\ t \notin fhs /\ fhs' = fhs \cup {t} /\ rows' = [rows EXCEPT ![t] = file[t]]

flush_all_pages(t) == file' = [file EXCEPT ![t] = rows[t]]

close_file(t) == t \in fhs /\ fhs' = fhs \ {t}

destroy_file(t) == is_file(t) /\ t \notin fhs /\ file' = [file EXCEPT ![t] = Absent]

----------------------------------------------------------------------------
(* create_table: create_file, then metadata and handle, then flush_meta.   *)

CreateFile(t) ==
    /\ Idle /\ t \notin DOMAIN tabs
    /\ create_file(t)
    /\ pc' = "opening" /\ Ddl(With(shown, t, [rows |-> NoRows, indexed |-> FALSE]))
    /\ UNCHANGED << dir, meta_file, log, up, memoryVars >>

CreateTable(t) ==
    /\ up /\ pc = "opening" /\ t \in DOMAIN pending \ DOMAIN tabs
    /\ tabs' = With(tabs, t, [indexed |-> FALSE, flag |-> FALSE])
    /\ open_file(t)
    /\ pc' = "flush_meta"
    /\ UNCHANGED << diskVars, up, runtime_indexes, record, ghosts >>

(* drop_table: close_file, destroy_file, erase.  The runtime indexes of    *)
(* the table stay.                                                         *)
CloseFile(t) ==
    /\ Idle /\ t \in DOMAIN tabs
    /\ flush_all_pages(t) /\ close_file(t)
    /\ pc' = "dropping" /\ Ddl(Without(shown, t))
    /\ UNCHANGED << dir, meta_file, log, up, tabs, rows, runtime_indexes, record >>

DropTable(t) ==
    /\ up /\ pc = "dropping" /\ t \in DOMAIN tabs \ DOMAIN pending
    /\ destroy_file(t)
    /\ tabs' = Without(tabs, t)
    /\ pc' = "flush_meta"
    /\ broken' = IF \E i \in DOMAIN log : log[i] # Torn /\ log[i].tab = t
                 THEN broken \cup {"logged"} ELSE broken
    /\ UNCHANGED << dir, meta_file, log, up, fhs, rows, runtime_indexes, record, shown, pending >>

(* Mutant of CreateIndex: an old runtime index of that name is kept.       *)
CreateIndex_KeepsOld(t) ==
    /\ Idle /\ t \in DOMAIN tabs /\ ~tabs[t].indexed /\ ~HasDuplicates(rows[t])
    /\ tabs' = [tabs EXCEPT ![t] = [indexed |-> TRUE, flag |-> TRUE]]
    /\ runtime_indexes' = IF t \in DOMAIN runtime_indexes THEN runtime_indexes
                          ELSE With(runtime_indexes, t, Entries(rows[t]))
    /\ pc' = "flush_meta" /\ Ddl([shown EXCEPT ![t].indexed = TRUE])
    /\ UNCHANGED << diskVars, up, fhs, rows, record >>

CreateIndex(t) ==
    /\ Idle /\ t \in DOMAIN tabs /\ ~tabs[t].indexed /\ ~HasDuplicates(rows[t])
    /\ tabs' = [tabs EXCEPT ![t] = [indexed |-> TRUE, flag |-> TRUE]]
    /\ runtime_indexes' = With(runtime_indexes, t, Entries(rows[t]))
    /\ pc' = "flush_meta" /\ Ddl([shown EXCEPT ![t].indexed = TRUE])
    /\ UNCHANGED << diskVars, up, fhs, rows, record >>

(* ... or it throws, on duplicate values or on a second column that does   *)
(* not exist, when it has set the flag of the first one.                   *)
CreateIndexFails(t) ==
    /\ Idle /\ t \in DOMAIN tabs
    /\ tabs' = [tabs EXCEPT ![t].flag = TRUE]
    /\ UNCHANGED << diskVars, up, pc, fhs, rows, runtime_indexes, record, ghosts >>


DropIndex(t) ==
    /\ Idle /\ t \in DOMAIN tabs /\ tabs[t].indexed
    /\ tabs' = [tabs EXCEPT ![t] = [indexed |-> FALSE, flag |-> FALSE]]
    /\ runtime_indexes' = Without(runtime_indexes, t)
    /\ pc' = "flush_meta" /\ Ddl([shown EXCEPT ![t].indexed = FALSE])
    /\ UNCHANGED << diskVars, up, fhs, rows, record >>

(* flush_meta: the ofstream truncates db.meta; db_ is written.  In         *)
(* close_db the files follow.                                              *)
TruncateMeta ==
    /\ up /\ pc \in {"flush_meta", "close_db"} /\ meta_file # Torn
    /\ meta_file' = Torn
    /\ UNCHANGED << dir, file, log, up, pc, memoryVars, ghosts >>

WriteMeta ==
    /\ up /\ pc = "flush_meta" /\ meta_file = Torn
    /\ meta_file' = tabs
    /\ pc' = "idle" /\ shown' = pending
    /\ UNCHANGED << dir, file, log, up, memoryVars, pending, broken >>

----------------------------------------------------------------------------
(* A write: the executor changes a slot and the index ...                  *)
Write(t, r, v) ==
    /\ Idle /\ t \in DOMAIN tabs /\ rows[t][r] # v /\ Len(log) < MaxLog
    /\ LET new == [rows[t] EXCEPT ![r] = v]
       IN /\ ~(tabs[t].indexed /\ HasDuplicates(new))
          /\ rows' = [rows EXCEPT ![t] = new]
          /\ runtime_indexes' = IF tabs[t].indexed THEN [runtime_indexes EXCEPT ![t] = Entries(new)]
                                ELSE runtime_indexes
          /\ pending' = [shown EXCEPT ![t].rows = new]
    /\ record' = [tab |-> t, rid |-> r, val |-> v]
    /\ pc' = "commit"
    /\ UNCHANGED << diskVars, up, tabs, fhs, shown, broken >>

(* ... and commit flushes the log buffer.  Nothing reads a record that     *)
(* follows a torn one.                                                     *)
Commit ==
    /\ up /\ pc = "commit"
    /\ log' = Append(log, record)
    /\ broken' = IF Torn \in Range(log) THEN broken \cup {"torn_log"} ELSE broken
    /\ shown' = pending
    /\ pc' = "idle"
    /\ UNCHANGED << dir, meta_file, file, up, memoryVars, pending >>

(* The buffer pool writes a page back.                                     *)
WriteBack(t) ==
    /\ Idle /\ t \in fhs /\ file[t] # rows[t]
    /\ file' = [file EXCEPT ![t] = rows[t]]
    /\ UNCHANGED << dir, meta_file, log, up, pc, memoryVars, ghosts >>

----------------------------------------------------------------------------
(* Shutdown, crash and start.                                              *)

close_db ==
    /\ Idle /\ pc' = "close_db"
    /\ UNCHANGED << diskVars, up, memoryVars, ghosts >>

Stop ==
    /\ up' = FALSE /\ pc' = "idle"
    /\ tabs' = NoTables /\ fhs' = {} /\ rows' = [t \in Table |-> NoRows]
    /\ runtime_indexes' = NoTables /\ record' = Free

CloseFiles ==
    /\ up /\ pc = "close_db" /\ meta_file = Torn
    /\ meta_file' = tabs
    /\ file' = [t \in Table |-> IF t \in fhs THEN rows[t] ELSE file[t]]
    /\ Stop /\ UNCHANGED << dir, log, ghosts >>

(* A crash.  In the middle of a commit it can leave a torn log record, as  *)
(* a short write does, whose exception ends the process.                   *)
Crash ==
    /\ up \/ pc # "idle"
    /\ log' \in {log} \cup (IF pc = "commit" THEN {Append(log, Torn)} ELSE {})
    /\ broken' = broken \cup (IF meta_file = Torn THEN {"torn_meta"} ELSE {})
                        \cup (IF \E t \in DOMAIN shown : ~is_file(t) THEN {"half_dropped"} ELSE {})
                        \cup (IF \E t \in Table \ DOMAIN shown : is_file(t) THEN {"orphan"} ELSE {})
                        \cup (IF dir # "ready" THEN {"half_made"} ELSE {})
    /\ Stop /\ UNCHANGED << dir, meta_file, file, shown, pending >>

(* create_db: mkdir, db.meta, the log file.                                *)
create_db ==
    /\ ~up
    /\ \/ dir = "none" /\ pc = "idle" /\ dir' = "mkdir" /\ pc' = "create_db" /\ UNCHANGED meta_file
       \/ dir = "mkdir" /\ pc = "create_db" /\ dir' = "meta" /\ meta_file' = NoTables /\ UNCHANGED pc
       \/ dir = "meta" /\ pc = "create_db" /\ dir' = "ready" /\ pc' = "idle" /\ UNCHANGED meta_file
    /\ UNCHANGED << file, log, up, memoryVars, ghosts >>

(* The records RecoveryManager::analyze reads: up to a torn one.           *)
Readable == SubSeq(log, 1, CHOOSE n \in 0 .. Len(log) :
                /\ \A i \in 1 .. n : log[i] # Torn
                /\ n < Len(log) => log[n + 1] = Torn)

(* redo, and undo for what did not commit.                                 *)
Replayed(t) ==
    FoldLeft(LAMBDA slots, rec : IF rec.tab = t THEN [slots EXCEPT ![rec.rid] = rec.val] ELSE slots,
             file[t], Readable)

(* open_db finds the files, and fhs_.at the tables of the log.             *)
CanOpen(db) ==
    /\ \A t \in DOMAIN db : is_file(t)
    /\ \A i \in DOMAIN Readable : Readable[i].tab \in DOMAIN db

Opened(db) == [t \in DOMAIN db |-> [rows |-> Replayed(t), indexed |-> db[t].indexed]]

rebuild_runtime_indexes(db) ==
    runtime_indexes' = [t \in { u \in DOMAIN db : db[u].indexed } |-> Entries(Replayed(t))]

flush_all_tables(db) == file' = [t \in Table |-> IF t \in DOMAIN db THEN Replayed(t) ELSE file[t]]

(* main: open_db, analyze, redo, undo, which ends with                     *)
(* rebuild_runtime_indexes and flush_all_tables.                           *)
Start(db) ==
    /\ ~up /\ pc = "idle" /\ dir = "ready" /\ CanOpen(db)
    /\ up' = TRUE
    /\ tabs' = db /\ fhs' = DOMAIN db
    /\ rows' = [t \in Table |-> IF t \in DOMAIN db THEN Replayed(t) ELSE NoRows]
    /\ rebuild_runtime_indexes(db) /\ flush_all_tables(db)
    /\ shown' = Opened(db) /\ pending' = Opened(db)
    /\ UNCHANGED << dir, meta_file, log, pc, record, broken >>

(* A truncated db.meta has no number of tables: n is not initialised.  It  *)
(* is taken for a file without tables, or a table without a name is opened *)
(* and the start fails.                                                    *)
MetaRead == IF meta_file = Torn THEN NoTables ELSE meta_file

StartFails ==
    /\ ~up /\ pc = "idle" /\ dir # "none"
    /\ dir # "ready" \/ meta_file = Torn \/ ~CanOpen(MetaRead)
    /\ UNCHANGED vars

----------------------------------------------------------------------------
Init ==
    /\ dir = "none" /\ meta_file = Torn
    /\ file = [t \in Table |-> Absent]
    /\ log = << >>
    /\ up = FALSE /\ pc = "idle"
    /\ tabs = NoTables /\ fhs = {} /\ rows = [t \in Table |-> NoRows]
    /\ runtime_indexes = NoTables /\ record = Free
    /\ shown = NoTables /\ pending = NoTables
    /\ broken = {}

Next ==
    \/ \E t \in Table :
          \/ CreateFile(t) \/ CreateTable(t)
          \/ CloseFile(t) \/ DropTable(t)
          \/ CreateIndex(t) \/ CreateIndexFails(t) \/ DropIndex(t)
          \/ WriteBack(t)
          \/ \E r \in Rid, v \in Key \cup {Free} : Write(t, r, v)
    \/ TruncateMeta \/ WriteMeta
    \/ Commit
    \/ close_db \/ CloseFiles \/ Crash
    \/ create_db \/ Start(MetaRead) \/ StartFails

Spec == Init /\ [][Next]_vars

----------------------------------------------------------------------------
(* Properties.                                                             *)

Slots == [Rid -> Key \cup {Free}]

CatalogTypeOK ==
    /\ dir \in {"none", "mkdir", "meta", "ready"}
    /\ \A t \in Table : is_file(t) => file[t] \in Slots
    /\ pc \in {"idle", "opening", "dropping", "flush_meta", "commit", "close_db", "create_db"}
    /\ DOMAIN tabs \subseteq Table /\ fhs \subseteq Table
    /\ rows \in [Table -> Slots]
    /\ \A t \in DOMAIN runtime_indexes : runtime_indexes[t] \subseteq Key \X Rid
    /\ broken \subseteq {"logged", "torn_log", "torn_meta", "half_dropped", "half_made", "orphan"}

(* Between statements the parts of the server agree with each other and    *)
(* with what the clients were told, through DDL that fails, tables that    *)
(* are dropped and made again, crashes and restarts: metadata, handles,    *)
(* rows, and runtime indexes that hold exactly the rows of the table of    *)
(* that name.  A column with an index is marked as such; and every file    *)
(* has its table, as long as no crash fell into a CREATE or DROP TABLE.    *)
ServesShown ==
    Idle =>
        /\ DOMAIN tabs = DOMAIN shown /\ fhs = DOMAIN shown
        /\ \A t \in DOMAIN shown :
              /\ shown[t] = [rows |-> rows[t], indexed |-> tabs[t].indexed]
              /\ tabs[t].indexed => /\ tabs[t].flag /\ t \in DOMAIN runtime_indexes
                                    /\ runtime_indexes[t] = Entries(rows[t])
        /\ broken \subseteq {"logged", "torn_log"} => { t \in Table : is_file(t) } = DOMAIN tabs

=============================================================================
