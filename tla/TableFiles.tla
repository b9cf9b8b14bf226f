----------------------------- MODULE TableFiles -----------------------------
(***************************************************************************)
(* The buffer pool while tables are dropped and created.                   *)
(*                                                                         *)
(* SmManager::drop_table closes the table's file: RmManager::close_file    *)
(* flushes its pages but leaves them in the pool, and DiskManager gives    *)
(* the descriptor back.  The next file that is opened gets the lowest free *)
(* descriptor, so pages of the old table and of the new one have the same  *)
(* PageId.  Everything else is BufferPool, used as the record files do.    *)
(***************************************************************************)
EXTENDS BufferPool

VARIABLE written   \* ghost: what was last written to each page of the open files

fileVars == << vars, written >>

(* drop_table, then create_table with the same descriptor; no statement is *)
(* using the old table.  The new file has a header page only.              *)
DropAndCreateTable(fd) ==
    /\ \A t \in Thread : Holding(t) => held_page[t][1] # fd
    /\ disk' = [p \in PageId |-> IF p[1] = fd THEN Absent ELSE disk[p]]
    /\ is_dirty' = [f \in Frame |-> /\ is_dirty[f]
                                    /\ \A p \in Mapped(fd) : page_table[p] # f]
    /\ fd2pageno' = [fd2pageno EXCEPT ![fd] = 1]
    /\ written' = [p \in PageId |-> IF p[1] = fd THEN Zero ELSE written[p]]
    /\ UNCHANGED << page_table, free_list, LRUlist, page_id, pin_count, data, threadVars, deleted >>

(* Statements allocate, read and write pages; nothing deletes one.         *)
UsePages(t) ==
    \/ /\ \E p \in PageId : FetchHit(t, p) \/ FetchMiss(t, p)
       /\ UNCHANGED written
    \/ \E fd \in Fd :
        /\ NewPage(t, fd)
        /\ written' = [written EXCEPT ![<<fd, fd2pageno[fd]>>] = Zero]
    \/ \E v \in Data :
        /\ WriteData(t, v)
        /\ written' = [written EXCEPT ![held_page[t]] = v]
    \/ UnpinPage(t) /\ UNCHANGED written

FilesInit ==
    /\ Init
    /\ \A p \in PageId : p[2] <= InitPages => disk[p] # Absent
    /\ written = View

FilesNext ==
    \/ \E t \in Thread : UsePages(t)
    \/ \E fd \in Fd : DropAndCreateTable(fd)

FilesSpec == FilesInit /\ [][FilesNext]_fileVars

(* Every allocated page reads as what was last written to it: a dirty page *)
(* that the pool evicts reaches the disk and is found again.               *)
ReadsBack ==
    \A p \in PageId : p[2] < fd2pageno[p[1]] => View[p] = written[p]
=============================================================================
