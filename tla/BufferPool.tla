----------------------------- MODULE BufferPool -----------------------------
(***************************************************************************)
(* BufferPoolManager (src/storage/buffer_pool_manager) with its            *)
(* LRUReplacer, over the pages of the open files.                          *)
(*                                                                         *)
(* Every public operation holds latch_ from its first to its last line, so *)
(* an operation is one action.  What is not under the latch is what the    *)
(* callers do with the Page* they got: threads read and write the bytes of *)
(* a frame between fetch_page/new_page and unpin_page, interleaved with    *)
(* every operation of every other thread.                                  *)
(***************************************************************************)
EXTENDS Naturals, FiniteSets, LRUReplacer

CONSTANTS
    PoolSize,   \* pool_size_, the number of frames
    Fd,         \* descriptors of the open files
    MaxPageNo,  \* bound: the highest page number allocated in a file
    InitPages,  \* pages (after the header page) a file has when it is opened
    Thread,     \* threads calling into the pool
    Data,       \* contents of a page
    Zero,       \* reset_memory(): the all-zero content
    Absent,     \* never written to the file
    NoPage,     \* a PageId whose page_no is INVALID_PAGE_ID
    NoFrame     \* page_table_.end()

Frame  == 0 .. PoolSize - 1
PageId == Fd \X (1 .. MaxPageNo)

ASSUME PoolAssumption ==
    /\ PoolSize \in Nat \ {0}
    /\ MaxPageNo \in Nat \ {0}
    /\ InitPages \in 0 .. MaxPageNo
    /\ IsFiniteSet(Thread)
    /\ Zero \in Data /\ Absent \notin Data
    /\ NoPage \notin PageId
    /\ NoFrame \notin Frame

VARIABLES
    page_table,   \* page_table_: PageId -> frame, NoFrame where there is no entry
    free_list,    \* free_list_
    LRUlist,      \* the replacer's list
    page_id,      \* pages_[f].id_
    pin_count,    \* pages_[f].pin_count_
    is_dirty,     \* pages_[f].is_dirty_
    data,         \* pages_[f].data_
    disk,         \* the files' pages, Absent where nothing was ever written
    fd2pageno,    \* DiskManager::fd2pageno_, the next page number of a file
    held_page,    \* the page a thread has pinned, NoPage if none
    held_frame,   \* the Page* it got, as the frame's number
    wrote,        \* whether it will pass is_dirty to unpin_page
    deleted       \* ghost: the pages delete_page was called for

poolVars   == << page_table, free_list, LRUlist, page_id, pin_count, is_dirty, data >>
diskVars   == << disk, fd2pageno >>
threadVars == << held_page, held_frame, wrote >>
vars       == << poolVars, diskVars, threadVars, deleted >>

----------------------------------------------------------------------------
(* DiskManager, as far as the pool uses it.                                *)

(* A write past the end of a file leaves a hole that reads as zeroes.      *)
ContentOn(d, p) == IF d[p] = Absent THEN Zero ELSE d[p]

(* read_page gets its PAGE_SIZE bytes: the file reaches past the page.     *)
Readable(d, p) ==
    \E n \in p[2] .. MaxPageNo : d[<<p[1], n>>] # Absent

----------------------------------------------------------------------------
(* find_victim_page: the front of the free list, else the replacer's.      *)

HasVictimPage == free_list # << >> \/ HasVictim(LRUlist)

VictimPage == IF free_list # << >> THEN Head(free_list) ELSE Victim(LRUlist)

(* The replacer_->pin that follows in fetch_page and new_page finds the    *)
(* frame off the list already.                                             *)
TakeVictimPage ==
    /\ HasVictimPage
    /\ IF free_list # << >>
       THEN free_list' = Tail(free_list) /\ UNCHANGED LRUlist
       ELSE LRUlist' = AfterVictim(LRUlist) /\ UNCHANGED free_list

(* Mutant of WriteBack: a dirty page is dropped.                           *)
WriteBack_Dropped(f) == disk

(* Mutant of Unmap: the old page's entry is not erased.                    *)
Unmap_KeepsEntry(f) == page_table

(* The first half of update_page: the old page of a frame goes back to     *)
(* disk if it is dirty, and leaves the page table.                         *)
WriteBack(f) ==
    IF page_id[f] # NoPage /\ is_dirty[f]
    THEN [disk EXCEPT ![page_id[f]] = data[f]]
    ELSE disk

Unmap(f) ==
    IF page_id[f] # NoPage
    THEN [page_table EXCEPT ![page_id[f]] = NoFrame]
    ELSE page_table

(* update_page and the lines after it in its two callers: frame f now      *)
(* holds page p with the given bytes and pin count.                        *)
UpdatePage(f, p, bytes, pins) ==
    /\ disk'       = WriteBack(f)
    /\ page_table' = [Unmap(f) EXCEPT ![p] = f]
    /\ page_id'    = [page_id EXCEPT ![f] = p]
    /\ data'       = [data EXCEPT ![f] = bytes]
    /\ is_dirty'   = [is_dirty EXCEPT ![f] = FALSE]
    /\ pin_count'  = [pin_count EXCEPT ![f] = pins]

Hold(t, p, f, w) ==
    /\ held_page'  = [held_page EXCEPT ![t] = p]
    /\ held_frame' = [held_frame EXCEPT ![t] = f]
    /\ wrote'      = [wrote EXCEPT ![t] = w]

Holding(t) == held_page[t] # NoPage

----------------------------------------------------------------------------
(* fetch_page.  The callers ask for pages below the file's num_pages.  The *)
(* fourth outcome, nullptr when there is no victim, changes nothing.       *)

Fetchable(t, p) == ~Holding(t) /\ p[2] < fd2pageno[p[1]]

(* Mutant of FetchHit: pin_count_ is not incremented.                      *)
FetchHit_Unpinned(t, p) ==
    /\ Fetchable(t, p)
    /\ page_table[p] # NoFrame
    /\ LRUlist' = Pin(LRUlist, page_table[p])
    /\ Hold(t, p, page_table[p], FALSE)
    /\ UNCHANGED << page_table, free_list, page_id, pin_count, is_dirty, data, diskVars, deleted >>

FetchHit(t, p) ==
    /\ Fetchable(t, p)
    /\ page_table[p] # NoFrame
    /\ LET f == page_table[p]
       IN /\ pin_count' = [pin_count EXCEPT ![f] = @ + 1]
          /\ LRUlist' = Pin(LRUlist, f)
          /\ Hold(t, p, f, FALSE)
    /\ UNCHANGED << page_table, free_list, page_id, is_dirty, data, diskVars, deleted >>

FetchMiss(t, p) ==
    /\ Fetchable(t, p)
    /\ page_table[p] = NoFrame
    /\ TakeVictimPage
    /\ Readable(WriteBack(VictimPage), p)
    /\ UpdatePage(VictimPage, p, ContentOn(WriteBack(VictimPage), p), 1)
    /\ Hold(t, p, VictimPage, FALSE)
    /\ UNCHANGED << fd2pageno, deleted >>

(* read_page throws on a short read, after update_page has installed the   *)
(* page: the frame stays mapped, zeroed, unpinned and on neither list.     *)
FetchShortRead(t, p) ==
    /\ Fetchable(t, p)
    /\ page_table[p] = NoFrame
    /\ TakeVictimPage
    /\ ~Readable(WriteBack(VictimPage), p)
    /\ UpdatePage(VictimPage, p, Zero, 0)
    /\ UNCHANGED << fd2pageno, threadVars, deleted >>

(* new_page: the victim is found before the page number is allocated.  The *)
(* callers initialise the page and unpin it dirty.                         *)
NewPage(t, fd) ==
    /\ ~Holding(t)
    /\ fd2pageno[fd] <= MaxPageNo
    /\ TakeVictimPage
    /\ LET p == <<fd, fd2pageno[fd]>>
       IN UpdatePage(VictimPage, p, Zero, 1) /\ Hold(t, p, VictimPage, TRUE)
    /\ fd2pageno' = [fd2pageno EXCEPT ![fd] = @ + 1]
    /\ UNCHANGED deleted

(* The caller changes bytes of the page it holds; no latch is held.        *)
WriteData(t, v) ==
    /\ Holding(t)
    /\ data' = [data EXCEPT ![held_frame[t]] = v]
    /\ wrote' = [wrote EXCEPT ![t] = TRUE]
    /\ UNCHANGED << page_table, free_list, LRUlist, page_id, pin_count, is_dirty,
                    diskVars, held_page, held_frame, deleted >>

(* Mutant of UnpinPage: the flag is overwritten, a reader clears it.       *)
UnpinPage_ClearsDirty(t) ==
    /\ Holding(t)
    /\ LET f == page_table[held_page[t]]
       IN /\ f # NoFrame
          /\ is_dirty' = [is_dirty EXCEPT ![f] = wrote[t]]
          /\ pin_count' = [pin_count EXCEPT ![f] = @ - 1]
          /\ LRUlist' = IF pin_count[f] = 1 THEN Unpin(LRUlist, f, PoolSize) ELSE LRUlist
    /\ Hold(t, NoPage, NoFrame, FALSE)
    /\ UNCHANGED << page_table, free_list, page_id, data, diskVars, deleted >>

(* Mutant of UnpinPage: two pins are taken back.                           *)
UnpinPage_Twice(t) ==
    /\ Holding(t)
    /\ LET f == page_table[held_page[t]]
       IN /\ f # NoFrame
          /\ is_dirty' = [is_dirty EXCEPT ![f] = @ \/ wrote[t]]
          /\ pin_count' = [pin_count EXCEPT ![f] = @ - 2]
          /\ LRUlist' = Unpin(LRUlist, f, PoolSize)
    /\ Hold(t, NoPage, NoFrame, FALSE)
    /\ UNCHANGED << page_table, free_list, page_id, data, diskVars, deleted >>

(* unpin_page: an unknown page or a pin count of 0 returns false; the      *)
(* callers ignore the result, so the thread has let go of the page anyway. *)
UnpinPage(t) ==
    /\ Holding(t)
    /\ LET f == page_table[held_page[t]]
       IN IF f # NoFrame /\ pin_count[f] > 0
          THEN /\ is_dirty' = [is_dirty EXCEPT ![f] = @ \/ wrote[t]]
               /\ pin_count' = [pin_count EXCEPT ![f] = @ - 1]
               /\ LRUlist' = IF pin_count[f] = 1 THEN Unpin(LRUlist, f, PoolSize)
                                                 ELSE LRUlist
          ELSE UNCHANGED << is_dirty, pin_count, LRUlist >>
    /\ Hold(t, NoPage, NoFrame, FALSE)
    /\ UNCHANGED << page_table, free_list, page_id, data, diskVars, deleted >>

(* flush_page: written whether pinned or not, dirty or not.                *)
FlushPage(p) ==
    /\ page_table[p] # NoFrame
    /\ disk' = [disk EXCEPT ![p] = data[page_table[p]]]
    /\ is_dirty' = [is_dirty EXCEPT ![page_table[p]] = FALSE]
    /\ UNCHANGED << page_table, free_list, LRUlist, page_id, pin_count, data,
                    fd2pageno, threadVars, deleted >>

(* delete_page: refused while pinned; the bytes are dropped, dirty or not. *)
DeletePage(p) ==
    /\ page_table[p] # NoFrame
    /\ LET f == page_table[p]
       IN /\ pin_count[f] = 0
          /\ LRUlist' = Pin(LRUlist, f)
          /\ page_table' = [page_table EXCEPT ![p] = NoFrame]
          /\ page_id' = [page_id EXCEPT ![f] = NoPage]
          /\ data' = [data EXCEPT ![f] = Zero]
          /\ is_dirty' = [is_dirty EXCEPT ![f] = FALSE]
          /\ free_list' = Append(free_list, f)
    /\ deleted' = deleted \cup {p}
    /\ UNCHANGED << pin_count, diskVars, threadVars >>

(* flush_all_pages: every mapped page of the file is written, none leaves. *)
Mapped(fd) == { p \in PageId : p[1] = fd /\ page_table[p] # NoFrame }

FlushAllPages(fd) ==
    /\ Mapped(fd) # {}
    /\ disk' = [p \in PageId |-> IF p \in Mapped(fd) THEN data[page_table[p]] ELSE disk[p]]
    /\ is_dirty' = [f \in Frame |-> /\ is_dirty[f]
                                    /\ \A p \in Mapped(fd) : page_table[p] # f]
    /\ UNCHANGED << page_table, free_list, LRUlist, page_id, pin_count, data,
                    fd2pageno, threadVars, deleted >>

----------------------------------------------------------------------------
(* A file's header may count pages the file does not reach: flush writes   *)
(* the header before the pages.                                            *)
Init ==
    /\ page_table = [p \in PageId |-> NoFrame]
    /\ free_list = [i \in 1 .. PoolSize |-> i - 1]
    /\ LRUlist = << >>
    /\ page_id = [f \in Frame |-> NoPage]
    /\ pin_count = [f \in Frame |-> 0]
    /\ is_dirty = [f \in Frame |-> FALSE]
    /\ data = [f \in Frame |-> Zero]
    /\ disk \in [PageId -> Data \cup {Absent}]
    /\ \A p \in PageId : p[2] > InitPages => disk[p] = Absent
    /\ fd2pageno = [fd \in Fd |-> InitPages + 1]
    /\ held_page = [t \in Thread |-> NoPage]
    /\ held_frame = [t \in Thread |-> NoFrame]
    /\ wrote = [t \in Thread |-> FALSE]
    /\ deleted = {}

Next ==
    \/ \E t \in Thread :
        \/ \E p \in PageId : FetchHit(t, p) \/ FetchMiss(t, p) \/ FetchShortRead(t, p)
        \/ \E fd \in Fd : NewPage(t, fd)
        \/ \E v \in Data : WriteData(t, v)
        \/ UnpinPage(t)
    \/ \E p \in PageId : FlushPage(p) \/ DeletePage(p)
    \/ \E fd \in Fd : FlushAllPages(fd)

Spec == Init /\ [][Next]_vars

----------------------------------------------------------------------------
(* Properties.                                                             *)

TypeOK ==
    /\ page_table \in [PageId -> Frame \cup {NoFrame}]
    /\ free_list \in Seq(Frame)
    /\ LRUlist \in Seq(Frame)
    /\ page_id \in [Frame -> PageId \cup {NoPage}]
    /\ pin_count \in [Frame -> Nat]
    /\ is_dirty \in [Frame -> BOOLEAN]
    /\ data \in [Frame -> Data]
    /\ disk \in [PageId -> Data \cup {Absent}]
    /\ fd2pageno \in [Fd -> 1 .. MaxPageNo + 1]
    /\ held_page \in [Thread -> PageId \cup {NoPage}]
    /\ held_frame \in [Thread -> Frame \cup {NoFrame}]
    /\ wrote \in [Thread -> BOOLEAN]
    /\ deleted \subseteq PageId

(* The page table and the ids stored in the frames are each other's        *)
(* inverse: no page is in two frames, no entry is stale.                   *)
MappingConsistent ==
    /\ \A p \in PageId : page_table[p] # NoFrame => page_id[page_table[p]] = p
    /\ \A f \in Frame : page_id[f] # NoPage => page_table[page_id[f]] = f

(* The threads that hold frame f.                                          *)
Holders(f) == { t \in Thread : held_frame[t] = f }

(* pin_count_ is the number of threads between fetch/new and unpin, and    *)
(* the page a thread holds is still the one in the frame it points to:     *)
(* nothing evicts, deletes or remaps a page under a thread that uses it.   *)
PinsExact ==
    /\ \A f \in Frame : pin_count[f] = Cardinality(Holders(f))
    /\ \A t \in Thread :
        IF Holding(t) THEN held_frame[t] \in Frame /\ page_id[held_frame[t]] = held_page[t]
                      ELSE held_frame[t] = NoFrame /\ wrote[t] = FALSE

(* A frame left by a failed read_page: mapped, unpinned, on neither list.  *)
Stranded(f) ==
    /\ page_id[f] # NoPage
    /\ pin_count[f] = 0
    /\ ~IsEvictable(LRUlist, f)

IsListOnce(s) == \A i, j \in DOMAIN s : s[i] = s[j] => i = j

(* No frame is lost and none is handed out twice: the free frames are the  *)
(* ones without a page, the evictable ones have a page nobody holds, and   *)
(* what is on neither list is pinned or was left by a failed read, with    *)
(* nothing in it to lose.  So find_victim_page fails only when every frame *)
(* is pinned or stranded.                                                  *)
FramesAccounted ==
    /\ IsListOnce(free_list)
    /\ IsListOnce(LRUlist)
    /\ \A f \in Frame :
        /\ f \in Range(free_list) <=> page_id[f] = NoPage
        /\ IsEvictable(LRUlist, f) => page_id[f] # NoPage /\ pin_count[f] = 0
        /\ page_id[f] = NoPage => pin_count[f] = 0 /\ ~is_dirty[f]
        /\ Stranded(f) => data[f] = Zero /\ ~is_dirty[f]

(* A frame whose page can be dropped without writing it holds what is on   *)
(* disk: it is clean, and nobody who changed it has yet to unpin it dirty. *)
CleanMatchesDisk ==
    \A f \in Frame :
        (/\ page_id[f] # NoPage
         /\ ~is_dirty[f]
         /\ \A t \in Holders(f) : ~wrote[t])
            => data[f] = ContentOn(disk, page_id[f])

(* What a fetch_page of p returns.                                         *)
View == [p \in PageId |-> IF page_table[p] # NoFrame THEN data[page_table[p]]
                                                   ELSE ContentOn(disk, p)]

Store == INSTANCE PageStore
         WITH content <- [p \in PageId |-> IF p \in deleted THEN Zero ELSE View[p]],
              held <- held_page, size <- fd2pageno

(* The pool implements the page store: no eviction, flush, failed read or  *)
(* reuse of a frame changes what any page reads as, and nothing but a      *)
(* thread that holds a page changes it.                                    *)
ImplementsPageStore == Store!Spec
=============================================================================
