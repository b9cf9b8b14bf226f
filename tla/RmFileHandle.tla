---------------------------- MODULE RmFileHandle ----------------------------
(***************************************************************************)
(* The record file of one table (src/record/rm_file_handle, bitmap and     *)
(* rm_scan), as operators on a file value                                  *)
(*                                                                         *)
(*   [num_pages, first_free_page_no, page]                                 *)
(*                                                                         *)
(* that is, file_hdr_ together with the pages as the buffer pool shows     *)
(* them.  A page is its RmPageHdr and its slots: the bitmap bit of a slot  *)
(* is set iff the slot is not Free.  Page 0 is the header page.            *)
(*                                                                         *)
(* The operators are the public calls.  Each fetches one page, works on it *)
(* and unpins it; a table is written under its exclusive lock only, so a   *)
(* call is one step of its caller.                                         *)
(***************************************************************************)
EXTENDS Integers, Sequences, FiniteSets, FiniteSetsExt

CONSTANTS
    MaxPages,               \* bound: data pages of the file
    num_records_per_page,   \* slots of a page
    Val,                    \* contents of a record
    Free                    \* a slot whose bitmap bit is 0

RM_NO_PAGE == -1

PageNo == 1 .. MaxPages
Slot   == 0 .. num_records_per_page - 1
Rid    == PageNo \X Slot

ASSUME RmFileAssumption ==
    /\ MaxPages \in Nat \ {0}
    /\ num_records_per_page \in Nat \ {0}
    /\ Free \notin Val

PageValue == [next_free_page_no : {RM_NO_PAGE} \cup 0 .. MaxPages,
              num_records       : 0 .. num_records_per_page,
              slots             : [Slot -> Val \cup {Free}]]

FileValue == [num_pages          : 1 .. MaxPages + 1,
              first_free_page_no : {RM_NO_PAGE} \cup 0 .. MaxPages,
              page               : [PageNo -> PageValue]]

(* A page that was never written.                                          *)
ZeroPage == [next_free_page_no |-> 0, num_records |-> 0, slots |-> [s \in Slot |-> Free]]

(* RmManager::create_file: a header page and nothing else.                 *)
EmptyFile == [num_pages |-> 1, first_free_page_no |-> RM_NO_PAGE,
              page |-> [p \in PageNo |-> ZeroPage]]

----------------------------------------------------------------------------
(* is_record, get_record; both refuse a page past num_pages.               *)
is_record(f, rid) == rid[1] < f.num_pages /\ f.page[rid[1]].slots[rid[2]] # Free
get_record(f, rid) == f.page[rid[1]].slots[rid[2]]

Records(f) == { rid \in Rid : is_record(f, rid) }

(* The table's rows.                                                       *)
Content(f) == [rid \in Rid |-> IF is_record(f, rid) THEN get_record(f, rid) ELSE Free]

IsFull(f, p) == f.page[p].num_records = num_records_per_page

(* create_new_page_handle: the new page becomes the head of the free list. *)
create_new_page_handle(f) ==
    [num_pages          |-> f.num_pages + 1,
     first_free_page_no |-> f.num_pages,
     page               |-> [f.page EXCEPT ![f.num_pages] =
                                [ZeroPage EXCEPT !.next_free_page_no = f.first_free_page_no]]]

(* create_page_handle: the head of the free list, or a new page.           *)
create_page_handle(f) ==
    IF f.first_free_page_no = RM_NO_PAGE THEN create_new_page_handle(f) ELSE f

(* Bitmap::first_bit(false, ...), num_records_per_page if there is none.   *)
first_free_slot(f, p) ==
    Min({ s \in Slot : f.page[p].slots[s] = Free } \cup {num_records_per_page})

(* The file can grow, within the bound.                                    *)
HasRoom(f) == f.first_free_page_no = RM_NO_PAGE => f.num_pages <= MaxPages

(* insert_record(buf) succeeds: fetch_page_handle accepts the head of the  *)
(* free list and that page has a slot.  Otherwise it throws.               *)
CanInsert(f) ==
    LET g == create_page_handle(f)
    IN /\ g.first_free_page_no \in 1 .. g.num_pages - 1
       /\ first_free_slot(g, g.first_free_page_no) < num_records_per_page

InsertRid(f) ==
    LET g == create_page_handle(f)
    IN <<g.first_free_page_no, first_free_slot(g, g.first_free_page_no)>>

(* The slot is written, the bit set and the record counted.                *)
FillSlot(f, rid, v) ==
    [f EXCEPT !.page[rid[1]].slots[rid[2]] = v, !.page[rid[1]].num_records = @ + 1]

(* Mutant of insert_record: a full page stays the head of the free list.   *)
insert_record_KeepsHead(f, v) ==
    LET g == create_page_handle(f)
        p == g.first_free_page_no
    IN FillSlot(g, <<p, first_free_slot(g, p)>>, v)

(* insert_record(buf): a page that becomes full leaves the free list, of   *)
(* which it is the head.                                                   *)
insert_record(f, v) ==
    LET g == create_page_handle(f)
        p == g.first_free_page_no
        h == FillSlot(g, <<p, first_free_slot(g, p)>>, v)
    IN IF IsFull(h, p)
       THEN [h EXCEPT !.first_free_page_no = h.page[p].next_free_page_no,
                      !.page[p].next_free_page_no = RM_NO_PAGE]
       ELSE h

(* insert_record(rid, buf) first calls create_new_page_handle until the    *)
(* rid's page exists: the new pages are linked in descending order in      *)
(* front of the free list.                                                 *)
CreatePagesTo(f, p) ==
    IF p < f.num_pages THEN f
    ELSE [num_pages          |-> p + 1,
          first_free_page_no |-> p,
          page |-> [q \in PageNo |->
                        IF q \in f.num_pages .. p
                        THEN [ZeroPage EXCEPT !.next_free_page_no =
                                IF q = f.num_pages THEN f.first_free_page_no ELSE q - 1]
                        ELSE f.page[q]]]

(* A page that becomes full is unlinked only if it is the head, but its    *)
(* own link is cut in any case.                                            *)
insert_record_at(f, rid, v) ==
    LET p == rid[1]
        h == FillSlot(CreatePagesTo(f, p), rid, v)
    IN IF IsFull(h, p)
       THEN [h EXCEPT !.first_free_page_no = IF @ = p THEN h.page[p].next_free_page_no ELSE @,
                      !.page[p].next_free_page_no = RM_NO_PAGE]
       ELSE h

(* Mutant of release_page_handle: the old list is not linked behind.       *)
release_page_handle_LosesTail(f, p) == [f EXCEPT !.first_free_page_no = p]

(* release_page_handle: a page that was full becomes the head, unless it   *)
(* already is.                                                             *)
release_page_handle(f, p) ==
    IF f.first_free_page_no = p THEN f
    ELSE [f EXCEPT !.page[p].next_free_page_no = f.first_free_page_no,
                   !.first_free_page_no = p]

(* Mutant of delete_record: num_records is not decremented.                *)
delete_record_Miscounts(f, rid) ==
    LET h == [f EXCEPT !.page[rid[1]].slots[rid[2]] = Free]
    IN IF IsFull(f, rid[1]) THEN release_page_handle(h, rid[1]) ELSE h

delete_record(f, rid) ==
    LET p == rid[1]
        h == [f EXCEPT !.page[p].slots[rid[2]] = Free, !.page[p].num_records = @ - 1]
    IN IF IsFull(f, p) THEN release_page_handle(h, p) ELSE h

update_record(f, rid, v) == [f EXCEPT !.page[rid[1]].slots[rid[2]] = v]

----------------------------------------------------------------------------
(* RmScan.  The cursor at the end is on page num_pages.                    *)

ScanEnd(f) == <<f.num_pages, -1>>

(* Mutant of ScanNext: slot_no is not reset to -1 for the next page.       *)
ScanNext_KeepsSlot(f, rid) ==
    LET after == { r \in Rid : is_record(f, r) /\ r[1] >= rid[1] /\ r[2] > rid[2] }
        p     == Min({ r[1] : r \in after })
    IN IF after = {} THEN ScanEnd(f)
       ELSE <<p, Min({ r[2] : r \in { q \in after : q[1] = p } })>>

(* next: the next set bit of the page, else the first one of a later page. *)
ScanNext(f, rid) ==
    LET here  == { s \in Slot : s > rid[2] /\ is_record(f, <<rid[1], s>>) }
        later == { p \in rid[1] + 1 .. f.num_pages - 1 : \E s \in Slot : is_record(f, <<p, s>>) }
    IN IF rid[1] < f.num_pages /\ here # {} THEN <<rid[1], Min(here)>>
       ELSE IF later # {} THEN <<Min(later), Min({ s \in Slot : is_record(f, <<Min(later), s>>) })>>
       ELSE ScanEnd(f)

(* for (RmScan scan(fh); !scan.is_end(); scan.next()) visits these rids.   *)
RmScan(f) ==
    LET from[rid \in (1 .. MaxPages + 1) \X (-1 .. num_records_per_page - 1)] ==
            IF rid[1] >= f.num_pages THEN << >>
            ELSE <<rid>> \o from[ScanNext(f, rid)]
    IN from[ScanNext(f, <<1, -1>>)]

(* The order of pages and slots.                                           *)
Before(r, s) == r[1] < s[1] \/ (r[1] = s[1] /\ r[2] < s[2])

----------------------------------------------------------------------------
(* What it means for a file to be well formed.                             *)

(* The pages reachable from first_free_page_no, in order.                  *)
Chain(f) ==
    { c \in UNION { [1 .. n -> PageNo] : n \in 0 .. MaxPages } :
        /\ \A i, j \in DOMAIN c : c[i] = c[j] => i = j
        /\ f.first_free_page_no = IF c = << >> THEN RM_NO_PAGE ELSE c[1]
        /\ \A i \in DOMAIN c :
            f.page[c[i]].next_free_page_no = IF i = Len(c) THEN RM_NO_PAGE ELSE c[i + 1] }

(* The free-page list that starts in the file header runs, without a       *)
(* cycle, through exactly the allocated pages that have a free slot.       *)
FreeListExact(f) ==
    \E c \in Chain(f) :
        { c[i] : i \in DOMAIN c } = { p \in PageNo : p < f.num_pages /\ ~IsFull(f, p) }

(* num_records counts the bits of the bitmap in every page.                *)
CountsExact(f) ==
    \A p \in PageNo : f.page[p].num_records = Cardinality({ s \in Slot : f.page[p].slots[s] # Free })
=============================================================================
