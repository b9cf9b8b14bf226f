--------------------------- MODULE HeapFileProofs ---------------------------
(***************************************************************************)
(* Abort restores the committed rows of a record file, whatever mix of     *)
(* inserts, deletes and updates it undoes, for any number of pages, slots, *)
(* values and write records.                                               *)
(***************************************************************************)
EXTENDS RuntimeIndex, WellFoundedInduction, TLAPS

Row == Val \cup {Free}

(* The types, without the bounds that the record counts and the free-page  *)
(* list would need.                                                        *)
PageShape == [next_free_page_no : Int, num_records : Int, slots : [Slot -> Row]]

FileShape == [num_pages : 1 .. MaxPages + 1, first_free_page_no : Int,
              page : [PageNo -> PageShape]]

(* g is f with v in the slot rid; headers and links may differ.            *)
Writes(f, g, rid, v) ==
    /\ g \in FileShape /\ g.num_pages = f.num_pages
    /\ \A q \in PageNo, s \in Slot :
        g.page[q].slots[s] = IF q = rid[1] /\ s = rid[2] THEN v ELSE f.page[q].slots[s]

(* The rows with v in the slot rid.                                        *)
Put(rows, rid, v) == [rows EXCEPT ![rid] = v]

(* g has the rows of f.                                                    *)
KeepsRows(f, g) ==
    /\ g \in FileShape /\ g.num_pages = f.num_pages
    /\ \A q \in PageNo, s \in Slot : g.page[q].slots[s] = f.page[q].slots[s]

----------------------------------------------------------------------------
(* The smallest element of a set of numbers, as Bitmap::first_bit finds it. *)
LEMMA MinOfNats ==
    ASSUME NEW T, T \subseteq Nat, T # {}
    PROVE  Min(T) \in T /\ \A y \in T : Min(T) <= y
<1>1. PICK x \in T : \A y \in T : ~ (<<y, x>> \in OpToRel(<, Nat))
  BY NatLessThanWellFounded, WFMin, Zenon
<1>2. ASSUME NEW y \in T, y < x PROVE FALSE
  <2>1. <<y, x>> \in {ss \in Nat \X Nat : ss[1] < ss[2]}
    BY <1>2
  <2> QED BY <1>1, <2>1, Zenon DEF OpToRel
<1>3. \A y \in T : x <= y
  BY <1>2
<1> QED BY <1>3, Zenon DEF Min

(* The slot insert_record(buf) takes in a page that has room is free.      *)
LEMMA FirstFreeSlot ==
    ASSUME NEW f, NEW p, first_free_slot(f, p) < num_records_per_page
    PROVE  /\ first_free_slot(f, p) \in Slot
           /\ f.page[p].slots[first_free_slot(f, p)] = Free
<1> DEFINE T == { s \in Slot : f.page[p].slots[s] = Free } \cup {num_records_per_page}
<1>1. T \subseteq Nat /\ T # {}
  BY RmFileAssumption DEF Slot
<1> HIDE DEF T
<1>2. Min(T) \in T
  BY <1>1, MinOfNats, Zenon
<1>3. first_free_slot(f, p) = Min(T)
  BY DEF first_free_slot, T
<1>4. Min(T) # num_records_per_page
  BY <1>3, RmFileAssumption
<1> QED BY <1>2, <1>3, <1>4 DEF T

----------------------------------------------------------------------------
(* The rows after a slot of an allocated page is written.                  *)
LEMMA WrittenContent ==
    ASSUME NEW f \in FileShape, NEW g, NEW rid \in Rid, NEW v \in Row,
           Writes(f, g, rid, v), rid[1] < f.num_pages
    PROVE  Content(g) = Put(Content(f), rid, v)
<1> SUFFICES ASSUME NEW r \in Rid PROVE Content(g)[r] = [Content(f) EXCEPT ![rid] = v][r]
  BY Zenon DEF Content, Put
<1>1. PICK q \in PageNo, s \in Slot : r = <<q, s>>
  BY DEF Rid
<1>2. PICK q0 \in PageNo, s0 \in Slot : rid = <<q0, s0>>
  BY DEF Rid
<1>3. Content(g)[r] = IF q < f.num_pages THEN g.page[q].slots[s] ELSE Free
  BY <1>1 DEF Content, is_record, get_record, Writes
<1>4. Content(f)[r] = IF q < f.num_pages THEN f.page[q].slots[s] ELSE Free
  BY <1>1 DEF Content, is_record, get_record
<1>5. g.page[q].slots[s] = IF q = q0 /\ s = s0 THEN v ELSE f.page[q].slots[s]
  BY <1>2 DEF Writes
<1>6. CASE r = rid
  BY <1>1, <1>2, <1>3, <1>5, <1>6 DEF Content
<1>7. CASE r # rid
  BY <1>1, <1>2, <1>3, <1>4, <1>5, <1>7 DEF Content
<1> QED BY <1>6, <1>7

(* A slot holds a record iff the row is not Free.                          *)
LEMMA RecordContent ==
    ASSUME NEW f, NEW rid \in Rid
    PROVE  /\ is_record(f, rid) <=> Content(f)[rid] # Free
           /\ is_record(f, rid) => get_record(f, rid) = Content(f)[rid]
BY DEF Content, is_record, get_record

----------------------------------------------------------------------------
(* update_record writes its slot only.                                     *)
LEMMA UpdateWrites ==
    ASSUME NEW f \in FileShape, NEW rid \in Rid, NEW v \in Row
    PROVE  Writes(f, update_record(f, rid, v), rid, v)
BY Zenon DEF Writes, update_record, FileShape, PageShape, Rid

(* A call that writes a slot and then only relinks pages writes the slot.  *)
LEMMA WritesThenKeeps ==
    ASSUME NEW f, NEW g, NEW h, NEW rid, NEW v, Writes(f, g, rid, v), KeepsRows(g, h)
    PROVE  Writes(f, h, rid, v)
BY DEF Writes, KeepsRows

(* The record count of a page is no row.                                   *)
LEMMA CountKeepsRows ==
    ASSUME NEW f \in FileShape, NEW p \in PageNo, NEW n \in Int
    PROVE  KeepsRows(f, [f EXCEPT !.page[p].num_records = n])
BY DEF KeepsRows, FileShape, PageShape

(* Neither is its link in the free-page list.                              *)
LEMMA LinkKeepsRows ==
    ASSUME NEW f \in FileShape, NEW p \in PageNo, NEW n \in Int
    PROVE  KeepsRows(f, [f EXCEPT !.page[p].next_free_page_no = n])
BY DEF KeepsRows, FileShape, PageShape

(* Filling a slot writes that slot only.                                   *)
LEMMA FillWrites ==
    ASSUME NEW f \in FileShape, NEW rid \in Rid, NEW v \in Row
    PROVE  Writes(f, FillSlot(f, rid, v), rid, v)
<1>1. PICK g : g = update_record(f, rid, v)
  OBVIOUS
<1>2. Writes(f, g, rid, v)
  BY <1>1, UpdateWrites
<1>3. rid[1] \in PageNo /\ g \in FileShape /\ g.page[rid[1]].num_records + 1 \in Int
  BY <1>2 DEF Writes, Rid, FileShape, PageShape
<1>4. FillSlot(f, rid, v) = [g EXCEPT !.page[rid[1]].num_records = g.page[rid[1]].num_records + 1]
  BY <1>1, Zenon DEF FillSlot, update_record
<1> QED BY <1>2, <1>3, <1>4, CountKeepsRows, WritesThenKeeps

(* Unlinking a full page keeps the rows.                                   *)
LEMMA UnlinkKeepsRows ==
    ASSUME NEW f \in FileShape, NEW p \in PageNo, NEW first \in Int
    PROVE  KeepsRows(f, [f EXCEPT !.first_free_page_no = first,
                                  !.page[p].next_free_page_no = RM_NO_PAGE])
<1>1. PICK g : g = [f EXCEPT !.first_free_page_no = first]
  BY Zenon
<1>2. KeepsRows(f, g)
  BY <1>1 DEF KeepsRows, FileShape
<1>3. PICK h : h = [g EXCEPT !.page[p].next_free_page_no = RM_NO_PAGE]
  BY Zenon
<1>4. KeepsRows(g, h)
  <2>1. g \in FileShape /\ RM_NO_PAGE \in Int
    BY <1>2 DEF KeepsRows, RM_NO_PAGE
  <2> QED BY <1>3, <2>1, LinkKeepsRows
<1>5. h = [f EXCEPT !.first_free_page_no = first, !.page[p].next_free_page_no = RM_NO_PAGE]
  BY <1>1, <1>3
<1> QED BY <1>2, <1>4, <1>5 DEF KeepsRows

(* release_page_handle keeps the rows.                                     *)
LEMMA ReleaseKeepsRows ==
    ASSUME NEW f \in FileShape, NEW p \in PageNo
    PROVE  KeepsRows(f, release_page_handle(f, p))
<1>1. PageNo \subseteq Int
  BY RmFileAssumption DEF PageNo
<1> QED BY <1>1, Zenon DEF KeepsRows, release_page_handle, FileShape, PageShape

(* delete_record frees its slot only.                                      *)
LEMMA DeleteWrites ==
    ASSUME NEW f \in FileShape, NEW rid \in Rid
    PROVE  Writes(f, delete_record(f, rid), rid, Free)
<1> DEFINE h == [f EXCEPT !.page[rid[1]].slots[rid[2]] = Free, !.page[rid[1]].num_records = @ - 1]
<1>1. Writes(f, h, rid, Free)
  <2>1. PICK g : g = update_record(f, rid, Free)
    OBVIOUS
  <2>2. Writes(f, g, rid, Free)
    BY <2>1, UpdateWrites DEF Row
  <2>3. rid[1] \in PageNo /\ g \in FileShape /\ g.page[rid[1]].num_records - 1 \in Int
    BY <2>2 DEF Writes, Rid, FileShape, PageShape
  <2>4. h = [g EXCEPT !.page[rid[1]].num_records = g.page[rid[1]].num_records - 1]
    BY <2>1, Zenon DEF update_record
  <2> HIDE DEF h
  <2> QED BY <2>2, <2>3, <2>4, CountKeepsRows, WritesThenKeeps
<1>2. h \in FileShape /\ rid[1] \in PageNo
  BY <1>1 DEF Writes, Rid
<1>3. delete_record(f, rid) = IF IsFull(f, rid[1]) THEN release_page_handle(h, rid[1]) ELSE h
  BY DEF delete_record
<1> HIDE DEF h
<1> QED BY <1>1, <1>2, <1>3, ReleaseKeepsRows, WritesThenKeeps

(* create_page_handle adds an empty page at most.                          *)
LEMMA CreateKeepsContent ==
    ASSUME NEW f \in FileShape, HasRoom(f)
    PROVE  /\ create_page_handle(f) \in FileShape
           /\ f.num_pages <= create_page_handle(f).num_pages
           /\ Content(create_page_handle(f)) = Content(f)
<1>1. CASE f.first_free_page_no # RM_NO_PAGE
  BY <1>1 DEF create_page_handle, FileShape
<1>2. CASE f.first_free_page_no = RM_NO_PAGE
  <2> DEFINE n == f.num_pages
             g == create_new_page_handle(f)
  <2>1. n \in PageNo /\ n \in Int /\ n + 1 \in 1 .. MaxPages + 1
    BY <1>2, RmFileAssumption DEF HasRoom, FileShape, PageNo
  <2>2. g \in FileShape /\ g.num_pages = n + 1
    BY <2>1, RmFileAssumption DEF create_new_page_handle, ZeroPage, FileShape, PageShape, Row, PageNo
  <2>3. \A q \in PageNo, s \in Slot :
          g.page[q].slots[s] = IF q = n THEN Free ELSE f.page[q].slots[s]
    BY <2>1 DEF create_new_page_handle, ZeroPage, FileShape, PageShape
  <2>4. ASSUME NEW r \in Rid PROVE Content(g)[r] = Content(f)[r]
    <3>1. PICK q \in PageNo, s \in Slot : r = <<q, s>>
      BY DEF Rid
    <3>2. Content(g)[r] = IF q < n + 1 THEN g.page[q].slots[s] ELSE Free
      BY <2>2, <3>1 DEF Content, is_record, get_record
    <3>3. Content(f)[r] = IF q < n THEN f.page[q].slots[s] ELSE Free
      BY <3>1 DEF Content, is_record, get_record
    <3>4. q \in Int
      BY RmFileAssumption DEF PageNo
    <3> HIDE DEF n, g
    <3> QED BY <2>1, <2>3, <3>2, <3>3, <3>4
  <2>5. Content(g) = Content(f)
    BY <2>4 DEF Content
  <2>6. create_page_handle(f) = g
    BY <1>2 DEF create_page_handle
  <2> QED BY <2>1, <2>2, <2>5, <2>6
<1> QED BY <1>1, <1>2

(* insert_record(buf) puts the record in a free slot and changes no other. *)
LEMMA InsertContent ==
    ASSUME NEW f \in FileShape, NEW v \in Val, HasRoom(f), CanInsert(f)
    PROVE  /\ InsertRid(f) \in Rid /\ Content(f)[InsertRid(f)] = Free
           /\ insert_record(f, v) \in FileShape
           /\ f.num_pages <= insert_record(f, v).num_pages
           /\ InsertRid(f)[1] < insert_record(f, v).num_pages
           /\ Content(insert_record(f, v)) = Put(Content(f), InsertRid(f), v)
<1>1. PICK g : g = create_page_handle(f)
  OBVIOUS
<1>2. PICK p : p = g.first_free_page_no
  OBVIOUS
<1>3. PICK s : s = first_free_slot(g, p)
  OBVIOUS
<1>4. g \in FileShape /\ f.num_pages <= g.num_pages /\ Content(g) = Content(f)
  BY <1>1, CreateKeepsContent
<1>5. p \in PageNo /\ p < g.num_pages /\ s < num_records_per_page
  <2>1. p \in 1 .. g.num_pages - 1 /\ s < num_records_per_page
    BY <1>1, <1>2, <1>3 DEF CanInsert
  <2>2. g.num_pages \in 1 .. MaxPages + 1
    BY <1>4 DEF FileShape
  <2> QED BY <2>1, <2>2, RmFileAssumption DEF PageNo
<1>6. s \in Slot /\ g.page[p].slots[s] = Free
  BY <1>3, <1>5, FirstFreeSlot
<1>7. InsertRid(f) = <<p, s>> /\ <<p, s>> \in Rid
  BY <1>1, <1>2, <1>3, <1>5, <1>6 DEF InsertRid, Rid
<1>8. Content(f)[<<p, s>>] = Free
  BY <1>4, <1>6, <1>7 DEF Content, get_record
<1>9. PICK h : h = FillSlot(g, <<p, s>>, v)
  OBVIOUS
<1>10. Writes(g, h, <<p, s>>, v)
  BY <1>4, <1>7, <1>9, FillWrites DEF Row
<1>11. Writes(g, insert_record(f, v), <<p, s>>, v)
  <2>1. h \in FileShape /\ h.page[p].next_free_page_no \in Int
    BY <1>5, <1>10 DEF Writes, FileShape, PageShape
  <2>2. insert_record(f, v) = IF IsFull(h, p)
          THEN [h EXCEPT !.first_free_page_no = h.page[p].next_free_page_no,
                         !.page[p].next_free_page_no = RM_NO_PAGE]
          ELSE h
    BY <1>1, <1>2, <1>3, <1>9 DEF insert_record
  <2>3. KeepsRows(h, [h EXCEPT !.first_free_page_no = h.page[p].next_free_page_no,
                               !.page[p].next_free_page_no = RM_NO_PAGE])
    BY <1>5, <2>1, UnlinkKeepsRows, Zenon
  <2> QED BY <1>10, <2>2, <2>3, WritesThenKeeps
<1>12. insert_record(f, v) \in FileShape /\ insert_record(f, v).num_pages = g.num_pages
  BY <1>11 DEF Writes
<1>13. Content(insert_record(f, v)) = Put(Content(g), <<p, s>>, v)
  BY <1>4, <1>5, <1>7, <1>11, WrittenContent DEF Row
<1> QED BY <1>4, <1>5, <1>7, <1>8, <1>12, <1>13

(* insert_record(rid, buf) in a page the file has writes its slot only.    *)
LEMMA InsertAtWrites ==
    ASSUME NEW f \in FileShape, NEW rid \in Rid, NEW v \in Row, rid[1] < f.num_pages
    PROVE  Writes(f, insert_record_at(f, rid, v), rid, v)
<1>1. PICK p : p = rid[1]
  OBVIOUS
<1>2. p \in PageNo /\ CreatePagesTo(f, p) = f
  BY <1>1 DEF Rid, CreatePagesTo
<1>3. PICK h : h = FillSlot(f, rid, v)
  OBVIOUS
<1>4. Writes(f, h, rid, v)
  BY <1>3, FillWrites
<1>5. PICK first : first = IF h.first_free_page_no = p THEN h.page[p].next_free_page_no
                           ELSE h.first_free_page_no
  OBVIOUS
<1>6. h \in FileShape /\ first \in Int
  BY <1>2, <1>4, <1>5 DEF Writes, FileShape, PageShape
<1>7. insert_record_at(f, rid, v) = IF IsFull(h, p)
        THEN [h EXCEPT !.first_free_page_no = first, !.page[p].next_free_page_no = RM_NO_PAGE]
        ELSE h
  BY <1>1, <1>2, <1>3, <1>5, <1>6 DEF insert_record_at, FileShape
<1>8. KeepsRows(h, [h EXCEPT !.first_free_page_no = first,
                             !.page[p].next_free_page_no = RM_NO_PAGE])
  BY <1>2, <1>6, UnlinkKeepsRows, Zenon
<1> QED BY <1>4, <1>7, <1>8, WritesThenKeeps

----------------------------------------------------------------------------
WriteRecord ==
    { w \in [wtype : {"INSERT", "DELETE", "UPDATE"}, rid : Rid, old : Row] :
        w.wtype = "INSERT" => w.old = Free }

Rows == [Rid -> Row]

(* h[1] to h[Len(ws) + 1] are the rows before the first record of a write  *)
(* set, between any two and after the last one: each record has the old    *)
(* row of its slot, and its type says whether there is a row after it.     *)
History(h, ws, first, last) ==
    /\ h \in [1 .. Len(ws) + 1 -> Rows]
    /\ h[1] = first /\ h[Len(ws) + 1] = last
    /\ \A i \in 1 .. Len(ws) :
        /\ h[i] = Put(h[i + 1], ws[i].rid, ws[i].old)
        /\ ws[i].wtype = "DELETE" <=> h[i + 1][ws[i].rid] = Free

HeapInv ==
    /\ file \in FileShape
    /\ write_set \in Seq(WriteRecord)
    /\ \A i \in 1 .. Len(write_set) : write_set[i].rid[1] < file.num_pages
    /\ \E h : History(h, write_set, committed, Content(file))

(* The rows of a file are rows.                                            *)
LEMMA ContentType ==
    ASSUME NEW f \in FileShape PROVE Content(f) \in Rows
BY DEF Content, get_record, FileShape, PageShape, Rid, Row, Rows

(* A transaction that has written nothing has a history.                   *)
LEMMA HistoryEmpty ==
    ASSUME NEW c \in Rows PROVE \E h : History(h, << >>, c, c)
<1>1. PICK h : h = [i \in 1 .. 1 |-> c]
  BY Zenon
<1> QED BY <1>1 DEF History

(* k is h on 1 .. n, and c after it.                                       *)
Prolongs(k, h, n, c) ==
    k \in [1 .. n + 1 -> Rows] /\ k[n + 1] = c /\ \A i \in 1 .. n : k[i] = h[i]

(* A sequence of rows can be prolonged.                                    *)
LEMMA Prolonged ==
    ASSUME NEW n \in Nat, NEW h \in [1 .. n -> Rows], NEW c \in Rows
    PROVE  \E k : Prolongs(k, h, n, c)
<1>1. PICK k : k = [i \in 1 .. n + 1 |-> IF i = n + 1 THEN c ELSE h[i]]
  BY Zenon
<1>2. \A i \in 1 .. n + 1 : i = n + 1 \/ i \in 1 .. n
  OBVIOUS
<1>3. k \in [1 .. n + 1 -> Rows]
  BY <1>1, <1>2
<1>4. k[n + 1] = c /\ \A i \in 1 .. n : k[i] = h[i]
  BY <1>1
<1> QED BY <1>3, <1>4 DEF Prolongs

(* A statement that writes one row, and its write record, prolong it.      *)
LEMMA HistoryGrows ==
    ASSUME NEW ws \in Seq(WriteRecord), NEW first, NEW last \in Rows,
           NEW h, History(h, ws, first, last),
           NEW w \in WriteRecord, NEW v \in Row,
           w.old = last[w.rid], w.wtype = "DELETE" <=> v = Free
    PROVE  \E k : History(k, Append(ws, w), first, Put(last, w.rid, v))
<1>1. PICK n \in Nat : n = Len(ws)
  OBVIOUS
<1>2. PICK now : now = Put(last, w.rid, v)
  OBVIOUS
<1>3. w.rid \in Rid
  BY DEF WriteRecord
<1>4. now \in Rows /\ now[w.rid] = v /\ last = Put(now, w.rid, w.old)
  BY <1>2, <1>3, Zenon DEF Rows, Put
<1>5. h \in [1 .. n + 1 -> Rows] /\ h[1] = first /\ h[n + 1] = last
  BY <1>1 DEF History
<1>6. PICK k : /\ k \in [1 .. (n + 1) + 1 -> Rows] /\ k[(n + 1) + 1] = now
               /\ \A i \in 1 .. n + 1 : k[i] = h[i]
  <2>1. PICK m \in Nat : m = n + 1
    OBVIOUS
  <2>2. h \in [1 .. m -> Rows] /\ now \in Rows
    BY <1>4, <1>5, <2>1
  <2>3. PICK k : Prolongs(k, h, m, now)
    BY <2>2, Prolonged
  <2> QED BY <2>1, <2>3 DEF Prolongs
<1>7. PICK us : us = Append(ws, w)
  BY Zenon
<1>8. us \in Seq(WriteRecord) /\ Len(us) = n + 1 /\ us[n + 1] = w /\ \A i \in 1 .. n : us[i] = ws[i]
  BY <1>1, <1>7
<1>9. ASSUME NEW i \in 1 .. n + 1
      PROVE  /\ k[i] = Put(k[i + 1], us[i].rid, us[i].old)
             /\ us[i].wtype = "DELETE" <=> k[i + 1][us[i].rid] = Free
  <2>1. CASE i = n + 1
    <3>1. k[i] = last /\ k[i + 1] = now /\ us[i] = w
      BY <1>5, <1>6, <1>8, <2>1
    <3> QED BY <1>4, <3>1
  <2>2. CASE i \in 1 .. n
    <3>1. i \in 1 .. n + 1 /\ i + 1 \in 1 .. n + 1
      BY <2>2
    <3>2. k[i] = h[i] /\ k[i + 1] = h[i + 1] /\ us[i] = ws[i]
      BY <1>6, <1>8, <2>2, <3>1
    <3>3. /\ h[i] = Put(h[i + 1], ws[i].rid, ws[i].old)
          /\ ws[i].wtype = "DELETE" <=> h[i + 1][ws[i].rid] = Free
      BY <1>1, <2>2 DEF History
    <3> QED BY <3>2, <3>3
  <2> QED BY <2>1, <2>2
<1>10. k[1] = first
  BY <1>5, <1>6
<1>11. History(k, us, first, now)
  BY <1>6, <1>8, <1>9, <1>10 DEF History
<1> QED BY <1>2, <1>7, <1>11

(* Its last record undone, the rest is a history still.                    *)
LEMMA HistoryShrinks ==
    ASSUME NEW ws \in Seq(WriteRecord), ws # << >>, NEW first, NEW last,
           NEW h, History(h, ws, first, last)
    PROVE  /\ Last(ws).wtype = "DELETE" <=> last[Last(ws).rid] = Free
           /\ \E k : History(k, Front(ws), first, Put(last, Last(ws).rid, Last(ws).old))
<1>1. PICK n \in Nat : n + 1 = Len(ws)
  <2>1. Len(ws) \in Nat /\ Len(ws) # 0
    OBVIOUS
  <2> QED BY <2>1
<1>2. Last(ws) = ws[n + 1]
  BY <1>1 DEF Last
<1>3. PICK us : us = Front(ws)
  OBVIOUS
<1>4. Len(us) = n /\ \A i \in 1 .. n : us[i] = ws[i]
  BY <1>1, <1>3 DEF Front
<1>5. h \in [1 .. (n + 1) + 1 -> Rows] /\ h[1] = first /\ h[(n + 1) + 1] = last
  BY <1>1 DEF History
<1>6. \A i \in 1 .. n + 1 : /\ h[i] = Put(h[i + 1], ws[i].rid, ws[i].old)
                            /\ ws[i].wtype = "DELETE" <=> h[i + 1][ws[i].rid] = Free
  BY <1>1 DEF History
<1>7. /\ h[n + 1] = Put(last, Last(ws).rid, Last(ws).old)
      /\ Last(ws).wtype = "DELETE" <=> last[Last(ws).rid] = Free
  <2>1. n + 1 \in 1 .. n + 1
    OBVIOUS
  <2> QED BY <1>2, <1>5, <1>6, <2>1
<1>8. PICK k : k = [i \in 1 .. n + 1 |-> h[i]]
  BY Zenon
<1>9. k \in [1 .. n + 1 -> Rows] /\ \A i \in 1 .. n + 1 : k[i] = h[i]
  BY <1>5, <1>8
<1>10. k[1] = first /\ k[n + 1] = h[n + 1]
  BY <1>5, <1>9
<1>11. ASSUME NEW i \in 1 .. n
       PROVE  /\ k[i] = Put(k[i + 1], us[i].rid, us[i].old)
              /\ us[i].wtype = "DELETE" <=> k[i + 1][us[i].rid] = Free
  <2>1. i \in 1 .. n + 1 /\ i + 1 \in 1 .. n + 1
    OBVIOUS
  <2> QED BY <1>4, <1>6, <1>9, <2>1, Zenon
<1>12. History(k, us, first, h[n + 1])
  BY <1>4, <1>9, <1>10, <1>11 DEF History
<1> QED BY <1>3, <1>7, <1>12

----------------------------------------------------------------------------
(* A statement that writes one row keeps the invariant.                    *)
LEMMA LogStep ==
    ASSUME HeapInv, NEW w \in WriteRecord, NEW v \in Row,
           write_set' = Append(write_set, w), committed' = committed,
           file' \in FileShape, file.num_pages <= file'.num_pages,
           w.rid[1] < file'.num_pages,
           Content(file') = Put(Content(file), w.rid, v),
           w.old = Content(file)[w.rid],
           w.wtype = "DELETE" <=> v = Free
    PROVE  HeapInv'
<1>1. write_set \in Seq(WriteRecord) /\ write_set' = Append(write_set, w) /\ committed' = committed
  BY DEF HeapInv
<1>2. write_set' \in Seq(WriteRecord)
  BY <1>1
<1>3. Content(file) \in Rows
  BY ContentType DEF HeapInv
<1>4. PICK h : History(h, write_set, committed, Content(file))
  BY DEF HeapInv
<1>5. \E k : History(k, write_set', committed', Content(file'))
  <2>1. \E k : History(k, Append(write_set, w), committed, Put(Content(file), w.rid, v))
    <3>1. write_set \in Seq(WriteRecord)
      BY <1>1
    <3> QED BY <1>3, <1>4, <3>1, HistoryGrows, Zenon
  <2> QED BY <1>1, <2>1
<1>6. \A i \in 1 .. Len(write_set') : write_set'[i].rid[1] < file'.num_pages
  <2>1. PICK n \in Nat : n = Len(write_set)
    BY <1>1
  <2>2. Len(write_set') = n + 1 /\ write_set'[n + 1] = w /\ \A i \in 1 .. n : write_set'[i] = write_set[i]
    BY <1>1, <2>1
  <2>3. ASSUME NEW i \in 1 .. n PROVE write_set[i].rid[1] < file'.num_pages
    <3>1. write_set[i] \in WriteRecord /\ write_set[i].rid[1] < file.num_pages
      BY <2>1 DEF HeapInv
    <3>2. write_set[i].rid[1] \in Int
      BY <3>1, RmFileAssumption DEF WriteRecord, Rid, PageNo
    <3>3. file.num_pages \in Int /\ file'.num_pages \in Int
      BY RmFileAssumption DEF HeapInv, FileShape
    <3> QED BY <3>1, <3>2, <3>3
  <2> SUFFICES ASSUME NEW i \in 1 .. n + 1 PROVE write_set'[i].rid[1] < file'.num_pages
    BY <2>2
  <2>4. i = n + 1 \/ i \in 1 .. n
    BY <2>1
  <2> QED BY <2>2, <2>3, <2>4
<1> QED BY <1>2, <1>5, <1>6 DEF HeapInv

(* The executors write one row and log the old one.                        *)
LEMMA WriteStep ==
    ASSUME HeapInv
    PROVE  /\ \A v \in Val : InsertExecutor(v) => HeapInv'
           /\ \A rid \in Rid : DeleteExecutor(rid) => HeapInv'
           /\ \A rid \in Rid, v \in Val : UpdateExecutor(rid, v) => HeapInv'
           /\ \A rid \in Rid : UpdateThrows(rid) => HeapInv'
<1>1. file \in FileShape
  BY DEF HeapInv
<1>2. ASSUME NEW v \in Val, InsertExecutor(v) PROVE HeapInv'
  <2>1. PICK rid : rid = InsertRid(file)
    OBVIOUS
  <2>2. /\ rid \in Rid /\ Content(file)[rid] = Free
        /\ file' \in FileShape /\ file.num_pages <= file'.num_pages /\ rid[1] < file'.num_pages
        /\ Content(file') = Put(Content(file), rid, v)
    BY <1>1, <1>2, <2>1, InsertContent DEF InsertExecutor
  <2>3. PICK w : w = INSERT_TUPLE(rid)
    OBVIOUS
  <2>4. w \in WriteRecord /\ w.rid = rid /\ w.old = Free /\ w.wtype # "DELETE"
    BY <2>2, <2>3 DEF WriteRecord, INSERT_TUPLE, Row
  <2>5. write_set' = Append(write_set, w) /\ committed' = committed /\ v \in Row /\ v # Free
    BY <1>2, <2>1, <2>3, RmFileAssumption DEF InsertExecutor, Log, Row
  <2> QED BY <2>2, <2>4, <2>5, LogStep
<1>3. ASSUME NEW rid \in Rid, DeleteExecutor(rid) PROVE HeapInv'
  <2>1. is_record(file, rid) /\ rid[1] < file.num_pages
    BY <1>3 DEF DeleteExecutor, is_record
  <2>2. PICK old : old = get_record(file, rid)
    OBVIOUS
  <2>3. old = Content(file)[rid] /\ old \in Row
    BY <1>1, <2>1, <2>2, RecordContent, ContentType DEF Rows
  <2>4. Free \in Row
    BY DEF Row
  <2>5. Writes(file, file', rid, Free)
    BY <1>1, <1>3, DeleteWrites DEF DeleteExecutor
  <2>6. Content(file') = Put(Content(file), rid, Free)
    <3>1. rid[1] < file.num_pages
      BY <2>1
    <3>2. Free \in Row
      BY <2>4
    <3> QED BY <1>1, <2>5, <3>1, <3>2, WrittenContent, Zenon
  <2>7. file' \in FileShape /\ file'.num_pages = file.num_pages
    BY <2>5 DEF Writes
  <2>8. PICK w : w = DELETE_TUPLE(rid, old)
    OBVIOUS
  <2>9. w \in WriteRecord /\ w.rid = rid /\ w.old = old /\ w.wtype = "DELETE"
    BY <2>3, <2>8 DEF WriteRecord, DELETE_TUPLE
  <2>10. write_set' = Append(write_set, w) /\ committed' = committed
    BY <1>3, <2>2, <2>8 DEF DeleteExecutor, Log
  <2>11. file.num_pages <= file'.num_pages /\ rid[1] < file'.num_pages
    <3>1. file.num_pages \in Int
      BY <1>1, RmFileAssumption DEF FileShape
    <3> QED BY <2>1, <2>7, <3>1
  <2> QED BY <2>3, <2>4, <2>6, <2>7, <2>9, <2>10, <2>11, LogStep
<1>4. ASSUME NEW rid \in Rid, NEW v \in Val, UpdateExecutor(rid, v) PROVE HeapInv'
  <2>1. is_record(file, rid) /\ rid[1] < file.num_pages
    BY <1>4 DEF UpdateExecutor, is_record
  <2>2. PICK old : old = get_record(file, rid)
    OBVIOUS
  <2>3. old = Content(file)[rid] /\ old \in Row
    BY <1>1, <2>1, <2>2, RecordContent, ContentType DEF Rows
  <2>4. v \in Row /\ v # Free
    BY RmFileAssumption DEF Row
  <2>5. Writes(file, file', rid, v)
    BY <1>1, <1>4, <2>4, UpdateWrites DEF UpdateExecutor
  <2>6. Content(file') = Put(Content(file), rid, v)
    <3>1. rid[1] < file.num_pages
      BY <2>1
    <3>2. v \in Row
      BY <2>4
    <3> QED BY <1>1, <2>5, <3>1, <3>2, WrittenContent, Zenon
  <2>7. file' \in FileShape /\ file'.num_pages = file.num_pages
    BY <2>5 DEF Writes
  <2>8. PICK w : w = UPDATE_TUPLE(rid, old)
    OBVIOUS
  <2>9. w \in WriteRecord /\ w.rid = rid /\ w.old = old /\ w.wtype # "DELETE"
    BY <2>3, <2>8 DEF WriteRecord, UPDATE_TUPLE
  <2>10. write_set' = Append(write_set, w) /\ committed' = committed
    BY <1>4, <2>2, <2>8 DEF UpdateExecutor, Log
  <2>11. file.num_pages <= file'.num_pages /\ rid[1] < file'.num_pages
    <3>1. file.num_pages \in Int
      BY <1>1, RmFileAssumption DEF FileShape
    <3> QED BY <2>1, <2>7, <3>1
  <2> QED BY <2>3, <2>4, <2>6, <2>7, <2>9, <2>10, <2>11, LogStep
<1>5. ASSUME NEW rid \in Rid, UpdateThrows(rid) PROVE HeapInv'
  <2>1. is_record(file, rid) /\ rid[1] < file.num_pages /\ file' = file
    BY <1>5 DEF UpdateThrows, is_record
  <2>2. PICK old : old = get_record(file, rid)
    OBVIOUS
  <2>3. old = Content(file)[rid] /\ old \in Row /\ old # Free
    BY <1>1, <2>1, <2>2, RecordContent, ContentType DEF Rows
  <2>4. Content(file') = Put(Content(file), rid, old)
    BY <1>1, <2>1, <2>3, ContentType DEF Put, Rows
  <2>5. PICK w : w = UPDATE_TUPLE(rid, old)
    OBVIOUS
  <2>6. w \in WriteRecord /\ w.rid = rid /\ w.old = old /\ w.wtype # "DELETE"
    BY <2>3, <2>5 DEF WriteRecord, UPDATE_TUPLE
  <2>7. write_set' = Append(write_set, w) /\ committed' = committed
    BY <1>5, <2>2, <2>5 DEF UpdateThrows
  <2>8. file' \in FileShape /\ file.num_pages <= file'.num_pages /\ rid[1] < file'.num_pages
    <3>1. file.num_pages \in Int
      BY <1>1, RmFileAssumption DEF FileShape
    <3> QED BY <1>1, <2>1, <3>1
  <2> QED BY <2>3, <2>4, <2>6, <2>7, <2>8, LogStep
<1> QED BY <1>2, <1>3, <1>4, <1>5

(* Undoing a write record whose row is as the record left it puts back     *)
(* the row it has saved.                                                   *)
LEMMA UndoWrites ==
    ASSUME NEW f \in FileShape, NEW w \in WriteRecord, w.rid[1] < f.num_pages,
           w.wtype = "DELETE" <=> Content(f)[w.rid] = Free
    PROVE  Writes(f, Undo(f, w), w.rid, w.old)
<1>1. w.rid \in Rid /\ w.old \in Row /\ w.wtype \in {"INSERT", "DELETE", "UPDATE"}
  BY DEF WriteRecord
<1>2. CASE w.wtype = "INSERT"
  <2>1. w.old = Free /\ is_record(f, w.rid)
    BY <1>1, <1>2, RecordContent DEF WriteRecord
  <2>2. Undo(f, w) = delete_record(f, w.rid)
    BY <1>2, <2>1 DEF Undo
  <2> QED BY <1>1, <2>1, <2>2, DeleteWrites
<1>3. CASE w.wtype = "DELETE"
  BY <1>1, <1>3, InsertAtWrites DEF Undo
<1>4. CASE w.wtype = "UPDATE"
  BY <1>1, <1>4, UpdateWrites DEF Undo
<1> QED BY <1>1, <1>2, <1>3, <1>4

(* A round of abort's loop takes the last write record off the history.    *)
LEMMA UndoStep ==
    ASSUME HeapInv, UndoLast PROVE HeapInv'
<1>1. /\ file \in FileShape /\ write_set \in Seq(WriteRecord) /\ write_set # << >>
      /\ file' = Undo(file, Last(write_set)) /\ write_set' = Front(write_set) /\ committed' = committed
  BY DEF HeapInv, UndoLast
<1>2. PICK n \in Nat : n + 1 = Len(write_set)
  <2>1. Len(write_set) \in Nat /\ Len(write_set) # 0
    BY <1>1
  <2>2. PICK len \in Nat : len = Len(write_set) /\ len # 0
    BY <2>1
  <2>3. len - 1 \in Nat /\ (len - 1) + 1 = len
    BY <2>2
  <2> QED BY <2>2, <2>3
<1>3. PICK w : w = Last(write_set)
  OBVIOUS
<1>4. w = write_set[n + 1] /\ n + 1 \in 1 .. Len(write_set)
  BY <1>2, <1>3 DEF Last
<1>5. w \in WriteRecord /\ w.rid[1] < file.num_pages
  BY <1>1, <1>4 DEF HeapInv
<1>6. PICK h : History(h, write_set, committed, Content(file))
  BY DEF HeapInv
<1>7. /\ w.wtype = "DELETE" <=> Content(file)[w.rid] = Free
      /\ \E k : History(k, write_set', committed, Put(Content(file), w.rid, w.old))
  BY <1>1, <1>3, <1>6, HistoryShrinks
<1>8. Writes(file, file', w.rid, w.old)
  BY <1>1, <1>3, <1>5, <1>7, UndoWrites
<1>9. Content(file') = Put(Content(file), w.rid, w.old)
  <2>1. w.rid \in Rid /\ w.old \in Row
    BY <1>5 DEF WriteRecord
  <2>2. file \in FileShape /\ w.rid[1] < file.num_pages
    BY <1>1, <1>5
  <2> QED BY <1>8, <2>1, <2>2, WrittenContent, Zenon
<1>10. file' \in FileShape /\ file'.num_pages = file.num_pages
  BY <1>8 DEF Writes
<1>11. write_set' \in Seq(WriteRecord) /\ Len(write_set') = n /\ \A i \in 1 .. n : write_set'[i] = write_set[i]
  BY <1>1, <1>2 DEF Front
<1>12. \A i \in 1 .. Len(write_set') : write_set'[i].rid[1] < file'.num_pages
  BY <1>2, <1>10, <1>11 DEF HeapInv
<1> QED BY <1>1, <1>7, <1>9, <1>10, <1>11, <1>12 DEF HeapInv

(* commit starts a new history from the rows it leaves.                    *)
LEMMA CommitStep ==
    ASSUME HeapInv, Commit PROVE HeapInv'
<1>1. file' = file /\ write_set' = << >> /\ committed' = Content(file') /\ file \in FileShape
  BY DEF HeapInv, Commit
<1>2. Content(file') \in Rows
  BY <1>1, ContentType
<1>3. \E h : History(h, write_set', committed', Content(file'))
  BY <1>1, <1>2, HistoryEmpty
<1> QED BY <1>1, <1>3 DEF HeapInv

(* HeapInv is an inductive invariant of a table under any sequence of      *)
(* statements, commits and aborts.                                         *)
THEOREM HeapInvariant == Spec => []HeapInv
<1>1. ASSUME Init PROVE HeapInv
  <2>1. EmptyFile \in FileShape
    BY RmFileAssumption DEF EmptyFile, ZeroPage, FileShape, PageShape, Row, RM_NO_PAGE
  <2>2. Content(EmptyFile) \in Rows
    BY <2>1, ContentType
  <2>3. \E h : History(h, write_set, committed, Content(file))
    BY <1>1, <2>2, HistoryEmpty DEF Init
  <2> QED BY <1>1, <2>1, <2>3 DEF Init, HeapInv
<1>2. ASSUME HeapInv, [Next]_vars PROVE HeapInv'
  <2>1. CASE \E v \in Val : InsertExecutor(v)
    BY <1>2, <2>1, WriteStep
  <2>2. CASE \E rid \in Rid : DeleteExecutor(rid)
    BY <1>2, <2>2, WriteStep
  <2>3. CASE \E rid \in Rid, v \in Val : UpdateExecutor(rid, v)
    BY <1>2, <2>3, WriteStep
  <2>4. CASE Commit
    BY <1>2, <2>4, CommitStep
  <2>5. CASE UndoLast
    BY <1>2, <2>5, UndoStep
  <2>6. CASE StatementThrows \/ Abort \/ AbortDone \/ UNCHANGED vars
    BY <1>2, <2>6 DEF HeapInv, StatementThrows, Abort, AbortDone, vars
  <2>7. CASE \E rid \in Rid : UpdateThrows(rid)
    BY <1>2, <2>7, WriteStep
  <2> QED BY <1>2, <2>1, <2>2, <2>3, <2>4, <2>5, <2>6, <2>7 DEF Next
<1> QED BY <1>1, <1>2, PTL DEF Spec

(* TransactionManager::abort makes a transaction's changes invisible: when *)
(* its loop has emptied the write set, the rows are the committed ones,    *)
(* whatever slots the transaction took, freed and took again.              *)
THEOREM AbortRestoresRows == Spec => []AbortRestores
<1>1. ASSUME HeapInv PROVE AbortRestores
  BY <1>1 DEF HeapInv, History, AbortRestores
<1> QED BY <1>1, HeapInvariant, PTL

(* Every undo of abort applies: the record that an insert or an update     *)
(* left is there, and the slot that a delete left is free, so that         *)
(* insert_record(rid) never throws for a duplicate rid.                    *)
THEOREM UndoAlwaysApplies == Spec => []UndoApplies
<1>1. ASSUME HeapInv PROVE UndoApplies
  <2> SUFFICES ASSUME write_set # << >>
               PROVE  Last(write_set).wtype = "DELETE" <=> ~is_record(file, Last(write_set).rid)
    BY DEF UndoApplies
  <2>1. write_set \in Seq(WriteRecord) /\ Last(write_set) = write_set[Len(write_set)]
    BY <1>1 DEF HeapInv, Last
  <2>2. Last(write_set).rid \in Rid
    BY <2>1 DEF WriteRecord
  <2>3. PICK h : History(h, write_set, committed, Content(file))
    BY <1>1 DEF HeapInv
  <2>4. Last(write_set).wtype = "DELETE" <=> Content(file)[Last(write_set).rid] = Free
    BY <2>1, <2>3, HistoryShrinks
  <2> QED BY <2>2, <2>4, RecordContent
<1> QED BY <1>1, HeapInvariant, PTL

----------------------------------------------------------------------------
(* The table with its indexes.                                             *)

(* abort is about to undo a write record that an index refuses.            *)
UndoRefused == state = "undoing" /\ write_set # << >> /\ UndoThrows(Last(write_set))

(* A table with unique indexes, created and dropped at any time, behaves   *)
(* like one without them until an index refuses an undo of abort.          *)
THEOREM IndexedTable == IndexSpec /\ []~UndoRefused => Spec
<1>1. IndexInit => Init
  BY DEF IndexInit
<1>2. ASSUME ~UndoRefused, [IndexNext]_<<vars, indexVars>> PROVE [Next]_vars
  <2>1. CASE UNCHANGED <<vars, indexVars>>
    BY <2>1
  <2>2. CASE \E row \in Val : InsertRow(row) \/ InsertRefused(row)
    BY <2>2 DEF InsertRow, InsertRefused, Next
  <2>3. CASE \E rid \in Rid : DeleteRow(rid)
    BY <2>3 DEF DeleteRow, Next
  <2>4. CASE \E rid \in Rid, row \in Val : UpdateRow(rid, row) \/ UpdateRefused(rid, row)
    BY <2>4 DEF UpdateRow, UpdateRefused, Next
  <2>5. CASE CommitRows \/ AbortRows \/ AbortRowsDone
    BY <2>5 DEF CommitRows, AbortRows, AbortRowsDone, Next
  <2>6. CASE UndoRow
    BY <1>2, <2>6 DEF UndoRow, UndoRefused, Next
  <2>7. CASE \E i \in Index : create_index(i) \/ drop_index(i)
    BY <2>7 DEF create_index, drop_index, Next, vars
  <2>8. CASE Restart
    BY <2>8 DEF Restart
  <2> QED BY <1>2, <2>1, <2>2, <2>3, <2>4, <2>5, <2>6, <2>7, <2>8 DEF IndexNext
<1> QED BY <1>1, <1>2, PTL DEF IndexSpec, Spec

(* A refused undo is the only way in which an abort can leave rows behind: *)
(* whatever DDL comes between the writes of a transaction, its rows are    *)
(* gone after abort if no undo has thrown.                                 *)
THEOREM IndexedAbortRestores == IndexSpec /\ []~UndoRefused => []AbortRestores
BY IndexedTable, AbortRestoresRows, PTL
=============================================================================
