------------------------ MODULE BufferPoolRefinement ------------------------
(***************************************************************************)
(* The buffer pool implements PageStore.  A page reads as the bytes of its *)
(* frame, or as what is on disk; the invariant PoolInv makes the two agree *)
(* whenever a page moves from one to the other.                            *)
(***************************************************************************)
EXTENDS BufferPoolProofs

(* The refinement mapping's value for PageStore's content.                 *)
Content == [p \in PageId |-> IF p \in deleted THEN Zero ELSE View[p]]

(* What the mapping is made of has PageStore's types.                      *)
LEMMA ViewType == ASSUME TypeOK PROVE View \in [PageId -> Data]
<1>1. ASSUME NEW p \in PageId
      PROVE  (IF page_table[p] # NoFrame THEN data[page_table[p]] ELSE ContentOn(disk, p)) \in Data
  <2>1. ContentOn(disk, p) \in Data
    BY ContentType DEF TypeOK
  <2>2. page_table[p] # NoFrame => data[page_table[p]] \in Data
    BY DEF TypeOK
  <2> QED BY <2>1, <2>2
<1> QED BY <1>1 DEF View

(* A step that leaves what pages read as alone leaves Content alone.       *)
LEMMA SameContent ==
    ASSUME View' = View, deleted' = deleted PROVE Content' = Content
BY DEF Content

(* The entry of a page that is in no frame is not the victim's.            *)
LEMMA WriteBackElsewhere ==
    ASSUME PoolInv, NEW v \in Frame, NEW p \in PageId, page_table[p] = NoFrame
    PROVE  WriteBack(v)[p] = disk[p]
<1>1. page_id[v] # NoPage => page_id[v] \in PageId /\ page_id[v] # p
  BY PoolAssumption DEF PoolInv, TypeOK, MappingConsistent
<1> QED BY <1>1 DEF WriteBack, PoolInv, TypeOK

(* fetch_page, found or read from disk.                                    *)
LEMMA FetchHitMaps ==
    ASSUME PoolInv, NEW t \in Thread, NEW p \in PageId, FetchHit(t, p)
    PROVE  Store!Fetch(t, p)
<1>1. View' = View /\ deleted' = deleted /\ fd2pageno' = fd2pageno
  BY DEF FetchHit, View, ContentOn, diskVars
<1>2. Content' = Content
  BY <1>1, SameContent
<1>3. /\ p[2] < fd2pageno[p[1]] /\ held_page[t] = NoPage
      /\ held_page' = [held_page EXCEPT ![t] = p]
  BY DEF FetchHit, Fetchable, Holding, Hold
<1> QED BY <1>1, <1>2, <1>3 DEF Store!Fetch, Store!Take, Content

LEMMA FetchMissMaps ==
    ASSUME PoolInv, NEW t \in Thread, NEW p \in PageId, FetchMiss(t, p)
    PROVE  Store!Fetch(t, p)
<1>1. /\ p[2] < fd2pageno[p[1]] /\ held_page[t] = NoPage
      /\ held_page' = [held_page EXCEPT ![t] = p]
      /\ fd2pageno' = fd2pageno /\ deleted' = deleted
      /\ page_table[p] = NoFrame /\ TakeVictimPage
      /\ UpdatePage(VictimPage, p, ContentOn(WriteBack(VictimPage), p), 1)
  BY DEF FetchMiss, Fetchable, Holding, Hold
<1>2. VictimPage \in Frame
  BY <1>1, VictimIsIdle
<1>3. ContentOn(WriteBack(VictimPage), p) = ContentOn(disk, p)
  BY <1>1, <1>2, WriteBackElsewhere DEF ContentOn
<1>4. ContentOn(disk, p) \in Data
  BY ContentType DEF PoolInv, TypeOK
<1>5. View' = [View EXCEPT ![p] = ContentOn(disk, p)]
  BY <1>1, <1>3, <1>4, InstallViews
<1>6. View[p] = ContentOn(disk, p) /\ View \in [PageId -> Data]
  BY <1>1, ViewType DEF View, PoolInv
<1>7. View' = View
  BY <1>5, <1>6
<1>8. Content' = Content
  BY <1>1, <1>7, SameContent
<1> QED BY <1>1, <1>8 DEF Store!Fetch, Store!Take, Content

(* A failed read_page installs zeroes for a page that reads as zeroes.     *)
LEMMA ShortReadMaps ==
    ASSUME PoolInv, NEW t \in Thread, NEW p \in PageId, FetchShortRead(t, p)
    PROVE  Content' = Content /\ UNCHANGED << held_page, fd2pageno, deleted >>
<1>1. /\ fd2pageno' = fd2pageno /\ deleted' = deleted /\ held_page' = held_page
      /\ page_table[p] = NoFrame /\ TakeVictimPage
      /\ UpdatePage(VictimPage, p, Zero, 0) /\ ~Readable(WriteBack(VictimPage), p)
  BY DEF FetchShortRead, threadVars
<1>2. VictimPage \in Frame
  BY <1>1, VictimIsIdle
<1>3. WriteBack(VictimPage)[p] = disk[p]
  BY <1>1, <1>2, WriteBackElsewhere
<1>4. p = <<p[1], p[2]>> /\ p[2] \in p[2] .. MaxPageNo
  BY PoolAssumption DEF PageId
<1>5. disk[p] = Absent
  BY <1>1, <1>3, <1>4 DEF Readable
<1>6. View[p] = Zero /\ View \in [PageId -> Data]
  BY <1>1, <1>5, ViewType DEF View, ContentOn, PoolInv
<1>7. View' = [View EXCEPT ![p] = Zero]
  BY <1>1, InstallViews, PoolAssumption
<1>8. View' = View
  BY <1>6, <1>7
<1> QED BY <1>1, <1>8, SameContent

(* new_page.                                                               *)
LEMMA NewPageMaps ==
    ASSUME PoolInv, NEW t \in Thread, NEW fd \in Fd, NewPage(t, fd)
    PROVE  \E p \in PageId : Store!Create(t, p)
<1> DEFINE p == <<fd, fd2pageno[fd]>>
<1>1. /\ held_page[t] = NoPage /\ held_page' = [held_page EXCEPT ![t] = p]
      /\ fd2pageno[fd] <= MaxPageNo
      /\ fd2pageno' = [fd2pageno EXCEPT ![fd] = @ + 1] /\ deleted' = deleted
      /\ TakeVictimPage /\ UpdatePage(VictimPage, p, Zero, 1)
  BY DEF NewPage, Holding, Hold
<1>2. p \in PageId /\ p[1] = fd /\ p[2] = fd2pageno[fd]
  BY <1>1, PoolAssumption DEF PageId, PoolInv, TypeOK
<1>3. page_table[p] = NoFrame
  <2>1. p[2] >= fd2pageno[p[1]]
    BY <1>1, <1>2 DEF PoolInv, TypeOK
  <2> QED BY <1>2, <2>1 DEF PoolInv, FreshUnmapped
<1>4. PICK q \in PageId : q = p
  BY <1>2
<1>5. View' = [View EXCEPT ![q] = Zero]
  BY <1>1, <1>3, <1>4, InstallViews, PoolAssumption
<1>6. Content' = [Content EXCEPT ![q] = Zero]
  <2>1. View \in [PageId -> Data]
    BY ViewType DEF PoolInv
  <2> QED BY <1>1, <1>5, <2>1 DEF Content
<1> HIDE DEF p
<1>7. Store!Create(t, q)
  BY <1>1, <1>2, <1>4, <1>6 DEF Store!Create, Store!Take, Content
<1> QED BY <1>7

(* A thread writes the bytes of the page it holds.                         *)
LEMMA WriteDataMaps ==
    ASSUME PoolInv, NEW t \in Thread, NEW x \in Data, WriteData(t, x)
    PROVE  Store!Write(t, x)
<1>0. Holding(t)
  BY DEF WriteData
<1>1. PICK g \in Frame, q \in PageId : /\ g = held_frame[t] /\ q = held_page[t]
                                       /\ page_table[q] = g /\ page_id[g] = q
  BY <1>0, HeldIsMapped DEF PoolInv
<1>2. /\ data' = [data EXCEPT ![g] = x]
      /\ UNCHANGED << page_table, disk, fd2pageno, held_page, deleted >>
  BY <1>1 DEF WriteData, diskVars
<1>3. g # NoFrame
  BY PoolAssumption
<1>4. \A p \in PageId \ {q} : page_table[p] # NoFrame => page_table[p] \in Frame \ {g}
  BY <1>1 DEF PoolInv, TypeOK, MappingConsistent
<1>5. View' = [View EXCEPT ![q] = x]
  <2>1. \A p \in PageId : View'[p] = IF p = q THEN x ELSE View[p]
    BY <1>1, <1>2, <1>3, <1>4 DEF View, ContentOn, PoolInv, TypeOK
  <2>2. View' = [p \in PageId |-> View'[p]] /\ View = [p \in PageId |-> View[p]]
    BY DEF View
  <2> QED BY <2>1, <2>2
<1>6. Content' = IF q \in deleted THEN Content ELSE [Content EXCEPT ![q] = x]
  <2>1. View \in [PageId -> Data]
    BY ViewType DEF PoolInv
  <2>2. CASE q \in deleted
    BY <1>2, <1>5, <2>1, <2>2 DEF Content
  <2>3. CASE q \notin deleted
    BY <1>2, <1>5, <2>1, <2>3 DEF Content
  <2> QED BY <2>2, <2>3
<1> QED BY <1>0, <1>1, <1>2, <1>6 DEF Store!Write, Content, Holding

(* unpin_page.                                                             *)
LEMMA UnpinPageMaps ==
    ASSUME PoolInv, NEW t \in Thread, UnpinPage(t)
    PROVE  Store!Release(t)
<1>1. /\ View' = View /\ deleted' = deleted /\ fd2pageno' = fd2pageno
  BY DEF UnpinPage, View, ContentOn, diskVars
<1>2. held_page[t] # NoPage /\ held_page' = [held_page EXCEPT ![t] = NoPage]
  BY DEF UnpinPage, Holding, Hold
<1>3. Content' = Content
  BY <1>1, SameContent
<1> QED BY <1>1, <1>2, <1>3 DEF Store!Release, Content

(* delete_page: refused while somebody holds the page.                     *)
LEMMA DeletePageMaps ==
    ASSUME PoolInv, NEW p \in PageId, DeletePage(p)
    PROVE  Store!Delete(p)
<1>0. PICK g \in Frame : g = page_table[p] /\ page_id[g] = p /\ pin_count[g] = 0
  BY DEF DeletePage, PoolInv, TypeOK, MappingConsistent
<1>1. /\ page_table' = [page_table EXCEPT ![p] = NoFrame]
      /\ data' = [data EXCEPT ![g] = Zero]
      /\ deleted' = deleted \cup {p}
      /\ UNCHANGED << disk, fd2pageno, held_page >>
  BY <1>0 DEF DeletePage, diskVars, threadVars
<1>2. ASSUME NEW t \in Thread PROVE held_page[t] # p
  <2> SUFFICES ASSUME held_page[t] = p PROVE FALSE
    OBVIOUS
  <2>1. Holding(t)
    BY PoolAssumption DEF Holding
  <2>2. held_frame[t] = g /\ pin_count[held_frame[t]] # 0
    BY <1>0, <2>1, HeldIsMapped DEF PoolInv
  <2> QED BY <1>0, <2>2
<1>3. \A q \in PageId \ {p} : page_table[q] # NoFrame => page_table[q] \in Frame \ {g}
  BY <1>0 DEF PoolInv, TypeOK, MappingConsistent
<1>4. \A q \in PageId \ {p} : View'[q] = View[q]
  BY <1>1, <1>3 DEF View, ContentOn, PoolInv, TypeOK
<1>5. Content' = [Content EXCEPT ![p] = Zero]
  BY <1>1, <1>4 DEF Content
<1> QED BY <1>1, <1>2, <1>5 DEF Store!Delete, Content

----------------------------------------------------------------------------
(* The pool starts as a store of the pages that are on disk.               *)
LEMMA InitMaps == Init => Store!Init
<1> SUFFICES ASSUME Init PROVE Store!Init
  OBVIOUS
<1>1. PoolInv
  BY PoolInvInit
<1>2. Content \in [PageId -> Data]
  BY <1>1, ViewType, PoolAssumption DEF Content, PoolInv
<1>3. { p[1] : p \in PageId } = Fd
  <2>1. ASSUME NEW fd \in Fd PROVE fd \in { p[1] : p \in PageId }
    <3>1. <<fd, 1>> \in PageId /\ <<fd, 1>>[1] = fd
      BY PoolAssumption DEF PageId
    <3> QED BY <3>1
  <2>2. \A p \in PageId : p[1] \in Fd
    BY DEF PageId
  <2> QED BY <2>1, <2>2
<1>4. fd2pageno \in [Fd -> Nat]
  BY PoolAssumption DEF Init
<1> QED BY <1>2, <1>3, <1>4 DEF Store!Init, Init, Content

(* Every step of the pool is a step of the store, or changes nothing of it.*)
LEMMA StepMaps == PoolInv /\ [Next]_vars => [Store!Next]_(Store!storeVars)
<1> SUFFICES ASSUME PoolInv, [Next]_vars PROVE [Store!Next]_(Store!storeVars)
  OBVIOUS
<1>a. ASSUME Content' = Content, UNCHANGED << held_page, fd2pageno, deleted >>
      PROVE  UNCHANGED Store!storeVars
  BY <1>a DEF Store!storeVars, Content
<1>1. ASSUME NEW t \in Thread, NEW p \in PageId, FetchHit(t, p) PROVE Store!Next
  BY <1>1, FetchHitMaps DEF Store!Next
<1>2. ASSUME NEW t \in Thread, NEW p \in PageId, FetchMiss(t, p) PROVE Store!Next
  BY <1>2, FetchMissMaps DEF Store!Next
<1>3. ASSUME NEW t \in Thread, NEW p \in PageId, FetchShortRead(t, p)
      PROVE  UNCHANGED Store!storeVars
  BY <1>a, <1>3, ShortReadMaps
<1>4. ASSUME NEW t \in Thread, NEW fd \in Fd, NewPage(t, fd) PROVE Store!Next
  BY <1>4, NewPageMaps DEF Store!Next
<1>5. ASSUME NEW t \in Thread, NEW x \in Data, WriteData(t, x) PROVE Store!Next
  BY <1>5, WriteDataMaps DEF Store!Next
<1>6. ASSUME NEW t \in Thread, UnpinPage(t) PROVE Store!Next
  BY <1>6, UnpinPageMaps DEF Store!Next
<1>7. ASSUME NEW p \in PageId, FlushPage(p) PROVE UNCHANGED Store!storeVars
  <2>1. View' = View
    BY <1>7, FlushPageKeeps
  <2>2. UNCHANGED << held_page, fd2pageno, deleted >>
    BY <1>7 DEF FlushPage, threadVars
  <2> QED BY <1>a, <2>1, <2>2, SameContent
<1>8. ASSUME NEW p \in PageId, DeletePage(p) PROVE Store!Next
  BY <1>8, DeletePageMaps DEF Store!Next
<1>9. ASSUME NEW fd \in Fd, FlushAllPages(fd) PROVE UNCHANGED Store!storeVars
  <2>1. View' = View
    BY <1>9, FlushAllKeeps
  <2>2. UNCHANGED << held_page, fd2pageno, deleted >>
    BY <1>9 DEF FlushAllPages, threadVars
  <2> QED BY <1>a, <2>1, <2>2, SameContent
<1>10. CASE UNCHANGED vars
  <2>1. View' = View /\ UNCHANGED << held_page, fd2pageno, deleted >>
    BY <1>10 DEF vars, poolVars, diskVars, threadVars, View, ContentOn
  <2> QED BY <1>a, <2>1, SameContent
<1> QED BY <1>1, <1>2, <1>3, <1>4, <1>5, <1>6, <1>7, <1>8, <1>9, <1>10 DEF Next

(* BufferPoolManager implements the page store: whatever is fetched,       *)
(* evicted, flushed or fails to be read, a page reads as what was last     *)
(* written to it by a thread that held it.                                 *)
THEOREM PoolIsPageStore == Spec => ImplementsPageStore
<1>1. Init => Store!Init
  BY InitMaps
<1>2. PoolInv /\ [Next]_vars => [Store!Next]_(Store!storeVars)
  BY StepMaps
<1> QED BY <1>1, <1>2, PoolInvHolds, PTL DEF Spec, ImplementsPageStore, Store!Spec
=============================================================================
