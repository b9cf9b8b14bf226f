-------------------------- MODULE BufferPoolProofs --------------------------
(***************************************************************************)
(* The buffer pool keeps its books, for any number of frames, files, pages *)
(* and threads.                                                            *)
(*                                                                         *)
(* The invariant PoolInv is the conjunction of the properties TLC checks   *)
(* with one addition: pages that were not allocated yet are in no frame,   *)
(* so that new_page never maps a page twice.  One lemma per action shows   *)
(* that it is kept.                                                        *)
(***************************************************************************)
EXTENDS BufferPoolLemmas

(* fetch_page of a page that is not in the pool.                           *)
LEMMA FetchMissKeeps ==
    ASSUME PoolInv, NEW t \in Thread, NEW p \in PageId, FetchMiss(t, p)
    PROVE  PoolInv'
<1> DEFINE bytes == ContentOn(disk', p)
<1>1. /\ ~Holding(t) /\ p[2] < fd2pageno[p[1]] /\ page_table[p] = NoFrame
      /\ TakeVictimPage
      /\ UpdatePage(VictimPage, p, ContentOn(WriteBack(VictimPage), p), 1)
      /\ Hold(t, p, VictimPage, FALSE)
      /\ UNCHANGED << fd2pageno, deleted >>
  BY DEF FetchMiss, Fetchable
<1>2. VictimPage \in Frame /\ free_list' \in Seq(Frame) /\ LRUlist' \in Seq(Frame)
  BY <1>1, VictimIsIdle
<1>3. WriteBack(VictimPage) \in [PageId -> Data \cup {Absent}]
  BY <1>2 DEF PoolInv, TypeOK, WriteBack
<1>4. disk' = WriteBack(VictimPage)
  BY <1>1 DEF UpdatePage
<1>5. bytes \in Data /\ UpdatePage(VictimPage, p, bytes, 1)
  BY <1>1, <1>3, <1>4, ContentType
<1>6. /\ MappingConsistent' /\ PinsExact' /\ FramesAccounted' /\ CleanMatchesDisk'
      /\ \A q \in PageId \ {p} : page_table[q] = NoFrame => page_table'[q] = NoFrame
  BY <1>1, <1>5, InstallHeld
<1>7. TypeOK'
  <2>1. /\ page_id' \in [Frame -> PageId \cup {NoPage}]
        /\ page_table' \in [PageId -> Frame \cup {NoFrame}]
        /\ data' \in [Frame -> Data] /\ is_dirty' \in [Frame -> BOOLEAN]
        /\ pin_count' \in [Frame -> Nat] /\ disk' \in [PageId -> Data \cup {Absent}]
    BY <1>1, <1>5, InstallFrames
  <2>2. /\ held_page' \in [Thread -> PageId \cup {NoPage}]
        /\ held_frame' \in [Thread -> Frame \cup {NoFrame}]
        /\ wrote' \in [Thread -> BOOLEAN]
    BY <1>1, <1>2, HoldAdds
  <2> QED BY <1>1, <1>2, <2>1, <2>2 DEF TypeOK, PoolInv
<1>8. FreshUnmapped'
  <2>1. fd2pageno \in [Fd -> Nat] /\ p[1] \in Fd /\ p[2] \in Nat
    BY DEF PoolInv, TypeOK, PageId
  <2>2. ~(p[2] >= fd2pageno[p[1]])
    BY <1>1, <2>1
  <2> QED BY <1>1, <1>6, <2>2 DEF FreshUnmapped, PoolInv
<1> QED BY <1>6, <1>7, <1>8 DEF PoolInv

(* new_page: the page number is fresh, so no frame has the page.           *)
LEMMA NewPageKeeps ==
    ASSUME PoolInv, NEW t \in Thread, NEW fd \in Fd, NewPage(t, fd)
    PROVE  PoolInv'
<1> DEFINE p == <<fd, fd2pageno[fd]>>
<1>1. /\ ~Holding(t) /\ fd2pageno[fd] <= MaxPageNo
      /\ TakeVictimPage
      /\ UpdatePage(VictimPage, p, Zero, 1)
      /\ Hold(t, p, VictimPage, TRUE)
      /\ fd2pageno' = [fd2pageno EXCEPT ![fd] = @ + 1]
      /\ UNCHANGED deleted
  BY DEF NewPage
<1>2. VictimPage \in Frame /\ free_list' \in Seq(Frame) /\ LRUlist' \in Seq(Frame)
  BY <1>1, VictimIsIdle
<1>3. fd2pageno \in [Fd -> 1 .. MaxPageNo + 1] /\ MaxPageNo \in Nat
  BY PoolAssumption DEF PoolInv, TypeOK
<1>4. p \in PageId /\ p[1] = fd /\ p[2] = fd2pageno[fd] /\ fd2pageno[fd] \in Nat
  BY <1>1, <1>3 DEF PageId
<1> HIDE DEF p
<1>5. page_table[p] = NoFrame
  BY <1>4 DEF PoolInv, FreshUnmapped
<1>6. Zero \in Data
  BY PoolAssumption
<1>7. /\ MappingConsistent' /\ PinsExact' /\ FramesAccounted' /\ CleanMatchesDisk'
      /\ \A q \in PageId \ {p} : page_table[q] = NoFrame => page_table'[q] = NoFrame
  BY <1>1, <1>4, <1>5, <1>6, InstallHeld
<1>8. fd2pageno' \in [Fd -> 1 .. MaxPageNo + 1]
  BY <1>1, <1>3
<1>9. TypeOK'
  <2>1. /\ page_id' \in [Frame -> PageId \cup {NoPage}]
        /\ page_table' \in [PageId -> Frame \cup {NoFrame}]
        /\ data' \in [Frame -> Data] /\ is_dirty' \in [Frame -> BOOLEAN]
        /\ pin_count' \in [Frame -> Nat] /\ disk' \in [PageId -> Data \cup {Absent}]
    BY <1>1, <1>4, <1>5, <1>6, InstallFrames
  <2>2. /\ held_page' \in [Thread -> PageId \cup {NoPage}]
        /\ held_frame' \in [Thread -> Frame \cup {NoFrame}]
        /\ wrote' \in [Thread -> BOOLEAN]
    BY <1>1, <1>2, <1>4, HoldAdds
  <2> QED BY <1>1, <1>2, <1>8, <2>1, <2>2 DEF TypeOK, PoolInv
<1>10. FreshUnmapped'
  <2> SUFFICES ASSUME NEW q \in PageId, q[2] >= fd2pageno'[q[1]] PROVE page_table'[q] = NoFrame
    BY DEF FreshUnmapped
  <2>1. q[1] \in Fd /\ q[2] \in Nat
    BY DEF PageId
  <2>2. q # p
    BY <1>1, <1>3, <1>4, <2>1
  <2>3. q[2] >= fd2pageno[q[1]]
    BY <1>1, <1>3, <1>4, <2>1
  <2> QED BY <1>7, <2>2, <2>3 DEF PoolInv, FreshUnmapped
<1> QED BY <1>7, <1>9, <1>10 DEF PoolInv

(* fetch_page whose read_page throws: the victim is stranded, mapped to a  *)
(* page that reads as zeroes from the disk, too.                           *)
LEMMA ShortReadKeeps ==
    ASSUME PoolInv, NEW t \in Thread, NEW p \in PageId, FetchShortRead(t, p)
    PROVE  PoolInv'
<1> DEFINE v == VictimPage
<1>1. /\ p[2] < fd2pageno[p[1]] /\ page_table[p] = NoFrame
      /\ TakeVictimPage
      /\ ~Readable(WriteBack(VictimPage), p)
      /\ UpdatePage(VictimPage, p, Zero, 0)
      /\ UNCHANGED << fd2pageno, held_page, held_frame, wrote, deleted >>
  BY DEF FetchShortRead, Fetchable, threadVars
<1>2. /\ v \in Frame /\ Holders(v) = {}
      /\ free_list' \in Seq(Frame) /\ LRUlist' \in Seq(Frame)
  BY <1>1, VictimIsIdle
<1>3. Zero \in Data /\ 0 \in Nat
  BY PoolAssumption
<1>4. MappingConsistent' /\ FramesAccounted'
  BY <1>1, <1>3, InstallMaps, InstallAccounts
<1>5. /\ page_id' \in [Frame -> PageId \cup {NoPage}]
      /\ page_table' \in [PageId -> Frame \cup {NoFrame}]
      /\ data' \in [Frame -> Data] /\ is_dirty' \in [Frame -> BOOLEAN]
      /\ pin_count' \in [Frame -> Nat] /\ disk' \in [PageId -> Data \cup {Absent}]
      /\ page_id'[v] = p /\ data'[v] = Zero /\ pin_count'[v] = 0
      /\ \A f \in Frame \ {v} :
            /\ page_id'[f] = page_id[f] /\ data'[f] = data[f]
            /\ is_dirty'[f] = is_dirty[f] /\ pin_count'[f] = pin_count[f]
      /\ \A q \in PageId \ {p} : page_table[q] = NoFrame => page_table'[q] = NoFrame
  BY <1>1, <1>3, InstallFrames
<1>6. \A f \in Frame \ {v} :
        page_id[f] # NoPage => ContentOn(disk', page_id[f]) = ContentOn(disk, page_id[f])
  BY <1>1, <1>3, InstallClean
<1>7. ContentOn(disk', p) = Zero
  <2>1. p[2] \in p[2] .. MaxPageNo /\ p = <<p[1], p[2]>>
    BY PoolAssumption DEF PageId
  <2>2. disk' = WriteBack(VictimPage)
    BY <1>1 DEF UpdatePage
  <2>3. disk'[p] = Absent
    BY <1>1, <2>1, <2>2 DEF Readable
  <2> QED BY <2>3 DEF ContentOn
<1> HIDE DEF v
<1>8. \A f \in Frame : Holders(f)' = Holders(f)
  BY <1>1 DEF Holders
<1>9. PinsExact'
  <2>1. ASSUME NEW f \in Frame PROVE pin_count'[f] = Cardinality(Holders(f)')
    <3>1. CASE f = v
      <4>1. Cardinality({}) = 0
        BY FS_EmptySet
      <4> QED BY <1>2, <1>5, <1>8, <3>1, <4>1
    <3>2. CASE f # v
      BY <1>5, <1>8, <3>2 DEF PoolInv, PinsExact
    <3> QED BY <3>1, <3>2
  <2>2. ASSUME NEW u \in Thread
        PROVE  IF Holding(u)' THEN held_frame'[u] \in Frame /\ page_id'[held_frame'[u]] = held_page'[u]
                              ELSE held_frame'[u] = NoFrame /\ wrote'[u] = FALSE
    <3>1. /\ Holding(u)' <=> Holding(u)
          /\ held_page'[u] = held_page[u] /\ held_frame'[u] = held_frame[u] /\ wrote'[u] = wrote[u]
      BY <1>1 DEF Holding
    <3>2. held_frame[u] # v
      BY <1>2 DEF Holders
    <3> QED BY <1>5, <3>1, <3>2 DEF PoolInv, PinsExact
  <2> QED BY <2>1, <2>2 DEF PinsExact
<1>10. CleanMatchesDisk'
  <2> SUFFICES ASSUME NEW f \in Frame, page_id'[f] # NoPage, ~is_dirty'[f],
                      \A u \in Holders(f)' : ~wrote'[u]
               PROVE  data'[f] = ContentOn(disk', page_id'[f])
    BY DEF CleanMatchesDisk
  <2>1. CASE f = v
    BY <1>5, <1>7, <2>1
  <2>2. CASE f # v
    <3>1. \A u \in Holders(f) : ~wrote[u]
      BY <1>1, <1>8
    <3>2. data[f] = ContentOn(disk, page_id[f])
      BY <1>5, <2>2, <3>1 DEF PoolInv, CleanMatchesDisk
    <3> QED BY <1>5, <1>6, <2>2, <3>2
  <2> QED BY <2>1, <2>2
<1>11. TypeOK'
  BY <1>1, <1>2, <1>5 DEF TypeOK, PoolInv
<1>12. FreshUnmapped'
  <2>1. fd2pageno \in [Fd -> Nat] /\ p[1] \in Fd /\ p[2] \in Nat
    BY DEF PoolInv, TypeOK, PageId
  <2>2. ~(p[2] >= fd2pageno[p[1]])
    BY <1>1, <2>1
  <2> QED BY <1>1, <1>5, <2>2 DEF FreshUnmapped, PoolInv
<1> QED BY <1>4, <1>9, <1>10, <1>11, <1>12 DEF PoolInv

(* fetch_page of a page in the pool: one more holder, one more pin, and    *)
(* the frame is not evictable any more.                                    *)
LEMMA FetchHitKeeps ==
    ASSUME PoolInv, NEW t \in Thread, NEW p \in PageId, FetchHit(t, p)
    PROVE  PoolInv'
<1>0. PICK g \in Frame : g = page_table[p] /\ page_id[g] = p
  BY DEF FetchHit, PoolInv, TypeOK, MappingConsistent
<1>1. /\ ~Holding(t)
      /\ pin_count' = [pin_count EXCEPT ![g] = @ + 1]
      /\ LRUlist' = Pin(LRUlist, g)
      /\ Hold(t, p, g, FALSE)
      /\ UNCHANGED << page_table, free_list, page_id, is_dirty, data, disk, fd2pageno, deleted >>
  BY <1>0 DEF FetchHit, Fetchable, diskVars
<1>2. /\ held_page' \in [Thread -> PageId \cup {NoPage}]
      /\ held_frame' \in [Thread -> Frame \cup {NoFrame}]
      /\ wrote' \in [Thread -> BOOLEAN]
      /\ t \notin Holders(g) /\ Holders(g)' = Holders(g) \cup {t}
      /\ \A f \in Frame \ {g} : t \notin Holders(f) /\ Holders(f)' = Holders(f)
      /\ Holding(t)' /\ held_page'[t] = p /\ held_frame'[t] = g /\ wrote'[t] = FALSE
      /\ \A u \in Thread \ {t} :
            /\ Holding(u)' <=> Holding(u)
            /\ held_page'[u] = held_page[u] /\ held_frame'[u] = held_frame[u]
            /\ wrote'[u] = wrote[u]
  BY <1>1, HoldAdds
<1>3. LRUlist' \in Seq(Frame) /\ IsListOnce(LRUlist') /\ Range(LRUlist') = Range(LRUlist) \ {g}
  BY <1>1, PinRemoves DEF PoolInv, TypeOK, FramesAccounted
<1>4. /\ pin_count \in [Frame -> Nat] /\ pin_count' \in [Frame -> Nat]
      /\ pin_count'[g] = pin_count[g] + 1
      /\ \A f \in Frame \ {g} : pin_count'[f] = pin_count[f]
  BY <1>1 DEF PoolInv, TypeOK
<1>5. TypeOK'
  BY <1>1, <1>2, <1>3, <1>4 DEF PoolInv, TypeOK
<1>6. MappingConsistent' /\ FreshUnmapped'
  BY <1>1 DEF PoolInv, MappingConsistent, FreshUnmapped
<1>7. PinsExact'
  <2>1. ASSUME NEW f \in Frame PROVE pin_count'[f] = Cardinality(Holders(f)')
    <3>1. CASE f = g
      <4>1. IsFiniteSet(Holders(g)) /\ pin_count[g] = Cardinality(Holders(g))
        BY HoldersCounted DEF PoolInv
      <4>2. Cardinality(Holders(g) \cup {t}) = Cardinality(Holders(g)) + 1
        BY <1>2, <4>1, FS_AddElement
      <4> QED BY <1>2, <1>4, <3>1, <4>1, <4>2
    <3>2. CASE f # g
      BY <1>2, <1>4, <3>2 DEF PoolInv, PinsExact
    <3> QED BY <3>1, <3>2
  <2>2. ASSUME NEW u \in Thread
        PROVE  IF Holding(u)' THEN held_frame'[u] \in Frame /\ page_id'[held_frame'[u]] = held_page'[u]
                              ELSE held_frame'[u] = NoFrame /\ wrote'[u] = FALSE
    <3>1. CASE u = t
      BY <1>0, <1>1, <1>2, <3>1
    <3>2. CASE u # t
      BY <1>1, <1>2, <3>2 DEF PoolInv, PinsExact
    <3> QED BY <3>1, <3>2
  <2> QED BY <2>1, <2>2 DEF PinsExact
<1>8. FramesAccounted'
  <2>1. ASSUME NEW f \in Frame
        PROVE  /\ f \in Range(free_list') <=> page_id'[f] = NoPage
               /\ IsEvictable(LRUlist', f) => page_id'[f] # NoPage /\ pin_count'[f] = 0
               /\ page_id'[f] = NoPage => pin_count'[f] = 0 /\ ~is_dirty'[f]
               /\ Stranded(f)' => data'[f] = Zero /\ ~is_dirty'[f]
    <3>1. CASE f = g
      <4>1. p # NoPage /\ pin_count'[g] # 0
        BY <1>4, PoolAssumption
      <4> QED BY <1>0, <1>1, <1>3, <3>1, <4>1 DEF PoolInv, FramesAccounted, IsEvictable, Stranded
    <3>2. CASE f # g
      BY <1>1, <1>3, <1>4, <3>2 DEF PoolInv, FramesAccounted, IsEvictable, Stranded
    <3> QED BY <3>1, <3>2
  <2> QED BY <1>1, <1>3, <2>1 DEF FramesAccounted, PoolInv
<1>9. CleanMatchesDisk'
  <2> SUFFICES ASSUME NEW f \in Frame, page_id[f] # NoPage, ~is_dirty[f],
                      \A u \in Holders(f)' : ~wrote'[u]
               PROVE  data[f] = ContentOn(disk, page_id[f])
    BY <1>1 DEF CleanMatchesDisk
  <2>1. \A u \in Holders(f) : u \in Thread \ {t} /\ ~wrote[u]
    BY <1>2 DEF Holders
  <2> QED BY <2>1 DEF PoolInv, CleanMatchesDisk
<1> QED BY <1>5, <1>6, <1>7, <1>8, <1>9 DEF PoolInv

(* A thread writes to the page it holds: its frame is pinned, and will be  *)
(* unpinned dirty.                                                         *)
LEMMA WriteDataKeeps ==
    ASSUME PoolInv, NEW t \in Thread, NEW x \in Data, WriteData(t, x)
    PROVE  PoolInv'
<1>0. PICK g \in Frame : g = held_frame[t] /\ pin_count[g] # 0 /\ t \in Holders(g)
  BY HeldIsMapped DEF WriteData, PoolInv
<1>1. /\ Holding(t)
      /\ data' = [data EXCEPT ![g] = x]
      /\ wrote' = [wrote EXCEPT ![t] = TRUE]
      /\ UNCHANGED << page_table, free_list, LRUlist, page_id, pin_count, is_dirty,
                      disk, fd2pageno, held_page, held_frame, deleted >>
  BY <1>0 DEF WriteData, diskVars
<1>2. TypeOK'
  BY <1>1 DEF PoolInv, TypeOK
<1>3. MappingConsistent' /\ FreshUnmapped'
  BY <1>1 DEF PoolInv, MappingConsistent, FreshUnmapped
<1>4. \A f \in Frame : Holders(f)' = Holders(f)
  BY <1>1 DEF Holders
<1>5. wrote'[t] /\ \A u \in Thread \ {t} : wrote'[u] = wrote[u]
  BY <1>1 DEF PoolInv, TypeOK
<1>6. data'[g] = x /\ \A f \in Frame \ {g} : data'[f] = data[f]
  BY <1>1 DEF PoolInv, TypeOK
<1>7. PinsExact'
  <2>1. \A f \in Frame : pin_count'[f] = Cardinality(Holders(f)')
    BY <1>1, <1>4 DEF PoolInv, PinsExact
  <2>2. \A u \in Thread : Holding(u)' <=> Holding(u)
    BY <1>1 DEF Holding
  <2>3. ASSUME NEW u \in Thread
        PROVE  IF Holding(u)' THEN held_frame'[u] \in Frame /\ page_id'[held_frame'[u]] = held_page'[u]
                              ELSE held_frame'[u] = NoFrame /\ wrote'[u] = FALSE
    BY <1>1, <1>5, <2>2 DEF PoolInv, PinsExact
  <2> QED BY <2>1, <2>3 DEF PinsExact
<1>8. FramesAccounted'
  <2>1. ASSUME NEW f \in Frame
        PROVE  /\ f \in Range(free_list') <=> page_id'[f] = NoPage
               /\ IsEvictable(LRUlist', f) => page_id'[f] # NoPage /\ pin_count'[f] = 0
               /\ page_id'[f] = NoPage => pin_count'[f] = 0 /\ ~is_dirty'[f]
               /\ Stranded(f)' => data'[f] = Zero /\ ~is_dirty'[f]
    BY <1>0, <1>1, <1>6 DEF PoolInv, FramesAccounted, Stranded, IsEvictable
  <2> QED BY <1>1, <2>1 DEF FramesAccounted, PoolInv
<1>9. CleanMatchesDisk'
  <2> SUFFICES ASSUME NEW f \in Frame, page_id[f] # NoPage, ~is_dirty[f],
                      \A u \in Holders(f) : ~wrote'[u]
               PROVE  data'[f] = ContentOn(disk, page_id[f])
    BY <1>1, <1>4 DEF CleanMatchesDisk
  <2>1. f # g
    BY <1>0, <1>5
  <2>2. t \notin Holders(f)
    BY <1>0, <2>1 DEF Holders
  <2>3. \A u \in Holders(f) : ~wrote[u]
    BY <1>5, <2>2 DEF Holders
  <2> QED BY <1>6, <2>1, <2>3 DEF PoolInv, CleanMatchesDisk
<1> QED BY <1>2, <1>3, <1>7, <1>8, <1>9 DEF PoolInv

(* unpin_page: the caller holds the page, so both of its early returns are *)
(* out of reach; the last holder makes the frame evictable.                *)
LEMMA UnpinPageKeeps ==
    ASSUME PoolInv, NEW t \in Thread, UnpinPage(t)
    PROVE  PoolInv'
<1>0. PICK g \in Frame : /\ g = held_frame[t] /\ g = page_table[held_page[t]]
                         /\ page_id[g] = held_page[t] /\ page_id[g] # NoPage
                         /\ t \in Holders(g) /\ pin_count[g] \in Nat \ {0}
  BY HeldIsMapped DEF UnpinPage, PoolInv, Holding
<1>1. g # NoFrame /\ pin_count[g] > 0 /\ NoFrame \notin Frame
  <2>1. NoFrame \notin Frame
    BY PoolAssumption
  <2>2. pin_count[g] > 0
    BY <1>0
  <2> QED BY <2>1, <2>2
<1>2. /\ is_dirty' = [is_dirty EXCEPT ![g] = @ \/ wrote[t]]
      /\ pin_count' = [pin_count EXCEPT ![g] = @ - 1]
      /\ LRUlist' = IF pin_count[g] = 1 THEN Unpin(LRUlist, g, PoolSize) ELSE LRUlist
      /\ held_page' = [held_page EXCEPT ![t] = NoPage]
      /\ held_frame' = [held_frame EXCEPT ![t] = NoFrame]
      /\ wrote' = [wrote EXCEPT ![t] = FALSE]
      /\ UNCHANGED << page_table, free_list, page_id, data, disk, fd2pageno, deleted >>
  BY <1>0, <1>1 DEF UnpinPage, Hold, diskVars
<1>3. /\ LRUlist' \in Seq(Frame) /\ IsListOnce(LRUlist')
      /\ Range(LRUlist') = IF pin_count[g] = 1 THEN Range(LRUlist) \cup {g} ELSE Range(LRUlist)
  <2>1. LRUlist \in Seq(Frame) /\ IsListOnce(LRUlist)
    BY DEF PoolInv, TypeOK, FramesAccounted
  <2> QED BY <1>2, <2>1, UnpinAdds
<1>4. /\ pin_count' \in [Frame -> Nat] /\ pin_count'[g] = pin_count[g] - 1
      /\ \A f \in Frame \ {g} : pin_count'[f] = pin_count[f]
  BY <1>0, <1>2 DEF PoolInv, TypeOK
<1>5. /\ is_dirty' \in [Frame -> BOOLEAN]
      /\ is_dirty'[g] <=> is_dirty[g] \/ wrote[t]
      /\ \A f \in Frame \ {g} : is_dirty'[f] <=> is_dirty[f]
  BY <1>2 DEF PoolInv, TypeOK
<1>6. /\ held_page'[t] = NoPage /\ held_frame'[t] = NoFrame /\ wrote'[t] = FALSE
      /\ \A u \in Thread \ {t} :
            /\ held_page'[u] = held_page[u] /\ held_frame'[u] = held_frame[u]
            /\ wrote'[u] = wrote[u]
  BY <1>2 DEF PoolInv, TypeOK
<1>7. ~Holding(t)' /\ \A u \in Thread \ {t} : Holding(u)' <=> Holding(u)
  BY <1>6 DEF Holding
<1>8. Holders(g)' = Holders(g) \ {t}
  BY <1>0, <1>1, <1>6 DEF Holders
<1>9. \A f \in Frame \ {g} : Holders(f)' = Holders(f) /\ t \notin Holders(f)
  BY <1>0, <1>1, <1>6 DEF Holders
<1>10. TypeOK'
  <2>1. /\ held_page' \in [Thread -> PageId \cup {NoPage}]
        /\ held_frame' \in [Thread -> Frame \cup {NoFrame}]
        /\ wrote' \in [Thread -> BOOLEAN]
    BY <1>2 DEF PoolInv, TypeOK
  <2> QED BY <1>2, <1>3, <1>4, <1>5, <2>1 DEF PoolInv, TypeOK
<1>11. MappingConsistent' /\ FreshUnmapped'
  BY <1>2 DEF PoolInv, MappingConsistent, FreshUnmapped
<1>12. PinsExact'
  <2>1. ASSUME NEW f \in Frame PROVE pin_count'[f] = Cardinality(Holders(f)')
    <3>1. CASE f = g
      <4>1. IsFiniteSet(Holders(g)) /\ pin_count[g] = Cardinality(Holders(g))
        BY HoldersCounted DEF PoolInv
      <4>2. Cardinality(Holders(g) \ {t}) = Cardinality(Holders(g)) - 1
        BY <1>0, <4>1, FS_RemoveElement
      <4> QED BY <1>4, <1>8, <3>1, <4>1, <4>2
    <3>2. CASE f # g
      BY <1>4, <1>9, <3>2 DEF PoolInv, PinsExact
    <3> QED BY <3>1, <3>2
  <2>2. ASSUME NEW u \in Thread
        PROVE  IF Holding(u)' THEN held_frame'[u] \in Frame /\ page_id'[held_frame'[u]] = held_page'[u]
                              ELSE held_frame'[u] = NoFrame /\ wrote'[u] = FALSE
    <3>1. CASE u = t
      BY <1>6, <1>7, <3>1
    <3>2. CASE u # t
      BY <1>2, <1>6, <1>7, <3>2 DEF PoolInv, PinsExact
    <3> QED BY <3>1, <3>2
  <2> QED BY <2>1, <2>2 DEF PinsExact
<1>13. FramesAccounted'
  <2>1. ASSUME NEW f \in Frame
        PROVE  /\ f \in Range(free_list') <=> page_id'[f] = NoPage
               /\ IsEvictable(LRUlist', f) => page_id'[f] # NoPage /\ pin_count'[f] = 0
               /\ page_id'[f] = NoPage => pin_count'[f] = 0 /\ ~is_dirty'[f]
               /\ Stranded(f)' => data'[f] = Zero /\ ~is_dirty'[f]
    <3>1. CASE f = g
      <4>1. g \notin Range(LRUlist) /\ g \notin Range(free_list)
        BY <1>0 DEF PoolInv, FramesAccounted, IsEvictable
      <4>2. pin_count'[g] = 0 <=> g \in Range(LRUlist')
        <5>1. pin_count'[g] = 0 <=> pin_count[g] = 1
          <6>1. pin_count[g] \in Nat \ {0}
            BY <1>0
          <6>2. pin_count'[g] = pin_count[g] - 1
            BY <1>4
          <6> QED BY <6>1, <6>2, LastPin
        <5>2. g \in Range(LRUlist') <=> pin_count[g] = 1
          BY <1>3, <4>1
        <5> QED BY <5>1, <5>2
      <4> QED BY <1>0, <1>2, <3>1, <4>1, <4>2 DEF IsEvictable, Stranded
    <3>2. CASE f # g
      <4>1. f \in Range(LRUlist') <=> f \in Range(LRUlist)
        BY <1>3, <3>2
      <4> QED BY <1>2, <1>4, <1>5, <3>2, <4>1 DEF PoolInv, FramesAccounted, IsEvictable, Stranded
    <3> QED BY <3>1, <3>2
  <2> QED BY <1>2, <1>3, <2>1 DEF FramesAccounted, PoolInv
<1>14. CleanMatchesDisk'
  <2> SUFFICES ASSUME NEW f \in Frame, page_id[f] # NoPage, ~is_dirty'[f],
                      \A u \in Holders(f)' : ~wrote'[u]
               PROVE  data[f] = ContentOn(disk, page_id[f])
    BY <1>2 DEF CleanMatchesDisk
  <2>1. ~is_dirty[f] /\ \A u \in Holders(f) : ~wrote[u]
    <3>1. CASE f = g
      BY <1>5, <1>6, <1>8, <3>1 DEF Holders
    <3>2. CASE f # g
      BY <1>5, <1>6, <1>9, <3>2 DEF Holders
    <3> QED BY <3>1, <3>2
  <2> QED BY <2>1 DEF PoolInv, CleanMatchesDisk
<1> QED BY <1>10, <1>11, <1>12, <1>13, <1>14 DEF PoolInv

(* flush_page and flush_all_pages: a set of mapped pages is written, and   *)
(* exactly their frames become clean.                                      *)
LEMMA FlushKeeps ==
    ASSUME PoolInv, NEW Flushed \in SUBSET PageId,
           \A p \in Flushed : page_table[p] # NoFrame,
           disk' = [p \in PageId |-> IF p \in Flushed THEN data[page_table[p]] ELSE disk[p]],
           is_dirty' = [f \in Frame |-> is_dirty[f] /\ \A p \in Flushed : page_table[p] # f],
           UNCHANGED << page_table, free_list, LRUlist, page_id, pin_count, data,
                        fd2pageno, threadVars, deleted >>
    PROVE  PoolInv' /\ View' = View
<1> USE DEF threadVars
<1>1. \A p \in Flushed : page_table[p] \in Frame /\ data[page_table[p]] \in Data
  BY DEF PoolInv, TypeOK
<1>2. TypeOK'
  <2>1. disk' \in [PageId -> Data \cup {Absent}]
    BY <1>1 DEF PoolInv, TypeOK
  <2>2. is_dirty' \in [Frame -> BOOLEAN]
    BY DEF PoolInv, TypeOK
  <2> QED BY <2>1, <2>2 DEF PoolInv, TypeOK
<1>3. MappingConsistent' /\ FreshUnmapped'
  BY DEF PoolInv, MappingConsistent, FreshUnmapped
<1>4. \A f \in Frame : Holders(f)' = Holders(f)
  BY DEF Holders
<1>5. PinsExact'
  <2>1. \A f \in Frame : pin_count'[f] = Cardinality(Holders(f)')
    BY <1>4 DEF PoolInv, PinsExact
  <2>2. \A u \in Thread : Holding(u)' <=> Holding(u)
    BY DEF Holding
  <2> QED BY <2>1, <2>2 DEF PoolInv, PinsExact
<1>6. FramesAccounted'
  <2>1. \A f \in Frame : is_dirty'[f] => is_dirty[f]
    OBVIOUS
  <2> QED BY <2>1 DEF PoolInv, FramesAccounted, Stranded, IsEvictable
<1>7. \A p \in PageId : page_table[p] # NoFrame => data[page_table[p]] # Absent
  BY PoolAssumption DEF PoolInv, TypeOK
<1>8. CleanMatchesDisk'
  <2> SUFFICES ASSUME NEW f \in Frame, page_id[f] # NoPage, ~is_dirty'[f],
                      \A u \in Holders(f) : ~wrote[u]
               PROVE  data[f] = ContentOn(disk', page_id[f])
    BY <1>4 DEF CleanMatchesDisk
  <2>1. page_id[f] \in PageId /\ page_table[page_id[f]] = f /\ f # NoFrame
    BY PoolAssumption DEF PoolInv, TypeOK, MappingConsistent
  <2>2. CASE page_id[f] \in Flushed
    BY <1>7, <2>1, <2>2 DEF ContentOn
  <2>3. CASE page_id[f] \notin Flushed
    <3>1. \A p \in Flushed : page_table[p] # f
      BY <2>1, <2>3 DEF PoolInv, MappingConsistent
    <3>2. ~is_dirty[f]
      BY <3>1
    <3>3. data[f] = ContentOn(disk, page_id[f])
      BY <3>2 DEF PoolInv, CleanMatchesDisk
    <3> QED BY <2>1, <2>3, <3>3 DEF ContentOn
  <2> QED BY <2>2, <2>3
<1>9. View' = View
  BY DEF View, ContentOn
<1> QED BY <1>2, <1>3, <1>5, <1>6, <1>8, <1>9 DEF PoolInv

(* flush_page.                                                             *)
LEMMA FlushPageKeeps ==
    ASSUME PoolInv, NEW p \in PageId, FlushPage(p) PROVE PoolInv' /\ View' = View
<1>1. page_table[p] \in Frame /\ page_table[p] # NoFrame
  BY DEF FlushPage, PoolInv, TypeOK
<1>2. disk' = [q \in PageId |-> IF q \in {p} THEN data[page_table[q]] ELSE disk[q]]
  BY DEF FlushPage, PoolInv, TypeOK
<1>3. is_dirty' = [f \in Frame |-> is_dirty[f] /\ \A q \in {p} : page_table[q] # f]
  <2>1. is_dirty' = [is_dirty EXCEPT ![page_table[p]] = FALSE]
    BY DEF FlushPage
  <2>2. is_dirty' = [f \in Frame |-> IF f = page_table[p] THEN FALSE ELSE is_dirty[f]]
    BY <2>1 DEF PoolInv, TypeOK
  <2>3. is_dirty \in [Frame -> BOOLEAN]
    BY DEF PoolInv, TypeOK
  <2>4. \A f \in Frame : (IF f = page_table[p] THEN FALSE ELSE is_dirty[f])
                            = (is_dirty[f] /\ \A q \in {p} : page_table[q] # f)
    BY <2>3
  <2> QED BY <2>2, <2>4
<1>4. UNCHANGED << page_table, free_list, LRUlist, page_id, pin_count, data,
                  fd2pageno, threadVars, deleted >>
  BY DEF FlushPage
<1> DEFINE F == {p}
<1>5. F \in SUBSET PageId /\ \A q \in F : page_table[q] # NoFrame
  BY <1>1
<1>6. /\ disk' = [q \in PageId |-> IF q \in F THEN data[page_table[q]] ELSE disk[q]]
      /\ is_dirty' = [f \in Frame |-> is_dirty[f] /\ \A q \in F : page_table[q] # f]
  BY <1>2, <1>3
<1> HIDE DEF F
<1> QED BY <1>4, <1>5, <1>6, FlushKeeps

(* flush_all_pages.                                                        *)
LEMMA FlushAllKeeps ==
    ASSUME PoolInv, NEW fd \in Fd, FlushAllPages(fd) PROVE PoolInv' /\ View' = View
<1> DEFINE F == Mapped(fd)
<1>1. F \in SUBSET PageId /\ \A p \in F : page_table[p] # NoFrame
  BY DEF Mapped
<1>2. /\ disk' = [p \in PageId |-> IF p \in F THEN data[page_table[p]] ELSE disk[p]]
      /\ is_dirty' = [f \in Frame |-> is_dirty[f] /\ \A p \in F : page_table[p] # f]
      /\ UNCHANGED << page_table, free_list, LRUlist, page_id, pin_count, data,
                      fd2pageno, threadVars, deleted >>
  BY DEF FlushAllPages
<1> HIDE DEF F
<1> QED BY <1>1, <1>2, FlushKeeps

(* delete_page: the frame is unpinned, so nobody holds it; it leaves the   *)
(* replacer's list and joins the free list, where it was not.              *)
LEMMA DeletePageKeeps ==
    ASSUME PoolInv, NEW p \in PageId, DeletePage(p)
    PROVE  PoolInv'
<1>0. PICK g \in Frame : g = page_table[p] /\ page_id[g] = p /\ pin_count[g] = 0
  BY DEF DeletePage, PoolInv, TypeOK, MappingConsistent
<1>1. /\ LRUlist' = Pin(LRUlist, g)
      /\ page_table' = [page_table EXCEPT ![p] = NoFrame]
      /\ page_id' = [page_id EXCEPT ![g] = NoPage]
      /\ data' = [data EXCEPT ![g] = Zero]
      /\ is_dirty' = [is_dirty EXCEPT ![g] = FALSE]
      /\ free_list' = Append(free_list, g)
      /\ deleted' = deleted \cup {p}
      /\ UNCHANGED << pin_count, disk, fd2pageno, held_page, held_frame, wrote >>
  BY <1>0 DEF DeletePage, diskVars, threadVars
<1>2. page_id[g] # NoPage /\ g # NoFrame
  BY <1>0, PoolAssumption
<1>3. Holders(g) = {}
  BY <1>0, HoldersCounted DEF PoolInv
<1>4. /\ LRUlist' \in Seq(Frame) /\ IsListOnce(LRUlist')
      /\ Range(LRUlist') = Range(LRUlist) \ {g}
  <2>1. LRUlist \in Seq(Frame) /\ IsListOnce(LRUlist)
    BY DEF PoolInv, TypeOK, FramesAccounted
  <2> QED BY <1>1, <2>1, PinRemoves
<1>5. /\ free_list' \in Seq(Frame) /\ IsListOnce(free_list')
      /\ Range(free_list') = Range(free_list) \cup {g}
  <2>1. free_list \in Seq(Frame) /\ IsListOnce(free_list) /\ g \notin Range(free_list)
    BY <1>2 DEF PoolInv, TypeOK, FramesAccounted
  <2> QED BY <1>1, <2>1, PushBack
<1>6. /\ page_table' \in [PageId -> Frame \cup {NoFrame}] /\ page_table'[p] = NoFrame
      /\ \A q \in PageId \ {p} : page_table'[q] = page_table[q]
  BY <1>1 DEF PoolInv, TypeOK
<1>7. /\ page_id' \in [Frame -> PageId \cup {NoPage}] /\ page_id'[g] = NoPage
      /\ \A f \in Frame \ {g} : page_id'[f] = page_id[f]
  BY <1>1 DEF PoolInv, TypeOK
<1>8. /\ data' \in [Frame -> Data] /\ \A f \in Frame \ {g} : data'[f] = data[f]
  BY <1>1, PoolAssumption DEF PoolInv, TypeOK
<1>9. /\ is_dirty' \in [Frame -> BOOLEAN] /\ ~is_dirty'[g]
      /\ \A f \in Frame \ {g} : is_dirty'[f] <=> is_dirty[f]
  BY <1>1 DEF PoolInv, TypeOK
<1>10. TypeOK'
  <2>1. deleted' \subseteq PageId
    BY <1>1 DEF PoolInv, TypeOK
  <2> QED BY <1>1, <1>4, <1>5, <1>6, <1>7, <1>8, <1>9, <2>1 DEF PoolInv, TypeOK
<1>11. MappingConsistent'
  <2>1. ASSUME NEW q \in PageId, page_table'[q] # NoFrame PROVE page_id'[page_table'[q]] = q
    <3>1. q # p /\ page_table'[q] = page_table[q] /\ page_table[q] \in Frame
      BY <1>6, <2>1 DEF PoolInv, TypeOK
    <3>2. page_id[page_table[q]] = q /\ page_table[q] # g
      BY <1>0, <2>1, <3>1 DEF PoolInv, MappingConsistent
    <3> QED BY <1>7, <3>1, <3>2
  <2>2. ASSUME NEW f \in Frame, page_id'[f] # NoPage PROVE page_table'[page_id'[f]] = f
    <3>1. f # g /\ page_id'[f] = page_id[f] /\ page_id[f] \in PageId
      BY <1>7, <2>2 DEF PoolInv, TypeOK
    <3>2. page_table[page_id[f]] = f /\ page_id[f] # p
      BY <1>0, <2>2, <3>1 DEF PoolInv, MappingConsistent
    <3> QED BY <1>6, <3>1, <3>2
  <2> QED BY <2>1, <2>2 DEF MappingConsistent
<1>12. \A f \in Frame : Holders(f)' = Holders(f)
  BY <1>1 DEF Holders
<1>13. PinsExact'
  <2>1. \A f \in Frame : pin_count'[f] = Cardinality(Holders(f)')
    BY <1>1, <1>12 DEF PoolInv, PinsExact
  <2>2. ASSUME NEW u \in Thread
        PROVE  IF Holding(u)' THEN held_frame'[u] \in Frame /\ page_id'[held_frame'[u]] = held_page'[u]
                              ELSE held_frame'[u] = NoFrame /\ wrote'[u] = FALSE
    <3>1. held_frame[u] # g
      BY <1>3 DEF Holders
    <3>2. Holding(u)' <=> Holding(u)
      BY <1>1 DEF Holding
    <3> QED BY <1>1, <1>7, <3>1, <3>2 DEF PoolInv, PinsExact
  <2> QED BY <2>1, <2>2 DEF PinsExact
<1>14. FramesAccounted'
  <2>1. ASSUME NEW f \in Frame
        PROVE  /\ f \in Range(free_list') <=> page_id'[f] = NoPage
               /\ IsEvictable(LRUlist', f) => page_id'[f] # NoPage /\ pin_count'[f] = 0
               /\ page_id'[f] = NoPage => pin_count'[f] = 0 /\ ~is_dirty'[f]
               /\ Stranded(f)' => data'[f] = Zero /\ ~is_dirty'[f]
    <3>1. CASE f = g
      BY <1>0, <1>1, <1>4, <1>5, <1>7, <1>9, <3>1 DEF IsEvictable, Stranded
    <3>2. CASE f # g
      <4>1. /\ f \in Range(LRUlist') <=> f \in Range(LRUlist)
            /\ f \in Range(free_list') <=> f \in Range(free_list)
        BY <1>4, <1>5, <3>2
      <4>2. /\ page_id'[f] = page_id[f] /\ pin_count'[f] = pin_count[f]
            /\ data'[f] = data[f] /\ (is_dirty'[f] <=> is_dirty[f])
        BY <1>1, <1>7, <1>8, <1>9, <3>2
      <4> QED BY <4>1, <4>2 DEF PoolInv, FramesAccounted, IsEvictable, Stranded
    <3> QED BY <3>1, <3>2
  <2> QED BY <1>4, <1>5, <2>1 DEF FramesAccounted
<1>15. CleanMatchesDisk'
  <2> SUFFICES ASSUME NEW f \in Frame, page_id'[f] # NoPage, ~is_dirty'[f],
                      \A u \in Holders(f) : ~wrote[u]
               PROVE  data'[f] = ContentOn(disk, page_id'[f])
    BY <1>1, <1>12 DEF CleanMatchesDisk
  <2>1. /\ f # g /\ page_id'[f] = page_id[f] /\ data'[f] = data[f] /\ ~is_dirty[f]
    BY <1>7, <1>8, <1>9
  <2> QED BY <2>1 DEF PoolInv, CleanMatchesDisk
<1>16. FreshUnmapped'
  BY <1>1, <1>6 DEF PoolInv, FreshUnmapped
<1> QED BY <1>10, <1>11, <1>13, <1>14, <1>15, <1>16 DEF PoolInv

----------------------------------------------------------------------------
(* The invariant.                                                          *)

(* The constructor puts every frame on the free list.                      *)
LEMMA PoolInvInit == Init => PoolInv
<1> SUFFICES ASSUME Init PROVE PoolInv
  OBVIOUS
<1>1. PoolSize \in Nat \ {0} /\ MaxPageNo \in Nat /\ InitPages \in 0 .. MaxPageNo
  BY PoolAssumption
<1>2. /\ free_list \in Seq(Frame) /\ DOMAIN free_list = 1 .. PoolSize
      /\ \A i \in 1 .. PoolSize : free_list[i] = i - 1
  BY <1>1 DEF Init, Frame
<1>3. IsListOnce(free_list)
  BY <1>1, <1>2 DEF IsListOnce
<1>4. ASSUME NEW f \in Frame PROVE f \in Range(free_list)
  <2>1. f + 1 \in 1 .. PoolSize /\ free_list[f + 1] = f
    BY <1>1, <1>2 DEF Frame
  <2> QED BY <1>2, <2>1 DEF Range
<1>5. LRUlist \in Seq(Frame) /\ IsListOnce(LRUlist) /\ Range(LRUlist) = {}
  BY DEF Init, IsListOnce, Range
<1>6. TypeOK
  <2>1. fd2pageno \in [Fd -> 1 .. MaxPageNo + 1]
    BY <1>1 DEF Init
  <2>2. data \in [Frame -> Data] /\ pin_count \in [Frame -> Nat]
    BY PoolAssumption DEF Init
  <2> QED BY <1>2, <1>5, <2>1, <2>2 DEF Init, TypeOK
<1>7. MappingConsistent /\ FreshUnmapped
  BY DEF Init, MappingConsistent, FreshUnmapped, PageId
<1>8. PinsExact
  <2>1. \A f \in Frame : Holders(f) = {}
    BY PoolAssumption DEF Init, Holders
  <2>2. Cardinality({}) = 0
    BY FS_EmptySet
  <2> QED BY <2>1, <2>2 DEF Init, PinsExact, Holding
<1>9. FramesAccounted
  BY <1>3, <1>4, <1>5 DEF Init, FramesAccounted, IsEvictable, Stranded
<1>10. CleanMatchesDisk
  BY DEF Init, CleanMatchesDisk
<1> QED BY <1>6, <1>7, <1>8, <1>9, <1>10 DEF PoolInv

(* One step of any thread.                                                 *)
LEMMA PoolInvStep == PoolInv /\ [Next]_vars => PoolInv'
<1> SUFFICES ASSUME PoolInv, [Next]_vars PROVE PoolInv'
  OBVIOUS
<1>1. ASSUME NEW t \in Thread, NEW p \in PageId, FetchHit(t, p) PROVE PoolInv'
  BY <1>1, FetchHitKeeps
<1>2. ASSUME NEW t \in Thread, NEW p \in PageId, FetchMiss(t, p) PROVE PoolInv'
  BY <1>2, FetchMissKeeps
<1>3. ASSUME NEW t \in Thread, NEW p \in PageId, FetchShortRead(t, p) PROVE PoolInv'
  BY <1>3, ShortReadKeeps
<1>4. ASSUME NEW t \in Thread, NEW fd \in Fd, NewPage(t, fd) PROVE PoolInv'
  BY <1>4, NewPageKeeps
<1>5. ASSUME NEW t \in Thread, NEW x \in Data, WriteData(t, x) PROVE PoolInv'
  BY <1>5, WriteDataKeeps
<1>6. ASSUME NEW t \in Thread, UnpinPage(t) PROVE PoolInv'
  BY <1>6, UnpinPageKeeps
<1>7. ASSUME NEW p \in PageId, FlushPage(p) PROVE PoolInv'
  BY <1>7, FlushPageKeeps
<1>8. ASSUME NEW p \in PageId, DeletePage(p) PROVE PoolInv'
  BY <1>8, DeletePageKeeps
<1>9. ASSUME NEW fd \in Fd, FlushAllPages(fd) PROVE PoolInv'
  BY <1>9, FlushAllKeeps
<1>10. CASE UNCHANGED vars
  <2> USE <1>10 DEF vars, poolVars, diskVars, threadVars
  <2>1. TypeOK' /\ MappingConsistent' /\ FreshUnmapped'
    BY DEF PoolInv, TypeOK, MappingConsistent, FreshUnmapped
  <2>2. \A f \in Frame : Holders(f)' = Holders(f)
    BY DEF Holders
  <2>3. PinsExact'
    BY <2>2 DEF PoolInv, PinsExact, Holding
  <2>4. FramesAccounted'
    BY DEF PoolInv, FramesAccounted, Stranded
  <2>5. CleanMatchesDisk'
    BY <2>2 DEF PoolInv, CleanMatchesDisk
  <2> QED BY <2>1, <2>3, <2>4, <2>5 DEF PoolInv
<1> QED BY <1>1, <1>2, <1>3, <1>4, <1>5, <1>6, <1>7, <1>8, <1>9, <1>10 DEF Next

(* In every reachable state.                                               *)
LEMMA PoolInvHolds == Spec => []PoolInv
BY PoolInvInit, PoolInvStep, PTL DEF Spec

(* Every field of the pool has its type; in particular pin_count_ never    *)
(* goes below 0 and the frame numbers on both lists are frames.            *)
THEOREM PoolTypeCorrect == Spec => []TypeOK
<1>1. PoolInv => TypeOK
  BY DEF PoolInv
<1> QED BY <1>1, PoolInvHolds, PTL

(* page_table_ and the ids in the frames stay each other's inverse.        *)
THEOREM PoolMapping == Spec => []MappingConsistent
<1>1. PoolInv => MappingConsistent
  BY DEF PoolInv
<1> QED BY <1>1, PoolInvHolds, PTL

(* pin_count_ counts the holders, and a page never leaves the frame of a   *)
(* thread that holds it: no eviction, deletion or remapping under a user.  *)
THEOREM PoolPins == Spec => []PinsExact
<1>1. PoolInv => PinsExact
  BY DEF PoolInv
<1> QED BY <1>1, PoolInvHolds, PTL

(* No frame is lost or handed out twice by free_list_ and the replacer.    *)
THEOREM PoolFrames == Spec => []FramesAccounted
<1>1. PoolInv => FramesAccounted
  BY DEF PoolInv
<1> QED BY <1>1, PoolInvHolds, PTL

(* What update_page drops without writing is on disk.                      *)
THEOREM PoolClean == Spec => []CleanMatchesDisk
<1>1. PoolInv => CleanMatchesDisk
  BY DEF PoolInv
<1> QED BY <1>1, PoolInvHolds, PTL
=============================================================================
