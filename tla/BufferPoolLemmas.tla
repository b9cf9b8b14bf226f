-------------------------- MODULE BufferPoolLemmas --------------------------
(***************************************************************************)
(* The inductive invariant of the buffer pool, and the lemmas its proof    *)
(* rests on: what the operations on free_list_ and LRUlist_ do to lists    *)
(* without repetition, who holds a frame, and what find_victim_page and    *)
(* update_page do to each part of the invariant.                           *)
(***************************************************************************)
EXTENDS BufferPool, FiniteSetTheorems, SequenceTheorems, TLAPS

(* new_page gets a page number that no frame has.                          *)
FreshUnmapped == \A p \in PageId : p[2] >= fd2pageno[p[1]] => page_table[p] = NoFrame

PoolInv ==
    /\ TypeOK /\ MappingConsistent /\ PinsExact /\ FramesAccounted /\ CleanMatchesDisk
    /\ FreshUnmapped

----------------------------------------------------------------------------
(* Lists of frames without repetition: free_list_ and LRUlist_.            *)

(* Popping the front takes that frame off the list, and no other.          *)
LEMMA PopFront ==
    ASSUME NEW s \in Seq(Frame), IsListOnce(s), s # << >>
    PROVE  /\ Head(s) \in Frame /\ Head(s) \in Range(s)
           /\ Tail(s) \in Seq(Frame) /\ IsListOnce(Tail(s))
           /\ Range(Tail(s)) = Range(s) \ {Head(s)}
<1>1. /\ Len(s) \in Nat \ {0} /\ DOMAIN s = 1 .. Len(s) /\ Head(s) = s[1]
      /\ \A i \in 1 .. Len(s) : s[i] \in Frame
  OBVIOUS
<1>2. /\ Tail(s) \in Seq(Frame) /\ DOMAIN Tail(s) = 1 .. Len(s) - 1
      /\ \A i \in 1 .. Len(s) - 1 : Tail(s)[i] = s[i + 1]
  BY <1>1
<1>3. IsListOnce(Tail(s))
  BY <1>1, <1>2 DEF IsListOnce
<1>4. ASSUME NEW f \in Range(s) \ {Head(s)} PROVE f \in Range(Tail(s))
  <2>1. PICK i \in 1 .. Len(s) : s[i] = f
    BY <1>1 DEF Range
  <2>2. i - 1 \in 1 .. Len(s) - 1 /\ Tail(s)[i - 1] = f
    BY <1>1, <1>2, <1>4, <2>1
  <2> QED BY <1>2, <2>2 DEF Range
<1>5. ASSUME NEW f \in Range(Tail(s)) PROVE f \in Range(s) \ {Head(s)}
  <2>1. PICK i \in 1 .. Len(s) - 1 : s[i + 1] = f
    BY <1>2 DEF Range
  <2>2. i + 1 \in DOMAIN s /\ 1 \in DOMAIN s /\ i + 1 # 1
    BY <1>1
  <2>3. s[i + 1] # s[1]
    BY <2>2 DEF IsListOnce
  <2> QED BY <1>1, <2>1, <2>2, <2>3 DEF Range
<1>6. Range(Tail(s)) = Range(s) \ {Head(s)}
  BY <1>4, <1>5
<1>7. Head(s) \in Range(s)
  BY <1>1 DEF Range
<1> QED BY <1>1, <1>2, <1>3, <1>6, <1>7

(* Appending a frame that is not on the list.                              *)
LEMMA PushBack ==
    ASSUME NEW s \in Seq(Frame), IsListOnce(s), NEW f \in Frame, f \notin Range(s)
    PROVE  /\ Append(s, f) \in Seq(Frame) /\ IsListOnce(Append(s, f))
           /\ Range(Append(s, f)) = Range(s) \cup {f}
<1>1. /\ Len(s) \in Nat /\ DOMAIN s = 1 .. Len(s)
      /\ Append(s, f) \in Seq(Frame) /\ DOMAIN Append(s, f) = 1 .. Len(s) + 1
      /\ \A i \in 1 .. Len(s) : Append(s, f)[i] = s[i]
      /\ Append(s, f)[Len(s) + 1] = f
  OBVIOUS
<1>2. 1 .. Len(s) + 1 = 1 .. Len(s) \cup {Len(s) + 1}
  BY <1>1
<1>3. Range(Append(s, f)) = Range(s) \cup {f}
  BY <1>1, <1>2 DEF Range
<1>4. \A i \in 1 .. Len(s) : s[i] # f
  BY <1>1 DEF Range
<1>5. IsListOnce(Append(s, f))
  BY <1>1, <1>2, <1>4 DEF IsListOnce
<1> QED BY <1>1, <1>3, <1>5

(* LRUReplacer::pin takes exactly the frame off the list.                  *)
LEMMA PinRemoves ==
    ASSUME NEW s \in Seq(Frame), IsListOnce(s), NEW f \in Frame
    PROVE  /\ Pin(s, f) \in Seq(Frame) /\ IsListOnce(Pin(s, f))
           /\ Range(Pin(s, f)) = Range(s) \ {f}
<1>1. CASE f \notin Range(s)
  BY <1>1 DEF Pin, IsEvictable
<1>2. CASE f \in Range(s)
  <2> DEFINE k == CHOOSE i \in DOMAIN s : s[i] = f
             r == RemoveAt(s, k)
  <2>1. k \in DOMAIN s /\ s[k] = f
    BY <1>2 DEF Range
  <2> HIDE DEF k
  <2>2. Len(s) \in Nat \ {0} /\ DOMAIN s = 1 .. Len(s) /\ k \in 1 .. Len(s)
    BY <2>1
  <2> DEFINE front == SubSeq(s, 1, k - 1)
             back == SubSeq(s, k + 1, Len(s))
  <2>a. \A i \in 1 .. Len(s) : s[i] \in Frame
    BY <2>2
  <2>b. /\ front \in Seq(Frame) /\ Len(front) = k - 1
        /\ \A i \in 1 .. k - 1 : front[i] = s[i]
    <3>1. /\ front \in Seq(Frame)
          /\ Len(front) = IF 1 <= k - 1 THEN k - 1 - 1 + 1 ELSE 0
          /\ \A i \in 1 .. k - 1 - 1 + 1 : front[i] = s[1 + i - 1]
      BY <2>2, <2>a, SubSeqProperties
    <3> QED BY <2>2, <3>1
  <2>c. /\ back \in Seq(Frame) /\ Len(back) = Len(s) - k
        /\ \A i \in 1 .. Len(s) - k : back[i] = s[k + i]
    <3>1. /\ back \in Seq(Frame)
          /\ Len(back) = IF k + 1 <= Len(s) THEN Len(s) - (k + 1) + 1 ELSE 0
          /\ \A i \in 1 .. Len(s) - (k + 1) + 1 : back[i] = s[k + 1 + i - 1]
      BY <2>2, <2>a, SubSeqProperties
    <3> HIDE DEF back
    <3>2. \A i \in 1 .. Len(s) - k : i \in 1 .. Len(s) - (k + 1) + 1 /\ k + 1 + i - 1 = k + i
      BY <2>2
    <3>3. Len(back) = Len(s) - k
      <4>1. Len(back) = IF k + 1 <= Len(s) THEN Len(s) - (k + 1) + 1 ELSE 0
        BY <3>1
      <4>2. k \in Nat /\ Len(s) \in Nat /\ k <= Len(s)
        BY <2>2
      <4>3. CASE k = Len(s)
        BY <4>1, <4>2, <4>3
      <4>4. CASE k < Len(s)
        BY <4>1, <4>2, <4>4
      <4> QED BY <4>2, <4>3, <4>4
    <3>4. \A i \in 1 .. Len(s) - k : back[i] = s[k + i]
      <4>1. SUFFICES ASSUME NEW i \in 1 .. Len(s) - k PROVE back[i] = s[k + i]
        OBVIOUS
      <4>2. back[i] = s[k + 1 + i - 1]
        BY <3>1, <3>2
      <4> QED BY <3>2, <4>2
    <3> QED BY <3>1, <3>3, <3>4
  <2>d. r = front \o back
    BY DEF RemoveAt
  <2> HIDE DEF front, back
  <2>4. /\ r \in Seq(Frame) /\ DOMAIN r = 1 .. Len(s) - 1
        /\ \A i \in 1 .. Len(s) - 1 : r[i] = IF i < k THEN s[i] ELSE s[i + 1]
    <3>1. /\ front \o back \in Seq(Frame)
          /\ Len(front \o back) = Len(front) + Len(back)
          /\ \A i \in 1 .. Len(front) + Len(back) :
                (front \o back)[i] = IF i <= Len(front) THEN front[i] ELSE back[i - Len(front)]
      BY <2>b, <2>c, ConcatProperties
    <3>2. Len(r) = Len(s) - 1 /\ r \in Seq(Frame)
      BY <2>2, <2>b, <2>c, <2>d, <3>1
    <3>3. ASSUME NEW i \in 1 .. Len(s) - 1
          PROVE  r[i] = IF i < k THEN s[i] ELSE s[i + 1]
      <4>1. CASE i < k
        <5>1. i \in 1 .. k - 1 /\ i <= Len(front) /\ i \in 1 .. Len(front) + Len(back)
          BY <2>2, <2>b, <2>c, <4>1
        <5> QED BY <2>b, <2>d, <3>1, <4>1, <5>1
      <4>2. CASE ~(i < k)
        <5>1. /\ i - Len(front) \in 1 .. Len(s) - k /\ ~(i <= Len(front))
              /\ i \in 1 .. Len(front) + Len(back) /\ k + (i - Len(front)) = i + 1
          BY <2>2, <2>b, <2>c, <4>2
        <5> QED BY <2>c, <2>d, <3>1, <4>2, <5>1
      <4> QED BY <4>1, <4>2
    <3> HIDE DEF r
    <3> QED BY <3>2, <3>3
  <2>5. Pin(s, f) = r
    BY <1>2 DEF Pin, IsEvictable, k
  <2> HIDE DEF r
  <2>6. IsListOnce(r)
    <3>1. SUFFICES ASSUME NEW i \in 1 .. Len(s) - 1, NEW j \in 1 .. Len(s) - 1, r[i] = r[j]
                   PROVE  i = j
      BY <2>4 DEF IsListOnce
    <3> DEFINE old(n) == IF n < k THEN n ELSE n + 1
    <3>2. old(i) \in DOMAIN s /\ old(j) \in DOMAIN s /\ r[i] = s[old(i)] /\ r[j] = s[old(j)]
      BY <2>2, <2>4
    <3>3. old(i) = old(j)
      BY <3>1, <3>2 DEF IsListOnce
    <3> QED BY <2>2, <3>3
  <2>7. ASSUME NEW g \in Range(r) PROVE g \in Range(s) \ {f}
    <3>1. PICK i \in 1 .. Len(s) - 1 : r[i] = g
      BY <2>4 DEF Range
    <3>2. PICK j \in 1 .. Len(s) : s[j] = g /\ j # k
      BY <2>2, <2>4, <3>1
    <3> QED BY <2>1, <2>2, <3>2 DEF Range, IsListOnce
  <2>8. ASSUME NEW g \in Range(s) \ {f} PROVE g \in Range(r)
    <3>1. PICK j \in 1 .. Len(s) : s[j] = g
      BY <2>2 DEF Range
    <3>2. j # k
      BY <2>1, <2>8, <3>1
    <3>3. PICK i \in 1 .. Len(s) - 1 : r[i] = g
      <4>1. CASE j < k
        BY <2>2, <2>4, <3>1, <4>1
      <4>2. CASE j > k
        <5>1. j - 1 \in 1 .. Len(s) - 1 /\ r[j - 1] = g
          BY <2>2, <2>4, <3>1, <4>2
        <5> QED BY <5>1
      <4> QED BY <2>2, <3>2, <4>1, <4>2
    <3> QED BY <2>4, <3>3 DEF Range
  <2> QED BY <2>4, <2>5, <2>6, <2>7, <2>8
<1> QED BY <1>1, <1>2

(* A list of distinct frames is full only if it has all of them: the size  *)
(* check in LRUReplacer::unpin never refuses a frame.                      *)
LEMMA ListNotFull ==
    ASSUME NEW s \in Seq(Frame), IsListOnce(s), NEW f \in Frame, f \notin Range(s)
    PROVE  Len(s) < PoolSize
<1> SUFFICES ASSUME Len(s) >= PoolSize PROVE FALSE
  BY PoolAssumption
<1> DEFINE T == Frame \ {f}
<1>1. PoolSize \in Nat \ {0} /\ Len(s) \in Nat
  BY PoolAssumption
<1>2. IsFiniteSet(Frame) /\ Cardinality(Frame) = PoolSize
  BY <1>1, FS_Interval DEF Frame
<1>3. IsFiniteSet(T) /\ Cardinality(T) = PoolSize - 1
  BY <1>2, FS_RemoveElement
<1>4. IsFiniteSet(1 .. Len(s)) /\ Cardinality(1 .. Len(s)) = Len(s)
  BY <1>1, FS_Interval
<1>5. s \in [1 .. Len(s) -> T]
  BY DEF Range
<1>6. Cardinality(T) < Cardinality(1 .. Len(s))
  BY <1>1, <1>3, <1>4
<1> HIDE DEF T
<1>7. \E x, y \in 1 .. Len(s) : x # y /\ s[x] = s[y]
  BY <1>3, <1>4, <1>5, <1>6, FS_PigeonHole
<1> QED BY <1>7 DEF IsListOnce

(* LRUReplacer::unpin puts the frame on the list.                          *)
LEMMA UnpinAdds ==
    ASSUME NEW s \in Seq(Frame), IsListOnce(s), NEW f \in Frame
    PROVE  /\ Unpin(s, f, PoolSize) \in Seq(Frame) /\ IsListOnce(Unpin(s, f, PoolSize))
           /\ Range(Unpin(s, f, PoolSize)) = Range(s) \cup {f}
<1>1. CASE f \in Range(s)
  BY <1>1 DEF Unpin, IsEvictable
<1>2. CASE f \notin Range(s)
  <2>1. ~(Len(s) >= PoolSize)
    BY <1>2, ListNotFull, PoolAssumption
  <2>2. Unpin(s, f, PoolSize) = Append(s, f)
    BY <1>2, <2>1 DEF Unpin, IsEvictable
  <2> QED BY <1>2, <2>2, PushBack
<1> QED BY <1>1, <1>2

----------------------------------------------------------------------------
(* Pins and holders.                                                       *)

(* A frame has finitely many holders; its pin count is 0 iff it has none.  *)
LEMMA HoldersCounted ==
    ASSUME PinsExact, NEW f \in Frame
    PROVE  /\ IsFiniteSet(Holders(f))
           /\ pin_count[f] = Cardinality(Holders(f))
           /\ pin_count[f] \in Nat
           /\ pin_count[f] = 0 <=> Holders(f) = {}
<1>1. IsFiniteSet(Holders(f))
  BY PoolAssumption, FS_Subset DEF Holders
<1>2. pin_count[f] = Cardinality(Holders(f))
  BY DEF PinsExact
<1>3. Cardinality(Holders(f)) \in Nat
  BY <1>1, FS_CardinalityType
<1>4. Cardinality(Holders(f)) = 0 <=> Holders(f) = {}
  BY <1>1, FS_EmptySet
<1> QED BY <1>1, <1>2, <1>3, <1>4

(* The last pin is the one that takes the count to 0.                      *)
LEMMA LastPin == ASSUME NEW n \in Nat \ {0} PROVE n - 1 \in Nat /\ (n - 1 = 0 <=> n = 1)
OBVIOUS

(* A thread holds the frame to which the page table maps its page.         *)
LEMMA HeldIsMapped ==
    ASSUME TypeOK, MappingConsistent, PinsExact, NEW t \in Thread, Holding(t)
    PROVE  /\ held_page[t] \in PageId /\ held_frame[t] \in Frame
           /\ page_table[held_page[t]] = held_frame[t]
           /\ page_id[held_frame[t]] = held_page[t]
           /\ t \in Holders(held_frame[t])
           /\ pin_count[held_frame[t]] \in Nat \ {0}
<1>1. held_page[t] \in PageId
  BY DEF TypeOK, Holding
<1>2. held_frame[t] \in Frame /\ page_id[held_frame[t]] = held_page[t]
  BY DEF PinsExact
<1>3. page_table[held_page[t]] = held_frame[t]
  BY <1>1, <1>2, PoolAssumption DEF MappingConsistent
<1>4. t \in Holders(held_frame[t])
  BY DEF Holders
<1>5. pin_count[held_frame[t]] \in Nat \ {0}
  BY <1>2, <1>4, HoldersCounted
<1> QED BY <1>1, <1>2, <1>3, <1>4, <1>5

(* find_victim_page returns a frame nobody holds, and takes it off the     *)
(* list it was on.                                                         *)
LEMMA VictimIsIdle ==
    ASSUME PoolInv, TakeVictimPage
    PROVE  /\ VictimPage \in Frame
           /\ pin_count[VictimPage] = 0 /\ Holders(VictimPage) = {}
           /\ free_list' \in Seq(Frame) /\ IsListOnce(free_list')
           /\ LRUlist' \in Seq(Frame) /\ IsListOnce(LRUlist')
           /\ Range(free_list') = Range(free_list) \ {VictimPage}
           /\ Range(LRUlist') = Range(LRUlist) \ {VictimPage}
<1>1. /\ free_list \in Seq(Frame) /\ IsListOnce(free_list)
      /\ LRUlist \in Seq(Frame) /\ IsListOnce(LRUlist)
  BY DEF PoolInv, TypeOK, FramesAccounted
<1>2. \A f \in Frame : f \in Range(free_list) => f \notin Range(LRUlist) /\ pin_count[f] = 0
  BY DEF PoolInv, FramesAccounted, IsEvictable
<1>3. \A f \in Frame : f \in Range(LRUlist) => f \notin Range(free_list) /\ pin_count[f] = 0
  BY DEF PoolInv, FramesAccounted, IsEvictable
<1>4. CASE free_list # << >>
  <2>1. VictimPage = Head(free_list) /\ free_list' = Tail(free_list) /\ LRUlist' = LRUlist
    BY <1>4 DEF VictimPage, TakeVictimPage
  <2>2. /\ VictimPage \in Frame /\ VictimPage \in Range(free_list)
        /\ free_list' \in Seq(Frame) /\ IsListOnce(free_list')
        /\ Range(free_list') = Range(free_list) \ {VictimPage}
    BY <1>1, <1>4, <2>1, PopFront
  <2>3. pin_count[VictimPage] = 0 /\ VictimPage \notin Range(LRUlist)
    BY <1>2, <2>2
  <2>4. Holders(VictimPage) = {}
    BY <2>2, <2>3, HoldersCounted DEF PoolInv
  <2>5. Range(LRUlist') = Range(LRUlist) \ {VictimPage}
    BY <2>1, <2>3
  <2> QED BY <1>1, <2>1, <2>2, <2>3, <2>4, <2>5
<1>5. CASE free_list = << >>
  <2>1. VictimPage = Head(LRUlist) /\ LRUlist' = Tail(LRUlist) /\ free_list' = free_list
        /\ LRUlist # << >>
    BY <1>5 DEF VictimPage, TakeVictimPage, HasVictimPage, HasVictim, Victim, AfterVictim
  <2>2. /\ VictimPage \in Frame /\ VictimPage \in Range(LRUlist)
        /\ LRUlist' \in Seq(Frame) /\ IsListOnce(LRUlist')
        /\ Range(LRUlist') = Range(LRUlist) \ {VictimPage}
    BY <1>1, <2>1, PopFront
  <2>3. pin_count[VictimPage] = 0 /\ VictimPage \notin Range(free_list)
    BY <1>3, <2>2
  <2>4. Holders(VictimPage) = {}
    BY <2>2, <2>3, HoldersCounted DEF PoolInv
  <2>5. Range(free_list') = Range(free_list) \ {VictimPage}
    BY <2>1, <2>3
  <2> QED BY <1>1, <2>1, <2>2, <2>3, <2>4, <2>5
<1> QED BY <1>4, <1>5

----------------------------------------------------------------------------
(* update_page, as fetch_page and new_page use it: frame VictimPage gives  *)
(* up its page and gets p.                                                 *)

(* What changes in the frames and the page table.                          *)
LEMMA InstallFrames ==
    ASSUME PoolInv, TakeVictimPage, NEW p \in PageId, page_table[p] = NoFrame,
           NEW bytes \in Data, NEW pins \in Nat, UpdatePage(VictimPage, p, bytes, pins)
    PROVE  /\ page_id' \in [Frame -> PageId \cup {NoPage}]
           /\ page_table' \in [PageId -> Frame \cup {NoFrame}]
           /\ data' \in [Frame -> Data]
           /\ is_dirty' \in [Frame -> BOOLEAN]
           /\ pin_count' \in [Frame -> Nat]
           /\ disk' \in [PageId -> Data \cup {Absent}]
           /\ page_id'[VictimPage] = p
           /\ data'[VictimPage] = bytes
           /\ ~is_dirty'[VictimPage]
           /\ pin_count'[VictimPage] = pins
           /\ \A f \in Frame \ {VictimPage} :
                /\ page_id'[f] = page_id[f] /\ data'[f] = data[f]
                /\ is_dirty'[f] = is_dirty[f] /\ pin_count'[f] = pin_count[f]
           /\ page_table'[p] = VictimPage
           /\ \A q \in PageId \ {p} :
                page_table'[q] = IF page_table[q] = VictimPage THEN NoFrame ELSE page_table[q]
           /\ \A q \in PageId : q # page_id[VictimPage] => disk'[q] = disk[q]
<1> DEFINE v == VictimPage
<1>1. v \in Frame
  BY VictimIsIdle
<1>2. TypeOK /\ MappingConsistent
  BY DEF PoolInv
<1> HIDE DEF v
<1>3. /\ disk'       = WriteBack(v)
      /\ page_table' = [Unmap(v) EXCEPT ![p] = v]
      /\ page_id'    = [page_id EXCEPT ![v] = p]
      /\ data'       = [data EXCEPT ![v] = bytes]
      /\ is_dirty'   = [is_dirty EXCEPT ![v] = FALSE]
      /\ pin_count'  = [pin_count EXCEPT ![v] = pins]
  BY DEF UpdatePage, v
<1>4. /\ page_id' \in [Frame -> PageId \cup {NoPage}]
      /\ data' \in [Frame -> Data]
      /\ is_dirty' \in [Frame -> BOOLEAN]
      /\ pin_count' \in [Frame -> Nat]
  BY <1>1, <1>2, <1>3 DEF TypeOK
<1>5. /\ page_id'[v] = p /\ data'[v] = bytes /\ ~is_dirty'[v] /\ pin_count'[v] = pins
      /\ \A f \in Frame \ {v} :
            /\ page_id'[f] = page_id[f] /\ data'[f] = data[f]
            /\ is_dirty'[f] = is_dirty[f] /\ pin_count'[f] = pin_count[f]
  BY <1>1, <1>2, <1>3 DEF TypeOK
<1>6. /\ Unmap(v) \in [PageId -> Frame \cup {NoFrame}]
      /\ \A q \in PageId :
            Unmap(v)[q] = IF page_table[q] = v THEN NoFrame ELSE page_table[q]
  <2>1. v # NoFrame /\ \A q \in PageId : page_table[q] = v => page_id[v] = q
    BY <1>1, <1>2, PoolAssumption DEF MappingConsistent
  <2>2. CASE page_id[v] = NoPage
    <3>1. Unmap(v) = page_table
      BY <2>2 DEF Unmap
    <3> QED BY <1>2, <2>1, <2>2, <3>1, PoolAssumption DEF TypeOK
  <2>3. CASE page_id[v] # NoPage
    <3>1. Unmap(v) = [page_table EXCEPT ![page_id[v]] = NoFrame]
      BY <2>3 DEF Unmap
    <3>2. page_id[v] \in PageId /\ page_table[page_id[v]] = v
      BY <1>1, <1>2, <2>3 DEF TypeOK, MappingConsistent
    <3> QED BY <1>2, <2>1, <3>1, <3>2 DEF TypeOK
  <2> QED BY <2>2, <2>3
<1>7. /\ page_table' \in [PageId -> Frame \cup {NoFrame}]
      /\ page_table'[p] = v
      /\ \A q \in PageId \ {p} :
            page_table'[q] = IF page_table[q] = v THEN NoFrame ELSE page_table[q]
  BY <1>1, <1>3, <1>6
<1>8. /\ disk' \in [PageId -> Data \cup {Absent}]
      /\ \A q \in PageId : q # page_id[v] => disk'[q] = disk[q]
  <2>1. page_id[v] \in PageId \cup {NoPage} /\ data[v] \in Data
    BY <1>1, <1>2 DEF TypeOK
  <2> QED BY <1>2, <1>3, <2>1 DEF TypeOK, WriteBack
<1> QED BY <1>4, <1>5, <1>7, <1>8 DEF v

(* The page table stays the inverse of the frames' page ids.               *)
LEMMA InstallMaps ==
    ASSUME PoolInv, TakeVictimPage, NEW p \in PageId, page_table[p] = NoFrame,
           NEW bytes \in Data, NEW pins \in Nat, UpdatePage(VictimPage, p, bytes, pins)
    PROVE  MappingConsistent'
<1> DEFINE v == VictimPage
<1>1. v \in Frame
  BY VictimIsIdle
<1>2. /\ page_id'[v] = p
      /\ \A f \in Frame \ {v} : page_id'[f] = page_id[f]
      /\ page_table'[p] = v
      /\ \A q \in PageId \ {p} :
            page_table'[q] = IF page_table[q] = v THEN NoFrame ELSE page_table[q]
  BY InstallFrames
<1> HIDE DEF v
<1>3. TypeOK /\ MappingConsistent
  BY DEF PoolInv
<1>4. ASSUME NEW q \in PageId, page_table'[q] # NoFrame PROVE page_id'[page_table'[q]] = q
  <2>1. CASE q = p
    BY <1>2, <2>1
  <2>2. CASE q # p
    <3>1. page_table'[q] = page_table[q] /\ page_table[q] # v /\ page_table[q] # NoFrame
      BY <1>2, <1>4, <2>2
    <3>2. page_table[q] \in Frame /\ page_id[page_table[q]] = q
      BY <1>3, <3>1 DEF TypeOK, MappingConsistent
    <3> QED BY <1>2, <3>1, <3>2
  <2> QED BY <2>1, <2>2
<1>5. ASSUME NEW f \in Frame, page_id'[f] # NoPage PROVE page_table'[page_id'[f]] = f
  <2>1. CASE f = v
    BY <1>2, <2>1
  <2>2. CASE f # v
    <3>1. page_id'[f] = page_id[f]
      BY <1>2, <2>2
    <3>2. page_id[f] \in PageId /\ page_table[page_id[f]] = f
      BY <1>3, <1>5, <3>1 DEF TypeOK, MappingConsistent
    <3>3. page_id[f] # p
      BY <3>2, PoolAssumption
    <3> QED BY <1>2, <2>2, <3>1, <3>2, <3>3
  <2> QED BY <2>1, <2>2
<1> QED BY <1>4, <1>5 DEF MappingConsistent

(* No other page reads differently: the victim's old page is on disk as    *)
(* the frame had it.                                                       *)
LEMMA InstallViews ==
    ASSUME PoolInv, TakeVictimPage, NEW p \in PageId, page_table[p] = NoFrame,
           NEW bytes \in Data, NEW pins \in Nat, UpdatePage(VictimPage, p, bytes, pins)
    PROVE  View' = [View EXCEPT ![p] = bytes]
<1> DEFINE v == VictimPage
<1>1. v \in Frame /\ Holders(v) = {}
  BY VictimIsIdle
<1>2. /\ data'[v] = bytes
      /\ \A f \in Frame \ {v} : data'[f] = data[f]
      /\ page_table'[p] = v
      /\ \A q \in PageId \ {p} :
            page_table'[q] = IF page_table[q] = v THEN NoFrame ELSE page_table[q]
      /\ \A q \in PageId : q # page_id[v] => disk'[q] = disk[q]
  BY InstallFrames
<1>3. disk' = WriteBack(v)
  BY DEF UpdatePage
<1> HIDE DEF v
<1>4. TypeOK /\ MappingConsistent /\ CleanMatchesDisk
  BY DEF PoolInv
<1>5. v # NoFrame
  BY <1>1, PoolAssumption
<1>6. \A q \in PageId : View[q] = IF page_table[q] # NoFrame THEN data[page_table[q]]
                                                           ELSE ContentOn(disk, q)
  BY DEF View
<1>7. \A q \in PageId : View'[q] = IF page_table'[q] # NoFrame THEN data'[page_table'[q]]
                                                             ELSE ContentOn(disk', q)
  BY DEF View
<1>8. View'[p] = bytes
  BY <1>2, <1>5, <1>7
<1>9. ASSUME NEW q \in PageId \ {p} PROVE View'[q] = View[q]
  <2>1. CASE page_table[q] = v
    <3>1. page_id[v] = q /\ q # NoPage
      BY <1>4, <1>5, <2>1, PoolAssumption DEF MappingConsistent
    <3>2. View[q] = data[v] /\ View'[q] = ContentOn(disk', q)
      BY <1>2, <1>5, <1>6, <1>7, <2>1
    <3>3. data[v] \in Data /\ data[v] # Absent
      BY <1>1, <1>4, PoolAssumption DEF TypeOK
    <3>4. CASE is_dirty[v]
      <4>1. disk' = [disk EXCEPT ![q] = data[v]]
        BY <1>3, <3>1, <3>4 DEF WriteBack
      <4>2. disk'[q] = data[v]
        BY <1>4, <4>1 DEF TypeOK
      <4> QED BY <3>2, <3>3, <4>2 DEF ContentOn
    <3>5. CASE ~is_dirty[v]
      <4>1. disk' = disk
        BY <1>3, <3>5 DEF WriteBack
      <4>2. data[v] = ContentOn(disk, q)
        BY <1>1, <1>4, <3>1, <3>5 DEF CleanMatchesDisk
      <4> QED BY <3>2, <4>1, <4>2
    <3> QED BY <3>4, <3>5
  <2>2. CASE page_table[q] # v
    <3>1. page_table'[q] = page_table[q]
      BY <1>2, <2>2
    <3>2. q # page_id[v]
      BY <1>1, <1>4, <2>2, PoolAssumption DEF MappingConsistent
    <3>3. ContentOn(disk', q) = ContentOn(disk, q)
      BY <1>2, <3>2 DEF ContentOn
    <3>4. page_table[q] # NoFrame => data'[page_table[q]] = data[page_table[q]]
      BY <1>2, <1>4, <2>2 DEF TypeOK
    <3> QED BY <1>6, <1>7, <3>1, <3>3, <3>4
  <2> QED BY <2>1, <2>2
<1>10. View' = [q \in PageId |-> View'[q]] /\ View = [q \in PageId |-> View[q]]
  BY DEF View
<1> QED BY <1>8, <1>9, <1>10

----------------------------------------------------------------------------
(* One lemma per operation: it keeps PoolInv.                              *)

(* The free and the evictable frames after update_page: the victim left    *)
(* its list, and is pinned, or stranded with nothing in it.                *)
LEMMA InstallAccounts ==
    ASSUME PoolInv, TakeVictimPage, NEW p \in PageId, page_table[p] = NoFrame,
           NEW bytes \in Data, NEW pins \in Nat, UpdatePage(VictimPage, p, bytes, pins),
           pins = 0 => bytes = Zero
    PROVE  FramesAccounted'
<1> DEFINE v == VictimPage
<1>1. /\ v \in Frame
      /\ IsListOnce(free_list') /\ IsListOnce(LRUlist')
      /\ Range(free_list') = Range(free_list) \ {v}
      /\ Range(LRUlist') = Range(LRUlist) \ {v}
  BY VictimIsIdle
<1>2. /\ page_id'[v] = p /\ data'[v] = bytes /\ ~is_dirty'[v] /\ pin_count'[v] = pins
      /\ \A f \in Frame \ {v} :
            /\ page_id'[f] = page_id[f] /\ data'[f] = data[f]
            /\ is_dirty'[f] = is_dirty[f] /\ pin_count'[f] = pin_count[f]
  BY InstallFrames
<1> HIDE DEF v
<1>3. FramesAccounted
  BY DEF PoolInv
<1>4. p # NoPage
  BY PoolAssumption
<1>5. ASSUME NEW f \in Frame
      PROVE  /\ f \in Range(free_list') <=> page_id'[f] = NoPage
             /\ IsEvictable(LRUlist', f) => page_id'[f] # NoPage /\ pin_count'[f] = 0
             /\ page_id'[f] = NoPage => pin_count'[f] = 0 /\ ~is_dirty'[f]
             /\ Stranded(f)' => data'[f] = Zero /\ ~is_dirty'[f]
  <2>1. CASE f = v
    BY <1>1, <1>2, <1>4, <2>1 DEF IsEvictable, Stranded
  <2>2. CASE f # v
    BY <1>1, <1>2, <1>3, <2>2 DEF IsEvictable, Stranded, FramesAccounted
  <2> QED BY <2>1, <2>2
<1> QED BY <1>1, <1>5 DEF FramesAccounted

(* Pages other than p stay clean or dirty as they were.                    *)
LEMMA InstallClean ==
    ASSUME PoolInv, TakeVictimPage, NEW p \in PageId, page_table[p] = NoFrame,
           NEW bytes \in Data, NEW pins \in Nat, UpdatePage(VictimPage, p, bytes, pins),
           NEW f \in Frame \ {VictimPage}, page_id[f] # NoPage
    PROVE  ContentOn(disk', page_id[f]) = ContentOn(disk, page_id[f])
<1>1. VictimPage \in Frame
  BY VictimIsIdle
<1>2. page_id[f] \in PageId /\ page_id[f] # page_id[VictimPage]
  BY <1>1 DEF PoolInv, TypeOK, MappingConsistent
<1>3. disk'[page_id[f]] = disk[page_id[f]]
  BY <1>2, InstallFrames
<1> QED BY <1>3 DEF ContentOn

(* A thread that held nothing gets hold of frame g with page p.            *)
LEMMA HoldAdds ==
    ASSUME PoolInv, NEW t \in Thread, ~Holding(t), NEW p \in PageId, NEW g \in Frame,
           NEW w \in BOOLEAN, Hold(t, p, g, w)
    PROVE  /\ held_page' \in [Thread -> PageId \cup {NoPage}]
           /\ held_frame' \in [Thread -> Frame \cup {NoFrame}]
           /\ wrote' \in [Thread -> BOOLEAN]
           /\ t \notin Holders(g)
           /\ Holders(g)' = Holders(g) \cup {t}
           /\ \A f \in Frame \ {g} : t \notin Holders(f) /\ Holders(f)' = Holders(f)
           /\ Holding(t)' /\ held_page'[t] = p /\ held_frame'[t] = g /\ wrote'[t] = w
           /\ \A u \in Thread \ {t} :
                /\ Holding(u)' <=> Holding(u)
                /\ held_page'[u] = held_page[u] /\ held_frame'[u] = held_frame[u]
                /\ wrote'[u] = wrote[u]
<1>1. TypeOK /\ held_frame[t] = NoFrame /\ NoFrame \notin Frame /\ p # NoPage
  BY PoolAssumption DEF PoolInv, PinsExact
<1>2. /\ held_page' = [held_page EXCEPT ![t] = p]
      /\ held_frame' = [held_frame EXCEPT ![t] = g]
      /\ wrote' = [wrote EXCEPT ![t] = w]
  BY DEF Hold
<1>3. /\ held_page' \in [Thread -> PageId \cup {NoPage}]
      /\ held_frame' \in [Thread -> Frame \cup {NoFrame}]
      /\ wrote' \in [Thread -> BOOLEAN]
  BY <1>1, <1>2 DEF TypeOK
<1>4. /\ held_page'[t] = p /\ held_frame'[t] = g /\ wrote'[t] = w
      /\ \A u \in Thread \ {t} :
            /\ held_page'[u] = held_page[u] /\ held_frame'[u] = held_frame[u]
            /\ wrote'[u] = wrote[u]
  BY <1>1, <1>2 DEF TypeOK
<1>5. Holding(t)' /\ \A u \in Thread \ {t} : Holding(u)' <=> Holding(u)
  BY <1>1, <1>4 DEF Holding
<1>6. \A f \in Frame : t \notin Holders(f)
  BY <1>1 DEF Holders
<1>7. Holders(g)' = Holders(g) \cup {t}
  BY <1>4 DEF Holders
<1>8. \A f \in Frame \ {g} : Holders(f)' = Holders(f)
  BY <1>1, <1>4 DEF Holders
<1> QED BY <1>3, <1>4, <1>5, <1>6, <1>7, <1>8

(* fetch_page and new_page with a victim: the page is installed and its    *)
(* caller holds it.                                                        *)
LEMMA InstallHeld ==
    ASSUME PoolInv, NEW t \in Thread, ~Holding(t), TakeVictimPage,
           NEW p \in PageId, page_table[p] = NoFrame,
           NEW bytes \in Data, UpdatePage(VictimPage, p, bytes, 1),
           NEW w \in BOOLEAN, Hold(t, p, VictimPage, w),
           w \/ bytes = ContentOn(disk', p)
    PROVE  /\ MappingConsistent' /\ PinsExact' /\ FramesAccounted' /\ CleanMatchesDisk'
           /\ \A q \in PageId \ {p} : page_table[q] = NoFrame => page_table'[q] = NoFrame
<1>0. PICK v \in Frame : v = VictimPage
  BY VictimIsIdle
<1>1. v \in Frame /\ Holders(v) = {}
  BY <1>0, VictimIsIdle
<1>2. /\ page_id'[v] = p /\ data'[v] = bytes /\ pin_count'[v] = 1
      /\ \A f \in Frame \ {v} :
            /\ page_id'[f] = page_id[f] /\ data'[f] = data[f]
            /\ is_dirty'[f] = is_dirty[f] /\ pin_count'[f] = pin_count[f]
  BY <1>0, InstallFrames
<1>3. /\ Holders(v)' = {t}
      /\ \A f \in Frame \ {v} : t \notin Holders(f) /\ Holders(f)' = Holders(f)
      /\ Holding(t)' /\ held_page'[t] = p /\ held_frame'[t] = v /\ wrote'[t] = w
      /\ \A u \in Thread \ {t} :
            /\ Holding(u)' <=> Holding(u)
            /\ held_page'[u] = held_page[u] /\ held_frame'[u] = held_frame[u]
            /\ wrote'[u] = wrote[u]
  <2>1. Hold(t, p, v, w)
    BY <1>0
  <2> QED BY <1>1, <2>1, HoldAdds
<1>4. MappingConsistent'
  BY InstallMaps
<1>5. FramesAccounted'
  BY InstallAccounts
<1>6. \A f \in Frame \ {v} :
        page_id[f] # NoPage => ContentOn(disk', page_id[f]) = ContentOn(disk, page_id[f])
  BY <1>0, InstallClean
<1>7. \A q \in PageId \ {p} : page_table[q] = NoFrame => page_table'[q] = NoFrame
  BY InstallFrames
<1>8. PinsExact'
  <2>1. ASSUME NEW f \in Frame PROVE pin_count'[f] = Cardinality(Holders(f)')
    <3>1. CASE f = v
      <4>1. Cardinality({t}) = 1
        BY FS_Singleton
      <4> QED BY <1>2, <1>3, <3>1, <4>1
    <3>2. CASE f # v
      <4>1. pin_count[f] = Cardinality(Holders(f))
        BY HoldersCounted DEF PoolInv
      <4>2. pin_count'[f] = pin_count[f]
        BY <1>2, <3>2
      <4>3. Holders(f)' = Holders(f)
        BY <1>3, <3>2
      <4> QED BY <4>1, <4>2, <4>3
    <3> QED BY <3>1, <3>2
  <2>2. ASSUME NEW u \in Thread
        PROVE  IF Holding(u)' THEN held_frame'[u] \in Frame /\ page_id'[held_frame'[u]] = held_page'[u]
                              ELSE held_frame'[u] = NoFrame /\ wrote'[u] = FALSE
    <3>1. CASE u = t
      BY <1>1, <1>2, <1>3, <3>1
    <3>2. CASE u # t
      <4>1. CASE Holding(u)
        <5>1. held_frame[u] \in Frame /\ page_id[held_frame[u]] = held_page[u] /\ held_frame[u] # v
          BY <1>1, <4>1 DEF PoolInv, PinsExact, Holders
        <5>2. Holding(u)' /\ held_frame'[u] = held_frame[u] /\ held_page'[u] = held_page[u]
          BY <1>3, <3>2, <4>1
        <5>3. page_id'[held_frame[u]] = page_id[held_frame[u]]
          BY <1>2, <5>1
        <5> QED BY <5>1, <5>2, <5>3
      <4>2. CASE ~Holding(u)
        BY <1>3, <3>2, <4>2 DEF PoolInv, PinsExact
      <4> QED BY <4>1, <4>2
    <3> QED BY <3>1, <3>2
  <2> QED BY <2>1, <2>2 DEF PinsExact
<1>9. CleanMatchesDisk'
  <2> SUFFICES ASSUME NEW f \in Frame, page_id'[f] # NoPage, ~is_dirty'[f],
                      \A u \in Holders(f)' : ~wrote'[u]
               PROVE  data'[f] = ContentOn(disk', page_id'[f])
    BY DEF CleanMatchesDisk
  <2>1. CASE f = v
    BY <1>2, <1>3, <2>1
  <2>2. CASE f # v
    <3>1. \A u \in Holders(f) : u \in Thread \ {t} /\ ~wrote[u]
      BY <1>3, <2>2 DEF Holders
    <3>2. data[f] = ContentOn(disk, page_id[f])
      BY <1>2, <2>2, <3>1 DEF PoolInv, CleanMatchesDisk
    <3> QED BY <1>2, <1>6, <2>2, <3>2
  <2> QED BY <2>1, <2>2
<1> QED BY <1>4, <1>5, <1>7, <1>8, <1>9

(* What read_page finds is a page content.                                 *)
LEMMA ContentType ==
    ASSUME NEW d \in [PageId -> Data \cup {Absent}], NEW p \in PageId
    PROVE  ContentOn(d, p) \in Data
BY PoolAssumption DEF ContentOn
=============================================================================
